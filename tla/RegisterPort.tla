---------------------------- MODULE RegisterPort ----------------------------
(***************************************************************************)
(* What the R5 relies on when it accesses the registers of a miner         *)
(* instance over AXI4-Lite: on each of the two channels ("w" and "r") an   *)
(* access is pending until it takes effect, takes effect exactly once, and *)
(* is answered after that with what it found at that moment.  A read and a *)
(* write may be under way together.                                        *)
(***************************************************************************)
EXTENDS Integers

CONSTANTS Addr, Data, Zero   \* Zero: the contents of a register after reset

Ch == {"w", "r"}
Req(c) == IF c = "w" THEN [addr : Addr, data : Data] ELSE Addr
Okay == "okay"               \* the answer to a write

VARIABLES
    port,     \* the access of each channel
    regs,     \* the registers
    writes    \* writes that took effect, modulo 4: tells one write from two

portVars == <<port, regs, writes>>

Idle == [st |-> "idle", val |-> Okay]
Pending(q) == [st |-> "pending", val |-> q]
Served(v) == [st |-> "served", val |-> v]
Answered(v) == [st |-> "answered", val |-> v]

Init ==
    /\ port = [c \in Ch |-> Idle]
    /\ regs = [a \in Addr |-> Zero]
    /\ writes = 0

\* What an access is answered with when it takes effect in this state.
Answer(c, q) == IF c = "w" THEN Okay ELSE regs[q]

Accept(c) == port[c] = Idle /\ \E q \in Req(c) : port'[c] = Pending(q)
Serve(c) == port[c].st = "pending" /\ port'[c] = Served(Answer(c, port[c].val))
Reply(c) == port[c].st = "served" /\ port'[c] = Answered(port[c].val)
Take(c) == port[c].st = "answered" /\ port'[c] = Idle
Stay(c) == port'[c] = port[c]

\* Only the write that takes effect changes the registers.
Write == LET q == port["w"].val IN
    /\ regs' = [regs EXCEPT ![q.addr] = q.data]
    /\ writes' = (writes + 1) % 4

\* Both channels may move in one step.
Next ==
    /\ \A c \in Ch : Accept(c) \/ Serve(c) \/ Reply(c) \/ Take(c) \/ Stay(c)
    /\ port' = [c \in Ch |-> port'[c]]
    /\ \/ Serve("w") /\ Write
       \/ ~Serve("w") /\ UNCHANGED <<regs, writes>>

Spec == Init /\ [][Next]_portVars
=============================================================================
