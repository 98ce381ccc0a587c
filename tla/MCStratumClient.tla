-------------------------- MODULE MCStratumClient --------------------------
(***************************************************************************)
(* StratumClient with the history of a lost request, for TLC; the .cfg     *)
(* file gives the constants.                                               *)
(***************************************************************************)
EXTENDS StratumClient

\* This session began by resetting a disconnect request, and none of the two requests
\* has been made since.
VARIABLE forgotten

ForgottenInit == Init /\ forgotten = FALSE
ForgottenNext ==
    /\ Next
    /\ forgotten' = /\ \/ pc = "connect" /\ pc' = "hello" /\ g_disconnect_requested
                       \/ forgotten /\ pc' \in Session
                    /\ ~g_connect_requested' /\ ~g_disconnect_requested'
ForgottenSpec == ForgottenInit /\ [][ForgottenNext]_<<vars, forgotten>> /\ Fairness

\* DS3 is "off after disconnect" (README.md:102).  A session that nobody wants any
\* more ends, unless the request came while connect_socket waited: then stratum_task
\* has reset it with the new session (stratum_client.c:964), and the session goes on.
UnwantedEnds ==
    pc \in Session /\ ~g_connect_requested
        ~> pc \notin Session \/ g_connect_requested \/ forgotten
=============================================================================
