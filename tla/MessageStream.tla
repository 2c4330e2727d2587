---------------------------- MODULE MessageStream ----------------------------
(***************************************************************************)
(* What a duplex client promises to the thread that writes to it: messages *)
(* go out one at a time and in order, a write that is confirmed has been   *)
(* accepted by the transport, and once the client knows of a failure no    *)
(* further message is taken.  A message that is neither accepted nor lost  *)
(* blocks the next one; a lost message is the last of its stream.          *)
(***************************************************************************)
EXTENDS Naturals

VARIABLES
    submitted,      \* messages handed to the stream so far
    accepted,       \* how many of them, a prefix, the transport has accepted
    confirmed,      \* the latest message whose write was reported successful
    closed          \* the client knows that the stream has failed

streamVars == <<submitted, accepted, confirmed, closed>>

StreamInit == submitted = 0 /\ accepted = 0 /\ confirmed = 0 /\ closed = FALSE

Submit ==
    /\ ~closed /\ submitted = accepted
    /\ submitted' = submitted + 1
    /\ UNCHANGED <<accepted, confirmed, closed>>

Accept ==
    /\ ~closed /\ accepted < submitted
    /\ accepted' = submitted
    /\ UNCHANGED <<submitted, confirmed, closed>>

Confirm ==
    /\ accepted = submitted
    /\ confirmed' = submitted
    /\ UNCHANGED <<submitted, accepted, closed>>

Close ==
    /\ closed' = TRUE
    /\ UNCHANGED <<submitted, accepted, confirmed>>

StreamNext == Submit \/ Accept \/ Confirm \/ Close

StreamSpec == StreamInit /\ [][StreamNext]_streamVars

=============================================================================
