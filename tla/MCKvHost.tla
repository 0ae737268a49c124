------------------------------ MODULE MCKvHost ------------------------------
(* Instances of KvHost for TLC.                                            *)
EXTENDS KvHost, TLC

\* Hosts are interchangeable, and so are the calls of one kind.
Symmetry == Permutations(Hosts) \cup Permutations(RetrySafe) \cup Permutations(Calls \ RetrySafe)

\* The lock is granted to the next in its queue, the holder's tasks end, a
\* message posted to a live host arrives, timers fire.  Nobody has to
\* connect, call, close or be killed.
FairSpec ==
    /\ Spec
    /\ \A h \in Hosts : WF_vars(Works(h)) /\ WF_vars(Shutdown(h)) /\ WF_vars(SeekHolder(h))
    /\ \A a, b \in Hosts : WF_vars(Receive(a, b))
    /\ \A c \in Calls : WF_vars(Lose(c))

\* A call is answered, or fails, as long as its tab lives: a holder's closing
\* or dying never leaves it waiting for good (host.ts:16-24).
CallsAnswered == \A c \in Calls : call[c].st \in Pending ~> call[c].st \notin Pending

=============================================================================
