------------------------------- MODULE MCAgex -------------------------------
(* Instances for TLC of an agent's session, its tasks and its maps (two in  *)
(* one piece of code, on a helper with a single slot). One run explores     *)
(* each by itself: the initial states choose which one moves.               *)
EXTENDS AgexTask, AgexMap

VARIABLES part,
    st, key, parts, open, said, sent, held, sink

\* A reply of two streamed parts at a time, asked of one provider and sent
\* on to another.
Provider == INSTANCE AgexProvider WITH
    Streams <- {1, 2}, MaxParts <- 4, Keys <- {"anthropic", "openrouter"}

replies == <<st, key, parts, open, said, sent, held, sink>>

\* A request is one a provider accepts, and still holds the opening message
\* after every fold (agent.ts, compaction.ts). A reply is taken whole or not at
\* all, its stream closed either way; a refusal is not retried; and a
\* provider's thoughts go to no other (ai-sdk.ts).
ExchangesWhole ==
    /\ RequestsAccepted /\ OpeningSent
    /\ part = "replies" =>
        /\ Provider!ReplyWhole /\ Provider!ResponseClosed
        /\ Provider!RefusalsFinal /\ Provider!ThoughtsStay

AgexInit ==
    /\ part \in {"turns", "maps", "replies"}
    /\ TInit /\ (part # "turns" => ~AsTask)
    /\ MInit /\ Provider!PInit /\ (part # "replies" => key = "anthropic")

AgexNext ==
    /\ \/ part = "turns" /\ TNext /\ UNCHANGED <<mvars, replies>>
       \/ part = "maps" /\ MNext /\ UNCHANGED <<tvars, replies>>
       \/ part = "replies" /\ Provider!PNext /\ UNCHANGED <<tvars, mvars>>
    /\ UNCHANGED part

AgexSpec == AgexInit /\ [][AgexNext]_<<part, tvars, mvars, replies>>
=============================================================================
