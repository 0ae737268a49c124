---------------------------- MODULE AgexProvider ----------------------------
(* A model's reply read off the AI SDK's stream, and what goes back to the  *)
(* provider (ai-sdk.ts): the parts of a reply, its errors and which of them *)
(* are worth another request.  A delta is the number of its event.           *)
EXTENDS Naturals, Sequences, FiniteSets, SequencesExt

CONSTANTS
    Streams,    \* ids the stream gives the parts it streams
    MaxParts,   \* bound on the events of a stream
    Keys        \* providers: the one asked is in the call's `key`

VARIABLES
    st,         \* "off", "reading", "replied", "threw", "left"
    key,        \* the provider asked
    parts,      \* the reply's parts, in the order they began
    open,       \* id -> the place of the part streamed under it, or 0
    said,       \* the deltas yielded so far, oldest first
    sent,       \* events read
    held,       \* whether the response is held: the reader's lock
    sink        \* deltas the stream gave: <<part's serial, delta>>

pvars == <<st, key, parts, open, said, sent, held, sink>>

Kinds == {"text", "thinking"}
Part(kind, serial) == [kind |-> kind, text |-> <<>>, serial |-> serial]

PInit ==
    /\ st = "off" /\ key \in Keys /\ parts = <<>> /\ open = [i \in Streams |-> 0]
    /\ said = <<>> /\ sent = 0 /\ held = FALSE /\ sink = <<>>

\* doStream; a refusal throws before there is anything to hold.
Asks ==
    /\ st = "off"
    /\ \/ st' = "reading" /\ held' = TRUE
       \/ st' = "threw" /\ held' = FALSE
    /\ UNCHANGED <<key, parts, open, said, sent, sink>>

Reads == st = "reading" /\ sent < MaxParts /\ sent' = sent + 1

\* A part begins; a stream may use an id again, and the new part takes it.
Starts(i) ==
    /\ Reads
    /\ \E kind \in Kinds :
         /\ parts' = Append(parts, Part(kind, sent + 1))
         /\ open' = [open EXCEPT ![i] = Len(parts) + 1]
    /\ UNCHANGED <<st, key, said, held, sink>>

\* A delta joins its part and is yielded; one of no part streamed is dropped.
Delta(i) ==
    /\ Reads
    /\ IF open[i] = 0 THEN UNCHANGED <<parts, said, sink>>
       ELSE /\ parts' = [parts EXCEPT ![open[i]].text = Append(@, sent + 1)]
            /\ said' = Append(said, sent + 1)
            /\ sink' = Append(sink, <<parts[open[i]].serial, sent + 1>>)
    /\ UNCHANGED <<st, key, open, held>>

Ends(i) ==
    /\ Reads /\ open' = [open EXCEPT ![i] = 0]
    /\ UNCHANGED <<st, key, parts, said, held, sink>>

\* A call of one of the workspace's tools; one the provider made stays there.
ToolCall ==
    /\ Reads
    /\ \E own \in BOOLEAN :
         parts' = IF own THEN Append(parts, Part("tool_call", sent + 1)) ELSE parts
    /\ UNCHANGED <<st, key, open, said, held, sink>>

\* The stream's end: the reply, without its empty texts.
Drained ==
    /\ st = "reading" /\ st' = "replied" /\ held' = FALSE
    /\ parts' = SelectSeq(parts, LAMBDA p : ~(p.kind = "text" /\ p.text = <<>>))
    /\ UNCHANGED <<key, open, said, sent, sink>>

\* Mutant: an error leaves the response open.
ThrowsHeld ==
    /\ st = "reading" /\ st' = "threw"
    /\ UNCHANGED <<key, parts, open, said, sent, held, sink>>

\* An error part, or one of reading, and a turn that stops reading: the
\* response is closed either way.
Throws ==
    /\ st = "reading" /\ st' \in {"threw", "left"} /\ held' = FALSE
    /\ UNCHANGED <<key, parts, open, said, sent, sink>>

PNext == Asks \/ (\E i \in Streams : Starts(i) \/ Delta(i) \/ Ends(i)) \/ ToolCall \/ Drained \/ Throws
PSpec == PInit /\ [][PNext]_pvars

-----------------------------------------------------------------------------
(* Errors: what was thrown, what it says of itself, and whether the turn it *)
(* ends can be resumed.                                                     *)

Error == [class : {"abort", "stream", "http", "network", "other"},
          retryable : {"yes", "no", "unsaid"}, status : {0, 400, 429, 500},
          type : {"none", "refused", "transient", "timeout"}, words : BOOLEAN, relayed : BOOLEAN]

TransientStatus(n) == n \in {408, 409, 425, 429} \/ n >= 500
TransientKind(e) ==
    /\ e.type # "refused"
    /\ e.type \in {"transient", "timeout"} \/ e.words

Transient(e, asked) ==
    LET relayed == asked = "openrouter" /\ e.relayed IN
    CASE e.class = "abort" -> FALSE
      [] e.class = "stream" ->
           relayed \/ (IF e.retryable # "unsaid" THEN e.retryable = "yes"
                       ELSE IF e.status # 0 THEN TransientStatus(e.status) ELSE TransientKind(e))
      [] e.class = "http" ->
           relayed \/ (IF e.status # 0 THEN TransientStatus(e.status) ELSE e.retryable = "yes")
      [] OTHER -> e.class = "network"

-----------------------------------------------------------------------------
(* The record as a prompt.                                                  *)

\* What a provider attached goes back to that provider alone: another's
\* thinking is left out, its texts and calls go without their details.
AssistantPart(p, by, asked) ==
    CASE p.kind = "text" -> IF p.text = <<>> THEN "dropped" ELSE IF by = asked THEN "sent" ELSE "bare"
      [] p.kind = "thinking" -> IF by = asked THEN "sent" ELSE "dropped"
      [] OTHER -> IF by = asked THEN "sent" ELSE "bare"

-----------------------------------------------------------------------------
\* However a reply's parts are interleaved on the stream, each part of it
\* holds its own deltas in the order they came, and the parts keep the order
\* they began in (ai-sdk.ts:212-214, 312-313).
ReplyWhole ==
    /\ \A n \in DOMAIN parts :
         parts[n].text = [i \in DOMAIN SelectSeq(sink, LAMBDA d : d[1] = parts[n].serial) |->
                            SelectSeq(sink, LAMBDA d : d[1] = parts[n].serial)[i][2]]
    /\ \A m, n \in DOMAIN parts : m < n => parts[m].serial < parts[n].serial
    /\ st = "replied" => \A i \in DOMAIN said : \E n \in DOMAIN parts : said[i] \in ToSet(parts[n].text)

\* The response is closed however its reading ends (ai-sdk.ts:302-306).
ResponseClosed == held => st = "reading"

\* A stop, and a request the provider refused by its kind, status or word,
\* never leave a run to be resumed (ai-sdk.ts:321-349).
RefusalsFinal ==
    \A e \in Error :
      /\ e.class = "abort" => ~Transient(e, key)
      /\ ~(key = "openrouter" /\ e.relayed) =>
           /\ e.class = "stream" /\ e.retryable = "no" => ~Transient(e, key)
           /\ e.class = "stream" /\ e.retryable = "unsaid" /\ e.status = 0 /\ e.type = "refused" => ~Transient(e, key)
           /\ e.class \in {"stream", "http"} /\ e.status = 400 /\ e.retryable = "unsaid" => ~Transient(e, key)

\* A later provider is sent no thinking of another's, and all else said
\* (ai-sdk.ts:422-443).
ThoughtsStay ==
    st = "replied" => \A asked \in Keys : \A n \in DOMAIN parts :
      LET how == AssistantPart(parts[n], key, asked) IN
      /\ asked # key => how # "sent"
      /\ how = "dropped" => parts[n].kind = "thinking" /\ asked # key
=============================================================================
