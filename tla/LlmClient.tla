------------------------------- MODULE LlmClient -------------------------------
(***************************************************************************)
(* The clients of language models (internal/llm/client.go, fallback.go):   *)
(* Complete asks the models of a list one after the other, a local server  *)
(* first where one is configured, and every attempt has its own limit      *)
(* inside the deadline of the chat; Stream passes tokens through a channel *)
(* to the handler that writes them out (streamAgentResponse).  Time is     *)
(* counted in units of twenty seconds.                                     *)
(***************************************************************************)
EXTENDS Naturals, Sequences, FiniteSets

CONSTANTS
    FreeModels,     \* the list in client.go, in its order
    Paid,           \* FallbackModel
    Deadline,       \* the 120 seconds HandleAgentChat gives
    LocalTry,       \* localTry, 20 seconds
    ClientTimeout,  \* http.Client.Timeout of the cloud client, 60 seconds
    Buffer,         \* capacity of the channel of tokens
    MaxTokens       \* bound on the tokens of an answer

\* The free models are different ones, and a local attempt that is cut short
\* and one on the cloud leave some time for another.
ASSUME LlmAssumption ==
    /\ {Deadline, LocalTry, ClientTimeout, Buffer} \subseteq Nat
    /\ LocalTry + ClientTimeout < Deadline
    /\ FreeModels \in Seq(STRING) /\ Paid \in STRING
    /\ \A i \in 1..Len(FreeModels) : FreeModels[i] # "local"
    /\ \A i, j \in 1..Len(FreeModels) : FreeModels[i] = FreeModels[j] => i = j
    /\ Paid # "local"

VARIABLES
    llm,            \* the completion under way
    clock,
    stream          \* the stream under way

llmVars == <<llm, clock, stream>>

\* NewClient: the provider, its model, and whether paid models may be used.
Providers == {"ollama", "lmstudio", "llamacpp", "openrouter"}

\* resolveModels.
resolveModels(model, allowPaid) ==
    (IF model = "free" THEN FreeModels ELSE <<model>>) \o (IF allowPaid THEN <<Paid>> ELSE <<>>)

\* Attempts: a local server is tried once, the models of OpenRouter in turn;
\* llamacpp falls back to OpenRouter if it may cost something and there is a key.
Attempts(provider, model, allowPaid, key) ==
    CASE provider \in {"ollama", "lmstudio"} -> <<"local">>
      [] provider = "llamacpp" ->
           IF allowPaid /\ key THEN <<"local">> \o resolveModels(model, allowPaid) ELSE <<"local">>
      [] OTHER -> resolveModels(model, allowPaid)

NoStream == [pc |-> "none"]

LlmInit ==
    /\ clock = 0 /\ stream = NoStream
    /\ \E provider \in Providers, model \in {"free", "m", Paid}, allowPaid, key \in BOOLEAN :
          LET a == Attempts(provider, model, allowPaid, key) IN
          llm = [pc |-> "try", all |-> a, left |-> a, late |-> {}, failed |-> {}]

\* Mutation: the local server is given as long as the chat.
LimitOfAnyAttempt(m) == IF m # "local" /\ ClientTimeout < Deadline - clock THEN ClientTimeout ELSE Deadline - clock

\* How long an attempt may take: the local one is cut short only where there is
\* a cloud to fall back to.
Limit(m) ==
    LET left == Deadline - clock
        own == IF m # "local" THEN ClientTimeout
               ELSE IF Len(llm.all) > 1 THEN LocalTry ELSE Deadline
    IN  IF own < left THEN own ELSE left

\* An attempt that fails, at once, later, or at its limit; one begun after the
\* deadline fails without asking anybody.
TryFails(t) ==
    /\ llm.pc = "try" /\ llm.left # <<>> /\ t <= Limit(Head(llm.left))
    /\ clock' = clock + t
    /\ llm' = [llm EXCEPT !.left = Tail(@),
                          !.late = IF clock = Deadline THEN @ \cup {Head(llm.left)} ELSE @,
                          !.failed = IF clock < Deadline THEN @ \cup {Head(llm.left)} ELSE @]
    /\ UNCHANGED stream

TrySucceeds(t) ==
    /\ llm.pc = "try" /\ llm.left # <<>> /\ t <= Limit(Head(llm.left)) /\ clock < Deadline
    /\ clock' = clock + t
    /\ llm' = [llm EXCEPT !.pc = "answer"]
    /\ UNCHANGED stream

AllFailed ==
    /\ llm.pc = "try" /\ llm.left = <<>>
    /\ llm' = [llm EXCEPT !.pc = "error"]
    /\ UNCHANGED <<clock, stream>>

-----------------------------------------------------------------------------
(* Stream: a goroutine reads the answer line by line and sends its tokens. *)

StreamStarts ==
    /\ llm.pc = "answer" /\ stream = NoStream
    /\ \E n \in 0..MaxTokens :
          stream' = [pc |-> "send", coming |-> [i \in 1..n |-> i], ch |-> <<>>, closed |-> FALSE,
                     written |-> <<>>, over |-> FALSE, done |-> FALSE]
    /\ UNCHANGED <<llm, clock>>

\* The chat's deadline passes, or its client goes away.
StreamCancelled ==
    /\ stream.pc \in {"send", "closing"} /\ ~stream.over
    /\ stream' = [stream EXCEPT !.over = TRUE]
    /\ UNCHANGED <<llm, clock>>

Send ==
    /\ stream.pc = "send" /\ stream.coming # <<>> /\ Len(stream.ch) < Buffer
    /\ stream' = [stream EXCEPT !.coming = Tail(@), !.ch = Append(@, Head(stream.coming))]
    /\ UNCHANGED <<llm, clock>>

\* [DONE], the end of the body (a line too long for the scanner, a lost
\* connection), or the context while the channel is full or read from.
StopSending ==
    /\ stream.pc = "send"
    /\ \/ stream.coming = <<>>
       \/ stream.over
       \/ Len(stream.ch) < Buffer       \* the body ends early
    /\ stream' = [stream EXCEPT !.pc = "closing"]
    /\ UNCHANGED <<llm, clock>>

\* Mutation: the channel is left open.
CloseNothing ==
    /\ stream.pc = "closing"
    /\ stream' = [stream EXCEPT !.pc = "ended"]
    /\ UNCHANGED <<llm, clock>>

CloseChannel ==
    /\ stream.pc = "closing"
    /\ stream' = [stream EXCEPT !.pc = "ended", !.closed = TRUE]
    /\ UNCHANGED <<llm, clock>>

\* The handler writes what it receives until the channel is closed and empty,
\* then the result, whether the stream was whole or not.
WriteToken ==
    /\ stream.pc # "none" /\ stream.ch # <<>> /\ ~stream.done
    /\ stream' = [stream EXCEPT !.ch = Tail(@), !.written = Append(@, Head(stream.ch))]
    /\ UNCHANGED <<llm, clock>>

WriteResult ==
    /\ stream.pc # "none" /\ stream.closed /\ stream.ch = <<>> /\ ~stream.done
    /\ stream' = [stream EXCEPT !.done = TRUE]
    /\ UNCHANGED <<llm, clock>>

Completing == AllFailed \/ \E t \in 0..Deadline : TryFails(t) \/ TrySucceeds(t)
Streaming == Send \/ StopSending \/ CloseChannel \/ WriteToken \/ WriteResult
LlmNext == Completing \/ StreamStarts \/ StreamCancelled \/ Streaming
LlmSpec == LlmInit /\ [][LlmNext]_llmVars

-----------------------------------------------------------------------------
\* A completion ends in an error only when every model of its list was asked
\* and failed, or the deadline had passed before its turn; and it never goes on
\* past the deadline.
TriedInTime ==
    /\ clock <= Deadline
    /\ llm.pc = "error" =>
         \A i \in 1..Len(llm.all) :
            llm.all[i] \in llm.failed \/ (llm.all[i] \in llm.late /\ clock = Deadline)

\* A hung local server leaves the cloud most of the time: nothing was late
\* unless two attempts on the cloud ran into their own limit.
CloudHasTime ==
    llm.late # {} => Cardinality(llm.failed \ {"local"}) >= 2 \/ llm.all = <<"local">>

\* The client is sent the tokens of the answer in their order, each once and
\* none left out before the last one sent.
TokensInOrder ==
    stream.pc # "none" => stream.written \o stream.ch \o stream.coming =
        [i \in 1..Len(stream.written \o stream.ch \o stream.coming) |-> i]

\* The lists of models and the stream.
LlmInv == TriedInTime /\ CloudHasTime /\ TokensInOrder

\* A stream that has begun ends with the result, cut short or not.
StreamEnds == stream.pc # "none" ~> (stream.pc # "none" /\ stream.done)
=============================================================================
