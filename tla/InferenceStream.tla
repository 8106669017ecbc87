-------------------------- MODULE InferenceStream --------------------------
(***************************************************************************)
(* A streamed answer: the thread that infer_stream(_cached) of             *)
(* LlamaService spawns, running LlamaContext::infer_stream in a context of *)
(* its own, and the loop of the CLI that receives its events with a        *)
(* timeout of 120 seconds.  Between them is an unbounded mpsc channel.     *)
(*                                                                         *)
(* The i-th sampled token is i.  A token whose piece is empty (part of a   *)
(* character) is generated but not sent.                                   *)
(***************************************************************************)
EXTENDS Naturals, Sequences

CONSTANTS
  MaxTokens,  \* GenerationParams::max_tokens
  Cancels     \* may the holder of the cancel flag set it?

ASSUME StreamAssumption == MaxTokens \in Nat /\ Cancels \in BOOLEAN

VARIABLES
  thread,     \* where the inference thread is
  sampled,    \* number of tokens sampled
  channel,    \* events sent and not received
  cancel,     \* the cancel flag
  receiver,   \* where the receiving loop is, and how it ended
  full_text,  \* the pieces the loop has collected
  pieces,     \* the non-empty pieces the thread made (history)
  late        \* those made when nobody wanted them any more (history)

vars == <<thread, sampled, channel, cancel, receiver, full_text,
          pieces, late>>

Token(i) == [type |-> "Token", token |-> i]
Event(type) == [type |-> type]
IsTerminal(event) == event.type \in {"Completed", "Cancelled", "Error"}

\* Ways in which the receiving loop ends.
Ends == {"completed", "cancelled", "error", "timeout", "disconnected"}
Receiving == receiver = "receiving"

\* Mutant of Sent: the channel holds one event, and another one is lost.
SentBounded(event) == IF channel = <<>> THEN <<event>> ELSE channel

\* The channel after tx.send: without a receiver the send fails.
Sent(event) == IF Receiving THEN Append(channel, event) ELSE channel

Init ==
  /\ thread = "new_context"
  /\ sampled = 0
  /\ channel = <<>>
  /\ cancel = FALSE
  /\ receiver = "receiving"
  /\ full_text = <<>>
  /\ pieces = <<>>
  /\ late = 0

----------------------------------------------------------------------------
\* The thread.

consumerVars == <<cancel, receiver, full_text>>

\* Mutant of Fail: only the creation of the context reports its error.
FailQuietly ==
  /\ thread # "exited"
  /\ channel' = IF thread = "new_context" THEN Sent(Event("Error")) ELSE channel
  /\ thread' = "exited"
  /\ UNCHANGED <<sampled, pieces, late, consumerVars>>

\* Creating the context or a decode fails, or the thread panics: an Error.
Fail ==
  /\ thread # "exited"
  /\ channel' = Sent(Event("Error"))
  /\ thread' = "exited"
  /\ UNCHANGED <<sampled, pieces, late, consumerVars>>

NewContext ==
  /\ thread = "new_context"
  /\ thread' = "decode_prompt"
  /\ UNCHANGED <<sampled, channel, pieces, late, consumerVars>>

\* The prompt is decoded.  The result of sending Started is ignored.
DecodePrompt ==
  /\ thread = "decode_prompt"
  /\ channel' = Sent(Event("Started"))
  /\ thread' = "check"
  /\ UNCHANGED <<sampled, pieces, late, consumerVars>>

\* The head of the loop looks at the cancel flag.
CheckCancel ==
  /\ thread = "check"
  /\ sampled < MaxTokens
  /\ IF cancel
     THEN channel' = Sent(Event("Cancelled")) /\ thread' = "exited"
     ELSE UNCHANGED channel /\ thread' = "sample"
  /\ UNCHANGED <<sampled, pieces, late, consumerVars>>

\* max_tokens are generated, or the end-of-generation token is sampled.
Complete ==
  /\ \/ thread = "check" /\ sampled = MaxTokens
     \/ thread = "sample"
  /\ channel' = Sent(Event("Completed"))
  /\ thread' = "exited"
  /\ UNCHANGED <<sampled, pieces, late, consumerVars>>

\* Mutant of SampleEmpty: only tokens with a piece are counted.
SampleEmptyUncounted ==
  /\ thread = "sample"
  /\ thread' = "decode"
  /\ UNCHANGED <<sampled, channel, pieces, late, consumerVars>>

\* A token without a piece.
SampleEmpty ==
  /\ thread = "sample"
  /\ sampled' = sampled + 1
  /\ thread' = "decode"
  /\ UNCHANGED <<channel, pieces, late, consumerVars>>

\* Mutant of AfterPiece: a failed send is ignored.
AfterPieceUnchecked == {"decode", "stop"}
\* Where the loop goes after a piece: out, when its send failed; to Completed,
\* when the text contains a stop string; else to the decode of the token.
AfterPiece == IF Receiving THEN {"decode", "stop"} ELSE {"exited"}

\* A token with a piece, which is sent.
SamplePiece ==
  /\ thread = "sample"
  /\ sampled' = sampled + 1
  /\ pieces' = Append(pieces, sampled')
  /\ channel' = Sent(Token(sampled'))
  /\ late' = IF cancel \/ ~Receiving THEN late + 1 ELSE late
  /\ thread' \in AfterPiece
  /\ UNCHANGED consumerVars

\* Mutant of StopString: the loop goes on.
StopStringContinues ==
  /\ thread = "stop"
  /\ channel' = Sent(Event("Completed"))
  /\ thread' = "decode"
  /\ UNCHANGED <<sampled, pieces, late, consumerVars>>

\* The loop returns on a stop string.
StopString ==
  /\ thread = "stop"
  /\ channel' = Sent(Event("Completed"))
  /\ thread' = "exited"
  /\ UNCHANGED <<sampled, pieces, late, consumerVars>>

\* The sampled token is decoded.
Decode ==
  /\ thread = "decode"
  /\ thread' = "check"
  /\ UNCHANGED <<sampled, channel, pieces, late, consumerVars>>

Thread ==
  \/ Fail
  \/ NewContext
  \/ DecodePrompt
  \/ CheckCancel
  \/ Complete
  \/ SampleEmpty
  \/ SamplePiece
  \/ StopString
  \/ Decode

----------------------------------------------------------------------------
\* The receiving loop of run_interactive_turn.

threadVars == <<thread, sampled, pieces, late>>

\* The loop ends: the receiver is dropped with whatever it still holds.  The
\* text collected so far becomes the assistant's message (see ChatStream).
Leave(how) ==
  /\ receiver' = how
  /\ channel' = <<>>
  /\ UNCHANGED full_text

\* recv_timeout returns an event.
Receive ==
  /\ Receiving
  /\ channel # <<>>
  /\ LET event == Head(channel)
     IN CASE event.type = "Started" ->
               /\ channel' = Tail(channel)
               /\ UNCHANGED <<receiver, full_text>>
          [] event.type = "Token" ->
               /\ full_text' = Append(full_text, event.token)
               /\ channel' = Tail(channel)
               /\ UNCHANGED receiver
          [] event.type = "Completed" -> Leave("completed")
          [] event.type = "Cancelled" -> Leave("cancelled")
          [] event.type = "Error" -> Leave("error")
  /\ UNCHANGED <<cancel, threadVars>>

\* recv_timeout fails: nothing arrived for 120 seconds, or the channel is empty
\* and the thread has dropped the sender.
RecvTimeoutError ==
  /\ Receiving
  /\ channel = <<>>
  /\ Leave(IF thread = "exited" THEN "disconnected" ELSE "timeout")
  /\ UNCHANGED <<cancel, threadVars>>

Loop == Receive \/ RecvTimeoutError

\* Whoever holds the flag sets it.
Cancel ==
  /\ Cancels
  /\ ~cancel
  /\ cancel' = TRUE
  /\ UNCHANGED <<threadVars, channel, receiver, full_text>>

\* Both ends have finished.
Done == thread = "exited" /\ ~Receiving /\ UNCHANGED vars

Next == Thread \/ Loop \/ Cancel \/ Done

\* Both threads are scheduled, every decode returns, and recv_timeout returns
\* at the latest when its timeout expires.
Fairness == WF_vars(Thread) /\ WF_vars(Loop)

Spec == Init /\ [][Next]_vars /\ Fairness

----------------------------------------------------------------------------
\* Collecting(events)[n]: the tokens among the first n events, in order.
Collecting(events) ==
  LET upto[n \in 0..Len(events)] ==
        IF n = 0 THEN <<>>
        ELSE IF events[n].type = "Token" THEN Append(upto[n - 1], events[n].token)
        ELSE upto[n - 1]
  IN upto

Collected(events) == Collecting(events)[Len(events)]

TypeOK ==
  /\ thread \in {"new_context", "decode_prompt", "check", "sample", "decode",
                 "stop", "exited"}
  /\ sampled \in 0..MaxTokens
  /\ cancel \in BOOLEAN
  /\ receiver \in Ends \cup {"receiving"}

\* While the loop listens, no piece is lost, doubled or out of order: what it
\* has collected and what is on the way are the pieces the thread made.
NoPieceLost ==
  Receiving => full_text \o Collected(channel) = pieces

\* The events after which the loop leaves are final for the thread as well:
\* nothing follows them, and a text that ends in Completed is all there was.
EndIsFinal ==
  /\ \A i \in DOMAIN channel :
       IsTerminal(channel[i]) => i = Len(channel) /\ thread = "exited"
  /\ receiver \in {"completed", "cancelled", "error"} => full_text = pieces
  /\ receiver = "completed" => thread = "exited"

\* Every way out of the thread, panics included, says how it ended: the loop
\* never finds the channel closed in the middle of an answer.
NeverDisconnected == receiver # "disconnected"

\* A stream has one end, and the loop is told of it: whatever fails, panics or is
\* cancelled, some last event comes, and nothing behind it (infer_stream, the
\* thread around it, and the receive loop).
OneEnd == EndIsFinal /\ NeverDisconnected

\* After the flag is set, or the receiver has gone, the thread makes at most
\* one more piece.
OneMorePiece == late <= 1

\* Both ends finish: the thread does not outlive an abandoned stream for ever,
\* and the loop does not wait for a thread that failed.
StreamEnds == <>[](thread = "exited" /\ ~Receiving)
=============================================================================
