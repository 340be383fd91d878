------------------------------- MODULE Webhook -------------------------------
(***************************************************************************)
(* The HTTP hook of src/src/triggers/webhook.rs: a task per connection,    *)
(* which reads a head, checks it, waits for a body that only the journal   *)
(* is interested in, answers, and sends its signal.                        *)
(*                                                                         *)
(* Of a request it is kept what validate() looks at, and whether           *)
(* read_reason() has to read from the socket.  Both timeouts are steps     *)
(* that may happen at any time and do happen in the end; an error of the   *)
(* socket while reading looks like the timeout.  Left out: the reason's    *)
(* text.  Writing never waits: the answers are shorter than any buffer.    *)
(***************************************************************************)
EXTENDS Naturals, Sequences

CONSTANTS
  Self,         \* Source::Webhook
  Caller,       \* who may have a connection open
  Heads,        \* bound of the model: the heads that arrive
  ChannelCap    \* capacity of the arbiter's channel

\* post: the method is POST; path: the path, up to a "?", is the configured
\* one; tokens: what the Authorization and X-Vanish-Token headers are, in order,
\* an Authorization that is not a Bearer being "none"; body: read_reason has to
\* read it, i.e. 0 < Content-Length <= MAX_BODY and nothing came with the head.
RequestHead ==
  [post : BOOLEAN, path : BOOLEAN, tokens : Seq({"ours", "other", "none"}), body : BOOLEAN]

VARIABLES
  call,         \* where each connection's task is
  chan          \* the arbiter's channel

callVars == <<call, chan>>

TypeOK ==
  call \in [Caller -> {"closed", "open", "reading", "body", "answer", "send"}]

Init == call = [k \in Caller |-> "closed"]

-----------------------------------------------------------------------------
Goto(k, where) == call' = [call EXCEPT ![k] = where]

\* The last of the two headers decides.
Validate(h) ==
  /\ h.post /\ h.path
  /\ h.tokens # <<>> /\ h.tokens[Len(h.tokens)] = "ours"

\* accept()
Connect(k) ==
  /\ call[k] = "closed"
  /\ Goto(k, "open")
  /\ UNCHANGED chan

\* Some of the head is there, and more is to come.
ReadSome(k) ==
  /\ call[k] = "open"
  /\ Goto(k, "reading")
  /\ UNCHANGED chan

\* The head is there: up to an empty line, the end of the stream, or MAX_HEAD.
\* A 404 for everything that is not a call.
ReadHead(k) ==
  /\ call[k] \in {"open", "reading"}
  /\ \E h \in Heads :
       Goto(k, IF ~Validate(h) THEN "closed" ELSE IF h.body THEN "body" ELSE "answer")
  /\ UNCHANGED chan

\* Mutant of HeadTimesOut: the limit ends with the first byte.
FirstByteTimesOut(k) ==
  /\ call[k] = "open"
  /\ Goto(k, "closed")
  /\ UNCHANGED chan

\* A 404 as well, after five seconds for the whole head.
HeadTimesOut(k) ==
  /\ call[k] \in {"open", "reading"}
  /\ Goto(k, "closed")
  /\ UNCHANGED chan

\* Mutant of ReadBody: a body that does not come ends the call.
ReadBodyOrFail(k) ==
  /\ call[k] = "body"
  /\ \E came \in BOOLEAN : Goto(k, IF came THEN "answer" ELSE "closed")
  /\ UNCHANGED chan

\* read_reason(): the body comes, the caller hangs up, or two seconds are over.
ReadBody(k) ==
  /\ call[k] = "body"
  /\ Goto(k, "answer")
  /\ UNCHANGED chan

\* 204, read by the caller or not.
Answer(k) ==
  /\ call[k] = "answer"
  /\ Goto(k, "send")
  /\ UNCHANGED chan

\* tx.send(..).await
Send(k) ==
  /\ call[k] = "send" /\ Len(chan) < ChannelCap
  /\ chan' = Append(chan, <<Self, "away">>)
  /\ Goto(k, "closed")

\* The receiver is gone: the error is dropped.
SendFails(k) ==
  /\ call[k] = "send"
  /\ Goto(k, "closed")
  /\ UNCHANGED chan

\* What the task goes on to do by itself, whatever the caller does.
Serve(k) == HeadTimesOut(k) \/ ReadBody(k) \/ Answer(k)
=============================================================================
