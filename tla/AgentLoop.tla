-------------------------------- MODULE AgentLoop --------------------------------
(***************************************************************************)
(* One run of the ReActAgent: the model is asked, its text is parsed for   *)
(* an action and an answer, the tool is executed, the observation goes     *)
(* back to the model, until it answers or the steps are used up.  When the *)
(* model streams, the answer is forwarded while it is still being written. *)
(*                                                                         *)
(* A text is a sequence of marks: "Thought:", "Action:", the two halves of *)
(* "Answer:", which may come in different tokens, white space and words.   *)
(* Thoughts, tool inputs, log events and the events' numbers are left out. *)
(***************************************************************************)
EXTENDS Naturals, Sequences

CONSTANTS MaxSteps,  \* max_steps
          MaxText    \* bound: marks in a text of the model

Marks == {"Thought:", "Action:", "Ans", "wer:", "space", "word"}

VARIABLES
  streams,  \* the model can stream
  at,       \* where the run is
  step,     \* the step, from 1 on
  text,     \* what the model wrote in this step
  offset,   \* StreamingReActParser: the end of what was forwarded, 0 before the answer starts
  deltas,   \* the content of the answer_delta events of the run
  early,    \* streamed_answer: a delta was sent in this step
  calls,    \* observations the model has been given
  answer    \* the content of the answer event

stream == <<offset, deltas, early>>
vars == <<streams, at, step, text, stream, calls, answer>>

Blank(s) == \A i \in 1 .. Len(s) : s[i] = "space"

(* str.strip                                                               *)
Strip(s) ==
  IF Blank(s) THEN <<>>
  ELSE LET solid == {i \in 1 .. Len(s) : s[i] # "space"}
       IN  SubSeq(s, CHOOSE i \in solid : \A j \in solid : i <= j,
                     CHOOSE i \in solid : \A j \in solid : j <= i)

(* _ANSWER_RE: the ends of the places where "Answer:" stands before        *)
(* something, and the first of group 1 after the first of them: the first  *)
(* mark that is not white, or the last one.                                *)
AnswerMarks(s) == {i \in 2 .. Len(s) - 1 : s[i - 1] = "Ans" /\ s[i] = "wer:"}
HasAnswer(s) == AnswerMarks(s) # {}
Colon(s) == CHOOSE i \in AnswerMarks(s) : \A j \in AnswerMarks(s) : i <= j
AnswerStart(s) ==
  CHOOSE i \in Colon(s) + 1 .. Len(s) :
    /\ \A j \in Colon(s) + 1 .. i - 1 : s[j] = "space"
    /\ (s[i] # "space" \/ i = Len(s))

(* _ACTION_RE and _THOUGHT_RE on a stripped text.                          *)
HasAction(s)  == \E i \in 1 .. Len(s) - 1 : s[i] = "Action:"
HasThought(s) == \E i \in 1 .. Len(s) - 1 : s[i] = "Thought:"

(* parse: the answer in a text, Unanswered if only steps are found.  A      *)
(* text without any step is the answer.                                    *)
Unanswered == <<"Thought:", "no answer">>
Parsed(s) ==
  LET t == Strip(s) IN
    CASE HasAnswer(t) -> Strip(SubSeq(t, AnswerStart(t), Len(t)))
      [] ~HasAnswer(t) /\ ~HasAction(t) /\ ~HasThought(t) /\ t # <<>> -> t
      [] OTHER -> Unanswered

Init ==
  /\ streams \in BOOLEAN
  /\ at = "model" /\ step = 1
  /\ text = <<>> /\ offset = 0 /\ deltas = <<>> /\ early = FALSE
  /\ calls = 0
  /\ answer = Unanswered

(* Variant: the end of what was forwarded stays at the start of the answer.*)
ForwardedFromStart(buffer) == IF offset = 0 THEN AnswerStart(buffer) - 1 ELSE offset

(* StreamingReActParser.feed: where the forwarded part ends afterwards.    *)
Forwarded(buffer) == Len(buffer)

(* A token of the stream: one mark or two.                                 *)
StreamToken ==
  /\ at = "model" /\ streams
  /\ \E token \in {<<m>> : m \in Marks} \cup (Marks \X Marks) :
       LET buffer == text \o token
           from == IF offset = 0 THEN AnswerStart(buffer) ELSE offset + 1
       IN  /\ Len(buffer) <= MaxText
           /\ text' = buffer
           /\ IF HasAnswer(buffer)
                THEN /\ deltas' = deltas \o SubSeq(buffer, from, Len(buffer))
                     /\ offset' = Forwarded(buffer)
                     /\ early' = TRUE
                ELSE UNCHANGED stream
  /\ UNCHANGED <<streams, at, step, calls, answer>>

(* Variant: the parser of the stream is used for the next step again.      *)
StreamEndsUncleared ==
  /\ at = "model" /\ streams
  /\ at' = "parse"
  /\ UNCHANGED <<streams, step, text, stream, calls, answer>>

StreamEnds ==
  /\ at = "model" /\ streams
  /\ at' = "parse" /\ offset' = 0
  /\ UNCHANGED <<streams, step, text, deltas, early, calls, answer>>

(* generate_with_calls: the text at once.                                *)
Generate ==
  /\ at = "model" /\ ~streams
  /\ \E n \in 0 .. MaxText : text' \in [1 .. n -> Marks]
  /\ at' = "parse"
  /\ UNCHANGED <<streams, step, stream, calls, answer>>

(* The call of the model fails, perhaps in the middle of an answer.        *)
ModelFails ==
  /\ at = "model"
  /\ at' = "error"
  /\ UNCHANGED <<streams, step, text, stream, calls, answer>>

(* What a finished text leads to.  White space only is the answer as it is.*)
BlankReply ==
  /\ at = "parse" /\ Blank(text)
  /\ answer' = text
  /\ at' = "answered"
  /\ UNCHANGED <<streams, step, text, stream, calls>>

(* The next step, or the last request, which asks for an answer at once.   *)
Continue ==
  /\ IF step < MaxSteps THEN at' = "model" /\ step' = step + 1 ELSE at' = "last" /\ UNCHANGED step
  /\ text' = <<>> /\ early' = FALSE

(* _execute_tool: a tool that is missing, that rejects its input, fails or *)
(* raises gives an observation like one that succeeds.                     *)
ExecuteTool ==
  /\ at = "parse" /\ HasAction(Strip(text))
  /\ calls' = calls + 1
  /\ IF Parsed(text) = Unanswered THEN Continue ELSE at' = "respond" /\ UNCHANGED <<step, text, early>>
  /\ UNCHANGED <<streams, offset, deltas, answer>>

Responding == at = "respond" \/ (at = "parse" /\ ~Blank(text) /\ ~HasAction(Strip(text)))

(* Variant: the answer is sent as a delta whether or not it was streamed.  *)
RespondTwice ==
  /\ Responding
  /\ answer' = IF Parsed(text) = Unanswered THEN text ELSE Parsed(text)
  /\ deltas' = IF Parsed(text) = Unanswered THEN deltas ELSE deltas \o Parsed(text)
  /\ at' = "answered"
  /\ UNCHANGED <<streams, step, text, offset, early, calls>>

(* The answer, in a delta too if none was sent; a text of thoughts only is *)
(* an answer without a delta.                                              *)
Respond ==
  /\ Responding
  /\ answer' = IF Parsed(text) = Unanswered THEN text ELSE Parsed(text)
  /\ deltas' = IF Parsed(text) = Unanswered \/ early THEN deltas ELSE deltas \o Parsed(text)
  /\ at' = "answered"
  /\ UNCHANGED <<streams, step, text, offset, early, calls>>

(* After the last step the model is asked once more, without streaming; an *)
(* action in its text is ignored.                                          *)
LastAnswer ==
  /\ at = "last"
  /\ \E n \in 0 .. MaxText : text' \in [1 .. n -> Marks]
  /\ answer' = IF Parsed(text') = Unanswered THEN text' ELSE Parsed(text')
  /\ at' = "answered"
  /\ UNCHANGED <<streams, step, stream, calls>>

LastFails ==
  /\ at = "last"
  /\ at' = "error"
  /\ UNCHANGED <<streams, step, text, stream, calls, answer>>

Next == StreamToken \/ StreamEnds \/ Generate \/ ModelFails \/ BlankReply \/ ExecuteTool
          \/ Respond \/ LastAnswer \/ LastFails
Spec == Init /\ [][Next]_vars

-----------------------------------------------------------------------------
TypeOK ==
  /\ at \in {"model", "parse", "respond", "last", "answered", "error"}
  /\ step \in 1 .. MaxSteps /\ calls <= step
  /\ Len(text) <= MaxText /\ offset <= Len(text)
  /\ early => deltas # <<>>
  /\ answer # Unanswered <=> at = "answered"

(* The deltas a client has put together are the answer it is sent at the   *)
(* end, or nothing but white space: whatever the tokens are cut into, and  *)
(* whatever earlier steps sent (feed, _react_loop).                        *)
StreamedIsAnswered == at = "answered" => Strip(deltas) \in {<<>>, Strip(answer)}

(* Why it is so: what was sent in a step and what stands after the colon   *)
(* end alike, and what one of them has before that is white; the steps     *)
(* before have sent nothing else.                                          *)
EndAlike(s, u, colon) ==
  /\ \A i \in 0 .. Len(s) - 1 : s[Len(s) - i] = IF i < Len(u) - colon THEN u[Len(u) - i] ELSE "space"
  /\ \A i \in Len(s) .. Len(u) - colon - 1 : u[Len(u) - i] = "space"

IInv ==
  /\ TypeOK
  /\ streams \in BOOLEAN /\ step \in Nat /\ calls \in Nat /\ offset \in Nat
  /\ text \in Seq(Marks) /\ deltas \in Seq(Marks)
  /\ at \in {"model", "parse"} => calls < step
  /\ at # "error" => offset = IF at = "model" /\ early THEN Len(text) ELSE 0
  /\ at = "model" /\ ~streams => ~early
  /\ at = "last" => ~early
  /\ at \in {"model", "parse", "respond", "last"} =>
       IF early THEN HasAnswer(text) /\ EndAlike(deltas, text, Colon(text)) ELSE Blank(deltas)
  /\ StreamedIsAnswered
==================================================================================
