----------------------------- MODULE AnswerChoice -----------------------------
(***************************************************************************)
(* Resolving the choice of an answer against the request that blocks an       *)
(* attach session (normalize_permission_reply, resolve_question_choice(s) and  *)
(* HttpAttachDriver::answer in src/src/http_attach_driver.rs).  A choice, like  *)
(* a label, is a sequence of symbols: digits, letters and commas.  Letter case *)
(* and surrounding blanks, which the code ignores, are left out.              *)
(***************************************************************************)
EXTENDS Integers, Sequences, FiniteSets, Functions

CONSTANTS
  Requests,  \* external: the questions, each a sequence of labels, a request may have
  MaxTyped   \* bound: symbols in a choice

Digits  == {"0", "1"}
Letters == {"a", "b"}
Comma   == ","
Symbols == Digits \cup Letters \cup {Comma}

VARIABLES
  options,  \* the labels of each question of the pending request
  choice,   \* external: what the operator has typed
  sent      \* the labels posted for it; "none" before, "refused" when it did not resolve

vars == <<options, choice, sent>>

None == <<>>  \* Option::None, for labels and answers: neither is ever empty

Init == options \in Requests /\ choice = <<>> /\ sent = [state |-> "none", labels |-> None]

TypeOK ==
  /\ options \in Requests
  /\ choice \in Seq(Symbols) /\ Len(choice) <= MaxTyped
  /\ sent.state \in {"none", "refused", "posted"}
  /\ sent.state = "posted" <=> sent.labels # None

-------------------------------------------------------------------------------
\* choice.split(','): the segments between the commas, empty ones too.
Split(s) ==
  LET commas == {0, Len(s) + 1} \cup {i \in 1..Len(s) : s[i] = Comma}
      nth(k) == CHOOSE i \in commas : Cardinality({j \in commas : j < i}) = k
  IN [k \in 1..(Cardinality(commas) - 1) |-> SubSeq(s, nth(k - 1) + 1, nth(k) - 1)]

IsNumber(s) == s # <<>> /\ \A i \in 1..Len(s) : s[i] \in Digits
Numeral == [d \in Digits |-> IF d = "1" THEN 1 ELSE 0]
\* parse::<usize>, in decimal.
Number(s) == FoldFunction(+, 0, [i \in 1..Len(s) |-> Numeral[s[i]] * 10 ^ (Len(s) - i)])

\* An index that is one of an option, or else a label.
ResolveQuestionChoice(segment, labels) ==
  IF IsNumber(segment) /\ Number(segment) + 1 \in 1..Len(labels) THEN labels[Number(segment) + 1]
  ELSE IF \E i \in 1..Len(labels) : labels[i] = segment THEN segment ELSE None

\* Mutant: questions without a segment are left unanswered.
ResolveQuestionChoicesZip(text, questions) ==
  LET segments == Split(text)
      n        == IF Len(segments) < Len(questions) THEN Len(segments) ELSE Len(questions)
      labels   == [i \in 1..n |-> ResolveQuestionChoice(segments[i], questions[i])]
  IN  IF \E i \in 1..n : labels[i] = None THEN None ELSE labels

\* One segment for each question, each of which resolves, or nothing.
ResolveQuestionChoices(text, questions) ==
  LET segments == Split(text)
      labels   == [i \in 1..Len(questions) |-> ResolveQuestionChoice(segments[i], questions[i])]
  IN  IF Len(segments) # Len(questions) \/ \E i \in 1..Len(questions) : labels[i] = None
      THEN None ELSE labels

-------------------------------------------------------------------------------
Type(s) ==
  /\ sent.state = "none" /\ Len(choice) < MaxTyped
  /\ choice' = Append(choice, s)
  /\ UNCHANGED <<options, sent>>

\* answer, of a question: posted, or refused as NoPendingAnswer.
Answer ==
  /\ sent.state = "none"
  /\ LET labels == ResolveQuestionChoices(choice, options) IN
       sent' = [state |-> IF labels = None THEN "refused" ELSE "posted", labels |-> labels]
  /\ UNCHANGED <<options, choice>>

Next == Answer \/ \E s \in Symbols : Type(s)

Spec == Init /\ [][Next]_vars

-------------------------------------------------------------------------------
\* What is posted answers every question of the request, each with one of its own labels
\* (http_attach_driver.rs:631-648): a partial answer is never sent.
WholeAnswers ==
  sent.state = "posted" =>
    /\ Len(sent.labels) = Len(options)
    /\ \A i \in 1..Len(options) : \E j \in 1..Len(options[i]) : sent.labels[i] = options[i][j]

\* The index of an option of the only question is its answer, also where another option is
\* called by that number (http_attach_driver.rs:615-629).
IndexAnswers ==
  (Len(options) = 1 /\ IsNumber(choice) /\ sent.state # "none"
     /\ Number(choice) + 1 \in 1..Len(options[1])) =>
    sent = [state |-> "posted", labels |-> <<options[1][Number(choice) + 1]>>]
===============================================================================
