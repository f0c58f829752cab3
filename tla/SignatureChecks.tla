--------------------------- MODULE SignatureChecks ---------------------------
(***************************************************************************)
(* What hss.h and hss_verify_inc.h promise to those who check signatures:  *)
(* the answer for a whole message is whether the signature was made for it *)
(* with this key; a message that comes in pieces gets the same answer, once*)
(* per context.  HssVerify implements it.                                  *)
(***************************************************************************)
EXTENDS Sequences

CONSTANTS Messages,   \* sequences of pieces that are checked in one call
          Pieces      \* what messages consist of

VARIABLES presented,  \* what is checked: records of a public key, a signature, and
                      \* the messages that it is the key owner's signature of
          answer,     \* to the last question, if it was answered already
          session     \* the incremental check: the message so far, or closed

vars == <<presented, answer, session>>

Closed == [open |-> FALSE]
Open(x) == [open |-> TRUE, with |-> x, message |-> <<>>]

NoAnswer == [ok |-> FALSE]
Answer(question, x, message, ok) ==
  [question |-> question, to |-> x, message |-> message, ok |-> ok]

Init == answer = NoAnswer /\ session = Closed

\* A context that is initialised again forgets what it was used for.
Ask == answer' = NoAnswer /\ session' \in {session, Closed}

Check(x, message) == /\ answer' = Answer("whole", x, message, message \in x.signed)
                     /\ UNCHANGED session

Accept(x) == answer' = Answer("begin", x, <<>>, TRUE) /\ session' = Open(x)

\* Only a signature that is good for no message may be refused at once.
Refuse(x) == /\ x.signed = {}
             /\ answer' = Answer("begin", x, <<>>, FALSE)
             /\ session' = Closed

Add(piece) == /\ session.open
              /\ session' = [session EXCEPT !.message = Append(@, piece)]
              /\ answer' = NoAnswer

\* The signature has to be presented again.  With another one the answer may be negative,
\* and is positive only for a message that was signed.
Finish(x) ==
  /\ session.open
  /\ session' = Closed
  /\ \E ok \in BOOLEAN :
       /\ answer' = Answer("end", x, session.message, ok)
       /\ x = session.with => ok = (session.message \in x.signed)
       /\ ok => \E y \in presented : session.message \in y.signed

FinishUnopened == /\ ~session.open
                  /\ answer' = Answer("end", <<>>, <<>>, FALSE)
                  /\ UNCHANGED session

Next == /\ \/ \E x \in presented : \/ \E m \in Messages : Check(x, m)
                                   \/ Accept(x)
                                   \/ Refuse(x)
                                   \/ Finish(x)
           \/ Ask
           \/ \E g \in Pieces : Add(g)
           \/ FinishUnopened
        /\ UNCHANGED presented

Spec == Init /\ [][Next]_vars
=============================================================================
