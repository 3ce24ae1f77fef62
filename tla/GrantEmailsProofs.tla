--------------------------- MODULE GrantEmailsProofs ---------------------------
(***************************************************************************)
(* Proofs about GrantEmails (StampGrantEmailService.deliver): for any      *)
(* number of overlapping calls, however they stall, crash, are retried or  *)
(* lose their answers, the customer gets one e-mail at most.               *)
(*                                                                         *)
(* LettersInv: posted letters are the letter in the row. WindowInv: nobody *)
(* posts once the provider may have forgotten the key. Together they let   *)
(* MailsInv count.                                                         *)
(***************************************************************************)
EXTENDS GrantEmails, TLAPS

\* The letter is in the row before anybody posts it, an attempt under its lease
\* works with the letter the row has, and letters are written with the time of
\* the first attempt.
LettersInv ==
    /\ SameBytes
    /\ row.tried <=> row.letter # NoLetter
    /\ \A w \in Workers :
         /\ pc[w] = "prepare" => draft[w] \in Letter
         /\ pc[w] = "post" => row.tried /\ draft[w] = row.letter
         /\ pc[w] \in {"address", "prepare"} /\ Holds(w) /\ row.tried => draft[w] = row.letter

\* Only an attempt begun in time gets as far as a letter, and when the provider
\* has forgotten the key no such attempt and no request is left.
WindowInv ==
    /\ window # "open" => row.tried
    /\ \A w \in Workers :
         /\ late[w] => row.tried
         /\ pc[w] \in {"address", "prepare", "post"} => ~ late[w]
    /\ window = "closed" => net = {} /\ known = NoLetter /\ \A w \in Workers : ~ Sending(w)

\* The provider has sent one letter, and keeps its key until it forgets it.
MailsInv ==
    /\ Len(mails) <= 1
    /\ known # NoLetter => mails # <<>>
    /\ window # "closed" /\ known = NoLetter => mails = <<>>

\* SENT is written once, by the holder of the lease, who lets go of it.
SentInv ==
    /\ SentMeansMailed
    /\ row.status = "SENT" => row.token = NoWorker
    /\ \A w \in Workers : pc[w] = "finish" /\ outcome[w] = "SENT" => mails # <<>>

IInv == TypeOK /\ LettersInv /\ WindowInv /\ MailsInv /\ SentInv

\* Every step keeps the shapes of rows, attempts, requests and letters.
LEMMA TypeStep ==
    ASSUME TypeOK, LettersInv, [Next]_vars
    PROVE  TypeOK'
PROOF
<1> USE MailAssumption
<1>1. CASE \E w \in Workers : Send(w)
  BY <1>1 DEF TypeOK, Step, Goto, Send
<1>2. CASE \E w \in Workers : Claim(w)
  <2> PICK w \in Workers : Claim(w)
    BY <1>2
  <2>1. CASE Claimable
    <3>1. /\ row' = [row EXCEPT !.lease = "running", !.token = w]
          /\ pc' = [pc EXCEPT ![w] = "open"] /\ late' = [late EXCEPT ![w] = window # "open"]
          /\ UNCHANGED <<draft, outcome, contact, window, net, known, mails>>
      BY <2>1 DEF Claim
    <3>2. row' \in Row
      BY <3>1 DEF TypeOK, Row
    <3>3. pc' \in [Workers -> Step] /\ late' \in [Workers -> BOOLEAN]
      BY <3>1 DEF TypeOK, Step
    <3> QED
      BY <3>1, <3>2, <3>3 DEF TypeOK
  <2>2. CASE ~ Claimable
    BY <2>2 DEF Claim, End, TypeOK, Step, Status
  <2> QED
    BY <2>1, <2>2
<1>3. CASE \E w \in Workers : Open(w)
  BY <1>3 DEF TypeOK, Row, Step, Status, Finish, Open
<1>4. CASE \E w \in Workers : Skip(w)
  BY <1>4 DEF TypeOK, Step, Status, Finish, Skip
<1>5. CASE \E w \in Workers : Address(w)
  <2> PICK w \in Workers : Address(w)
    BY <1>5
  <2>1. PICK says \in Wordings : draft' = [draft EXCEPT ![w] = IF @ = NoLetter THEN [to |-> contact, says |-> says] ELSE @]
    BY DEF Address
  <2>2. contact # NoAddress /\ pc' = [pc EXCEPT ![w] = "prepare"]
        /\ UNCHANGED <<row, contact, window, late, outcome, net, known, mails>>
    BY DEF Address, Reachable
  <2>3. [to |-> contact, says |-> says] \in Letter
    BY <2>2 DEF TypeOK, Letter
  <2>4. draft' \in [Workers -> Letter \cup {NoLetter}]
    BY <2>1, <2>3 DEF TypeOK
  <2>5. pc' \in [Workers -> Step]
    BY <2>2 DEF TypeOK, Step
  <2> QED
    BY <2>2, <2>4, <2>5 DEF TypeOK
<1>6. CASE \E w \in Workers : Prepare(w)
  <2> PICK w \in Workers : Prepare(w)
    BY <1>6
  <2>1. CASE Holds(w)
    <3>1. row' = [row EXCEPT !.letter = draft[w], !.tried = TRUE] /\ pc' = [pc EXCEPT ![w] = "post"]
          /\ UNCHANGED <<late, draft, outcome, contact, window, net, known, mails>>
      BY <2>1 DEF Prepare, Goto
    <3>2. draft[w] \in Letter \cup {NoLetter}
      BY DEF TypeOK
    <3>3. row' \in Row
      BY <3>1, <3>2 DEF TypeOK, Row
    <3>4. pc' \in [Workers -> Step]
      BY <3>1 DEF TypeOK, Step
    <3> QED
      BY <3>1, <3>3, <3>4 DEF TypeOK
  <2>2. CASE ~ Holds(w)
    BY <2>2 DEF Prepare, End, TypeOK, Step, Status
  <2> QED
    BY <2>1, <2>2
<1>7. CASE \E w \in Workers : Post(w)
  <2> PICK w \in Workers : Post(w)
    BY <1>7
  <2>1. draft[w] \in Letter
    BY DEF Post, LettersInv, TypeOK
  <2>2. [from |-> w, letter |-> draft[w]] \in Request
    BY <2>1 DEF Request
  <2>3. net' = net \cup {[from |-> w, letter |-> draft[w]]} /\ pc' = [pc EXCEPT ![w] = "await"]
        /\ UNCHANGED <<row, contact, window, late, draft, outcome, known, mails>>
    BY DEF Post, Goto
  <2>4. pc' \in [Workers -> Step]
    BY <2>3 DEF TypeOK, Step
  <2> QED
    BY <2>2, <2>3, <2>4 DEF TypeOK
<1>8. CASE \E w \in Workers : TimeOut(w)
  BY <1>8 DEF TypeOK, Step, Status, Finish, TimeOut
<1>9. CASE \E w \in Workers : Record(w)
  <2> PICK w \in Workers : Record(w)
    BY <1>9
  <2>1. outcome[w] \in Status
    BY DEF TypeOK
  <2>2. row' = row \/ row' = [row EXCEPT !.status = outcome[w], !.lease = "none", !.token = NoWorker]
    BY DEF Record
  <2>3. row' \in Row
    BY <2>1, <2>2 DEF TypeOK, Row
  <2>4. /\ pc' \in [Workers -> Step] /\ outcome' \in [Workers -> Status]
        /\ late' \in [Workers -> BOOLEAN] /\ draft' \in [Workers -> Letter \cup {NoLetter}]
    BY DEF Record, End, TypeOK, Step, Status
  <2> QED
    BY <2>3, <2>4 DEF Record, TypeOK
<1>10. CASE \E w \in Workers : Crash(w)
  BY <1>10 DEF TypeOK, Step, Status, End, Crash
<1>11. CASE \E r \in net : Accept(r)
  <2> PICK r \in net : Accept(r)
    BY <1>11
  <2>1. r \in Request /\ r.letter \in Letter /\ r.from \in Workers
    BY DEF TypeOK, Request
  <2>2. mails' \in Seq(Letter)
    BY <2>1 DEF Accept, TypeOK
  <2>3. pc' \in [Workers -> Step] /\ outcome' \in [Workers -> Status] /\ UNCHANGED <<late, draft>>
    BY <2>1 DEF Accept, Answer, Finish, calls, TypeOK, Step, Status
  <2>4. net' \subseteq Request /\ known' \in Letter \cup {NoLetter} /\ UNCHANGED <<row, contact, window>>
    BY <2>1 DEF Accept, TypeOK
  <2> QED
    BY <2>2, <2>3, <2>4 DEF TypeOK
<1>12. CASE \E r \in net : Refuse(r)
  BY <1>12 DEF TypeOK, Step, Status, Finish, calls, Refuse, Answer
<1>13. CASE \E a \in Addresses \cup {NoAddress} : ChangeContact(a)
  BY <1>13 DEF TypeOK, calls, ChangeContact
<1>14. CASE LeaseLapses
  BY <1>14 DEF TypeOK, Row, calls, LeaseLapses
<1>15. CASE WindowCloses
  BY <1>15 DEF TypeOK, Window, calls, WindowCloses
<1>16. CASE ProviderForgets
  BY <1>16 DEF TypeOK, Window, calls, ProviderForgets
<1>17. CASE UNCHANGED vars
  BY <1>17 DEF TypeOK, calls, vars
<1> QED
  BY <1>1, <1>2, <1>3, <1>4, <1>5, <1>6, <1>7, <1>8, <1>9, <1>10, <1>11, <1>12, <1>13,
     <1>14, <1>15, <1>16, <1>17 DEF Next, Call

\* A claim takes the lease of a row that is not SENT, or ends the call; the letter
\* and every other call stay as they are.
LEMMA ClaimLeases ==
    ASSUME TypeOK, NEW w \in Workers, Claim(w)
    PROVE  /\ row'.letter = row.letter /\ row'.tried = row.tried /\ row'.status = row.status
           /\ row'.token = row.token \/ (row.status # "SENT" /\ row'.token = w)
           /\ \A v \in Workers \ {w} : pc'[v] = pc[v] /\ draft'[v] = draft[v]
                                       /\ late'[v] = late[v] /\ outcome'[v] = outcome[v]
           /\ \/ pc'[w] = "open" /\ late'[w] = (window # "open")
              \/ pc'[w] = "idle" /\ late'[w] = FALSE
           /\ UNCHANGED <<contact, window, net, known, mails>>
PROOF
<1>1. CASE Claimable
  <2>1. row.status # "SENT" /\ row' = [row EXCEPT !.lease = "running", !.token = w]
    BY <1>1 DEF Claim, Claimable
  <2>2. /\ row'.letter = row.letter /\ row'.tried = row.tried /\ row'.status = row.status
        /\ row'.token = w
    BY <2>1 DEF TypeOK, Row
  <2>3. pc' = [pc EXCEPT ![w] = "open"] /\ late' = [late EXCEPT ![w] = window # "open"]
        /\ UNCHANGED <<draft, outcome, contact, window, net, known, mails>>
    BY <1>1 DEF Claim
  <2>4. /\ \A v \in Workers \ {w} : pc'[v] = pc[v] /\ late'[v] = late[v]
        /\ pc'[w] = "open" /\ late'[w] = (window # "open")
    BY <2>3 DEF TypeOK
  <2> QED
    BY <2>1, <2>2, <2>3, <2>4
<1>2. CASE ~ Claimable
  <2>1. End(w) /\ UNCHANGED <<row, contact, window, net, known, mails>>
    BY <1>2 DEF Claim
  <2> QED
    BY <2>1 DEF End, TypeOK
<1> QED
  BY <1>1, <1>2

\* No step puts another letter under way than the one in the row.
LEMMA LettersStep ==
    ASSUME IInv, TypeOK', [Next]_vars
    PROVE  LettersInv'
PROOF
<1> USE MailAssumption
<1>1. CASE \E w \in Workers : Send(w)
  BY <1>1 DEF IInv, LettersInv, SameBytes, Holds, Goto, Send
<1>2. CASE \E w \in Workers : Claim(w)
  <2> PICK w \in Workers : Claim(w)
    BY <1>2
  <2>1. /\ row'.letter = row.letter /\ row'.tried = row.tried /\ UNCHANGED <<net, known>>
        /\ pc'[w] \in {"open", "idle"}
        /\ \A v \in Workers \ {w} : pc'[v] = pc[v] /\ draft'[v] = draft[v]
    BY ClaimLeases DEF IInv
  <2>2. \A v \in Workers \ {w} : Holds(v)' => Holds(v)
    BY ClaimLeases DEF IInv, Holds
  <2>3. \A v \in Workers : pc'[v] \in {"address", "prepare", "post"} => v # w
    BY <2>1
  <2> QED
    BY <2>1, <2>2, <2>3 DEF IInv, LettersInv, SameBytes
<1>3. CASE \E w \in Workers : Open(w)
  BY <1>3 DEF IInv, LettersInv, SameBytes, Holds, TypeOK, Finish, Open
<1>4. CASE \E w \in Workers : Skip(w)
  BY <1>4 DEF IInv, LettersInv, SameBytes, Holds, Finish, Skip
<1>5. CASE \E w \in Workers : Address(w)
  <2> PICK w \in Workers : Address(w)
    BY <1>5
  <2>1. /\ \A v \in Workers \ {w} : pc'[v] = pc[v] /\ draft'[v] = draft[v]
        /\ UNCHANGED <<row, net, known>> /\ pc[w] = "address" /\ pc'[w] = "prepare"
    BY DEF Address, TypeOK
  <2>2. draft'[w] # NoLetter /\ draft'[w] \in Letter \cup {NoLetter}
    BY DEF Address, Reachable, TypeOK
  <2>3. draft[w] # NoLetter => draft'[w] = draft[w]
    BY DEF Address
  <2> QED
    BY <2>1, <2>2, <2>3 DEF IInv, LettersInv, SameBytes, Holds
<1>6. CASE \E w \in Workers : Prepare(w)
  <2> PICK w \in Workers : Prepare(w)
    BY <1>6
  <2>1. /\ \A v \in Workers \ {w} : pc'[v] = pc[v] /\ draft'[v] = draft[v]
        /\ row'.token = row.token /\ UNCHANGED <<net, known>> /\ pc[w] = "prepare"
    BY DEF Prepare, Goto, End, TypeOK, Row
  <2>2. NoLetter \notin Letter
    BY DEF Letter
  <2>3. CASE Holds(w)
    <3>1. row'.letter = draft[w] /\ row'.tried = TRUE /\ pc'[w] = "post" /\ draft'[w] = draft[w]
      BY <2>3 DEF Prepare, Goto, TypeOK, Row
    <3>2. draft[w] \in Letter /\ (row.tried => draft[w] = row.letter)
      BY <2>1, <2>3 DEF IInv, LettersInv
    <3>3. ~ row.tried => net = {} /\ known = NoLetter /\ \A v \in Workers : pc[v] # "post"
      <4>1. \A r \in net : r.letter \in Letter
        BY DEF IInv, TypeOK, Request
      <4> QED
        BY <2>2, <4>1 DEF IInv, LettersInv, SameBytes
    <3>4. \A v \in Workers \ {w} : ~ (row'.token = v)
      BY <2>1, <2>3 DEF Holds
    <3>5. SameBytes'
      BY <2>1, <3>1, <3>2, <3>3 DEF IInv, LettersInv, SameBytes
    <3> QED
      BY <2>1, <2>2, <3>1, <3>2, <3>3, <3>4, <3>5 DEF IInv, LettersInv, Holds
  <2>4. CASE ~ Holds(w)
    <3>1. row' = row /\ pc'[w] = "idle"
      BY <2>4 DEF Prepare, End, TypeOK
    <3> QED
      BY <2>1, <3>1 DEF IInv, LettersInv, SameBytes, Holds
  <2> QED
    BY <2>3, <2>4
<1>7. CASE \E w \in Workers : Post(w)
  BY <1>7 DEF IInv, LettersInv, SameBytes, Holds, Goto, Post
<1>8. CASE \E w \in Workers : TimeOut(w)
  BY <1>8 DEF IInv, LettersInv, SameBytes, Holds, Finish, TimeOut
<1>9. CASE \E w \in Workers : Record(w)
  BY <1>9 DEF IInv, LettersInv, SameBytes, Holds, End, Record
<1>10. CASE \E w \in Workers : Crash(w)
  BY <1>10 DEF IInv, LettersInv, SameBytes, Holds, TypeOK, End, Crash
<1>11. CASE \E r \in net : Accept(r)
  BY <1>11 DEF IInv, LettersInv, SameBytes, Holds, TypeOK, Finish, calls, Accept, Answer
<1>12. CASE \E r \in net : Refuse(r)
  BY <1>12 DEF IInv, LettersInv, SameBytes, Holds, TypeOK, Finish, calls, Refuse, Answer
<1>13. CASE \E a \in Addresses \cup {NoAddress} : ChangeContact(a)
  BY <1>13 DEF IInv, LettersInv, SameBytes, Holds, calls, ChangeContact
<1>14. CASE LeaseLapses
  BY <1>14 DEF IInv, LettersInv, SameBytes, Holds, calls, LeaseLapses
<1>15. CASE WindowCloses
  BY <1>15 DEF IInv, LettersInv, SameBytes, Holds, calls, WindowCloses
<1>16. CASE ProviderForgets
  BY <1>16 DEF IInv, LettersInv, SameBytes, Holds, calls, ProviderForgets
<1>17. CASE UNCHANGED vars
  BY <1>17 DEF IInv, LettersInv, SameBytes, Holds, calls, vars
<1> QED
  BY <1>1, <1>2, <1>3, <1>4, <1>5, <1>6, <1>7, <1>8, <1>9, <1>10, <1>11, <1>12, <1>13,
     <1>14, <1>15, <1>16, <1>17 DEF Next, Call

\* No step lets a late attempt reach a letter, or an attempt outlive the key.
LEMMA WindowStep ==
    ASSUME IInv, TypeOK', LettersInv', [Next]_vars
    PROVE  WindowInv'
PROOF
<1> USE MailAssumption
<1>1. CASE \E w \in Workers : Send(w)
  BY <1>1 DEF IInv, WindowInv, Sending, Goto, Send
<1>2. CASE \E w \in Workers : Claim(w)
  <2> PICK w \in Workers : Claim(w)
    BY <1>2
  <2> QED
    BY ClaimLeases DEF IInv, WindowInv, Sending
<1>3. CASE \E w \in Workers : Open(w)
  BY <1>3 DEF IInv, WindowInv, TooLate, Sending, TypeOK, Finish, Open
<1>4. CASE \E w \in Workers : Skip(w)
  BY <1>4 DEF IInv, WindowInv, Sending, Finish, Skip
<1>5. CASE \E w \in Workers : Address(w)
  BY <1>5 DEF IInv, WindowInv, Sending, Address
<1>6. CASE \E w \in Workers : Prepare(w)
  BY <1>6 DEF IInv, LettersInv, WindowInv, Sending, TypeOK, Goto, End, Prepare
<1>7. CASE \E w \in Workers : Post(w)
  BY <1>7 DEF IInv, WindowInv, Sending, Goto, Post
<1>8. CASE \E w \in Workers : TimeOut(w)
  BY <1>8 DEF IInv, WindowInv, Sending, Finish, TimeOut
<1>9. CASE \E w \in Workers : Record(w)
  BY <1>9 DEF IInv, WindowInv, Sending, End, Record
<1>10. CASE \E w \in Workers : Crash(w)
  BY <1>10 DEF IInv, WindowInv, Sending, TypeOK, End, Crash
<1>11. CASE \E r \in net : Accept(r)
  BY <1>11 DEF IInv, WindowInv, TypeOK, Finish, calls, Accept, Answer
<1>12. CASE \E r \in net : Refuse(r)
  BY <1>12 DEF IInv, WindowInv, TypeOK, Finish, calls, Refuse, Answer
<1>13. CASE \E a \in Addresses \cup {NoAddress} : ChangeContact(a)
  BY <1>13 DEF IInv, WindowInv, Sending, calls, ChangeContact
<1>14. CASE LeaseLapses
  BY <1>14 DEF IInv, WindowInv, Sending, calls, LeaseLapses
<1>15. CASE WindowCloses
  BY <1>15 DEF IInv, WindowInv, calls, WindowCloses
<1>16. CASE ProviderForgets
  BY <1>16 DEF IInv, WindowInv, Sending, calls, ProviderForgets
<1>17. CASE UNCHANGED vars
  BY <1>17 DEF IInv, WindowInv, Sending, calls, vars
<1> QED
  BY <1>1, <1>2, <1>3, <1>4, <1>5, <1>6, <1>7, <1>8, <1>9, <1>10, <1>11, <1>12, <1>13,
     <1>14, <1>15, <1>16, <1>17 DEF Next, Call

\* No step sends a second letter.
LEMMA MailsStep ==
    ASSUME IInv, TypeOK', [Next]_vars
    PROVE  MailsInv'
PROOF
<1> USE MailAssumption
<1>1. CASE \E w \in Workers : Send(w)
  BY <1>1 DEF IInv, MailsInv, Send
<1>2. CASE \E w \in Workers : Claim(w)
  BY <1>2 DEF IInv, MailsInv, Claim
<1>3. CASE \E w \in Workers : Open(w)
  BY <1>3 DEF IInv, MailsInv, Open
<1>4. CASE \E w \in Workers : Skip(w)
  BY <1>4 DEF IInv, MailsInv, Skip
<1>5. CASE \E w \in Workers : Address(w)
  BY <1>5 DEF IInv, MailsInv, Address
<1>6. CASE \E w \in Workers : Prepare(w)
  BY <1>6 DEF IInv, MailsInv, Prepare
<1>7. CASE \E w \in Workers : Post(w)
  BY <1>7 DEF IInv, MailsInv, Post
<1>8. CASE \E w \in Workers : TimeOut(w)
  BY <1>8 DEF IInv, MailsInv, TimeOut
<1>9. CASE \E w \in Workers : Record(w)
  BY <1>9 DEF IInv, MailsInv, Record
<1>10. CASE \E w \in Workers : Crash(w)
  BY <1>10 DEF IInv, MailsInv, Crash
<1>11. CASE \E r \in net : Accept(r)
  BY <1>11 DEF IInv, WindowInv, MailsInv, TypeOK, Request, Letter, Accept
<1>12. CASE \E r \in net : Refuse(r)
  BY <1>12 DEF IInv, MailsInv, Refuse
<1>13. CASE \E a \in Addresses \cup {NoAddress} : ChangeContact(a)
  BY <1>13 DEF IInv, MailsInv, ChangeContact
<1>14. CASE LeaseLapses
  BY <1>14 DEF IInv, MailsInv, LeaseLapses
<1>15. CASE WindowCloses
  BY <1>15 DEF IInv, MailsInv, WindowCloses
<1>16. CASE ProviderForgets
  BY <1>16 DEF IInv, MailsInv, ProviderForgets
<1>17. CASE UNCHANGED vars
  BY <1>17 DEF IInv, MailsInv, vars
<1> QED
  BY <1>1, <1>2, <1>3, <1>4, <1>5, <1>6, <1>7, <1>8, <1>9, <1>10, <1>11, <1>12, <1>13,
     <1>14, <1>15, <1>16, <1>17 DEF Next, Call

\* No step writes SENT of a letter that was not mailed, or keeps the lease with it.
LEMMA SentStep ==
    ASSUME IInv, TypeOK', [Next]_vars
    PROVE  SentInv'
PROOF
<1> USE MailAssumption
<1>1. CASE \E w \in Workers : Send(w)
  BY <1>1 DEF IInv, SentInv, SentMeansMailed, Goto, Send
<1>2. CASE \E w \in Workers : Claim(w)
  <2> PICK w \in Workers : Claim(w)
    BY <1>2
  <2>1. /\ row'.status = row.status /\ (row.status = "SENT" => row'.token = row.token)
        /\ UNCHANGED mails /\ pc'[w] # "finish"
        /\ \A v \in Workers \ {w} : pc'[v] = pc[v] /\ outcome'[v] = outcome[v]
    BY ClaimLeases DEF IInv
  <2> QED
    BY <2>1 DEF IInv, SentInv, SentMeansMailed
<1>3. CASE \E w \in Workers : Open(w)
  BY <1>3 DEF IInv, SentInv, SentMeansMailed, TypeOK, Finish, Open
<1>4. CASE \E w \in Workers : Skip(w)
  BY <1>4 DEF IInv, SentInv, SentMeansMailed, TypeOK, Finish, Skip
<1>5. CASE \E w \in Workers : Address(w)
  BY <1>5 DEF IInv, SentInv, SentMeansMailed, Address
<1>6. CASE \E w \in Workers : Prepare(w)
  <2> PICK w \in Workers : Prepare(w)
    BY <1>6
  <2>1. /\ row'.status = row.status /\ row'.token = row.token /\ UNCHANGED mails
        /\ \A v \in Workers \ {w} : pc'[v] = pc[v] /\ outcome'[v] = outcome[v]
        /\ pc'[w] # "finish"
    BY DEF Prepare, Goto, End, TypeOK, Row
  <2> QED
    BY <2>1 DEF IInv, SentInv, SentMeansMailed
<1>7. CASE \E w \in Workers : Post(w)
  BY <1>7 DEF IInv, SentInv, SentMeansMailed, Goto, Post
<1>8. CASE \E w \in Workers : TimeOut(w)
  BY <1>8 DEF IInv, SentInv, SentMeansMailed, TypeOK, Finish, TimeOut
<1>9. CASE \E w \in Workers : Record(w)
  BY <1>9 DEF IInv, SentInv, SentMeansMailed, End, Record
<1>10. CASE \E w \in Workers : Crash(w)
  BY <1>10 DEF IInv, SentInv, SentMeansMailed, End, Crash
<1>11. CASE \E r \in net : Accept(r)
  BY <1>11 DEF IInv, SentInv, SentMeansMailed, MailsInv, Accept
<1>12. CASE \E r \in net : Refuse(r)
  BY <1>12 DEF IInv, SentInv, SentMeansMailed, TypeOK, Finish, calls, Refuse, Answer
<1>13. CASE \E a \in Addresses \cup {NoAddress} : ChangeContact(a)
  BY <1>13 DEF IInv, SentInv, SentMeansMailed, calls, ChangeContact
<1>14. CASE LeaseLapses
  BY <1>14 DEF IInv, SentInv, SentMeansMailed, calls, LeaseLapses
<1>15. CASE WindowCloses
  BY <1>15 DEF IInv, SentInv, SentMeansMailed, calls, WindowCloses
<1>16. CASE ProviderForgets
  BY <1>16 DEF IInv, SentInv, SentMeansMailed, calls, ProviderForgets
<1>17. CASE UNCHANGED vars
  BY <1>17 DEF IInv, SentInv, SentMeansMailed, calls, vars
<1> QED
  BY <1>1, <1>2, <1>3, <1>4, <1>5, <1>6, <1>7, <1>8, <1>9, <1>10, <1>11, <1>12, <1>13,
     <1>14, <1>15, <1>16, <1>17 DEF Next, Call

\* The invariant holds in every reachable state: for any number of overlapping
\* calls, addresses and wordings.
THEOREM MailInvariant == Spec => []IInv
PROOF
<1>1. Init => IInv
  BY MailAssumption DEF Init, IInv, LettersInv, WindowInv, MailsInv, SentInv, SameBytes,
     SentMeansMailed, TypeOK,
     Row, Step, Request, Letter, Status, Window, Holds, Sending
<1>2. IInv /\ [Next]_vars => IInv'
  <2> SUFFICES ASSUME IInv, [Next]_vars
               PROVE  IInv'
    OBVIOUS
  <2>1. TypeOK'
    BY TypeStep DEF IInv
  <2>2. LettersInv'
    BY <2>1, LettersStep
  <2>3. WindowInv'
    BY <2>1, <2>2, WindowStep
  <2>4. MailsInv'
    BY <2>1, MailsStep
  <2>5. SentInv'
    BY <2>1, SentStep
  <2> QED
    BY <2>1, <2>2, <2>3, <2>4, <2>5 DEF IInv
<1> QED
  BY <1>1, <1>2, PTL DEF Spec

\* The customer gets at most one e-mail about a grant, whatever was lost, tried
\* again or left half done.
THEOREM OneMailAtMost == Spec => []EmailedOnce
PROOF
<1>1. IInv => EmailedOnce
  BY DEF IInv, MailsInv, EmailedOnce
<1> QED
  BY <1>1, MailInvariant, PTL

\* Every request the provider sees under the grant's key is the same one.
THEOREM OneLetter == Spec => []SameBytes
PROOF
<1>1. IInv => SameBytes
  BY DEF IInv, LettersInv
<1> QED
  BY <1>1, MailInvariant, PTL

\* A row that says SENT tells of a letter the provider sent.
THEOREM SentIsTrue == Spec => []SentMeansMailed
PROOF
<1>1. IInv => SentMeansMailed
  BY DEF IInv, SentInv
<1> QED
  BY <1>1, MailInvariant, PTL

\* Nothing a stalled, crashed or late attempt does turns SENT back.
THEOREM SentForGood == Spec => SentIsFinal
PROOF
<1>1. ASSUME IInv, [Next]_vars, row.status = "SENT"
      PROVE  row'.status = "SENT"
  <2>1. row.token = NoWorker
    BY <1>1 DEF IInv, SentInv
  <2>2. row.status = "SENT"
    BY <1>1
  <2> QED
    BY <1>1, <2>1, <2>2, MailAssumption DEF Next, Call, Send, Claim, Claimable, Open,
       Skip, Address, Prepare, Post,
       TimeOut, Record, Crash, Accept, Refuse, ChangeContact, LeaseLapses, WindowCloses, ProviderForgets, Holds, vars,
       IInv, TypeOK, Row
<1>2. IInv /\ [Next]_vars => [row.status = "SENT" => row'.status = "SENT"]_vars
  BY <1>1
<1> QED
  BY <1>2, MailInvariant, PTL DEF Spec, SentIsFinal

-------------------------------------------------------------------------------
(* The refinement of GrantLetter *)

\* A call that is to record a result has one.
ResultsInv == \A w \in Workers : pc[w] = "finish" => outcome[w] # "PENDING"

LEMMA ResultsStep ==
    ASSUME TypeOK, ResultsInv, [Next]_vars
    PROVE  ResultsInv'
PROOF
<1>1. CASE UNCHANGED vars
  BY <1>1 DEF vars, calls, ResultsInv
<1>2. CASE UNCHANGED <<pc, outcome>>
  BY <1>2 DEF ResultsInv
<1>3. ASSUME NEW w \in Workers, NEW s \in {"SENT", "FAILED", "UNKNOWN", "SKIPPED"}, Finish(w, s)
      PROVE  ResultsInv'
  BY <1>3 DEF Finish, ResultsInv, TypeOK
<1>4. ASSUME NEW w \in Workers, NEW s \in {"claim", "open", "address", "prepare", "post", "await", "idle"},
             pc' = [pc EXCEPT ![w] = s],
             \A v \in Workers \ {w} : outcome'[v] = outcome[v]
      PROVE  ResultsInv'
  BY <1>4 DEF ResultsInv, TypeOK
<1>5. \A w \in Workers : Goto(w, "claim") \/ Goto(w, "post") \/ Goto(w, "await") \/ End(w)
         => ResultsInv'
  <2> SUFFICES ASSUME NEW w \in Workers,
                      Goto(w, "claim") \/ Goto(w, "post") \/ Goto(w, "await") \/ End(w)
               PROVE  ResultsInv'
    OBVIOUS
  <2>1. /\ \E s \in {"claim", "post", "await", "idle"} : pc' = [pc EXCEPT ![w] = s]
        /\ \A v \in Workers \ {w} : outcome'[v] = outcome[v]
    BY DEF Goto, End, TypeOK
  <2> QED
    BY <2>1, <1>4
<1>6. CASE \E w \in Workers : Call(w)
  <2> PICK w \in Workers : Call(w)
    BY <1>6
  <2>1. CASE Send(w) \/ Prepare(w) \/ Post(w) \/ Record(w) \/ Crash(w)
    BY <1>5, <2>1 DEF Send, Prepare, Post, Record, Crash
  <2>2. CASE Claim(w) \/ Address(w)
    <3>1. \/ (\E s \in {"open", "prepare"} : pc' = [pc EXCEPT ![w] = s]) /\ outcome' = outcome
          \/ End(w)
      BY <2>2 DEF Claim, Address
    <3> QED
      BY <3>1, <1>4, <1>5
  <2>3. CASE Open(w)
    <3>1. Finish(w, "UNKNOWN") \/ (pc' = [pc EXCEPT ![w] = "address"] /\ outcome' = outcome)
      BY <2>3 DEF Open
    <3> QED
      BY <3>1, <1>3, <1>4
  <2>4. CASE Skip(w) \/ TimeOut(w)
    BY <1>3, <2>4 DEF Skip, TimeOut
  <2> QED
    BY <2>1, <2>2, <2>3, <2>4 DEF Call
<1>7. CASE \E r \in net : Accept(r) \/ Refuse(r)
  <2> PICK r \in net : Accept(r) \/ Refuse(r)
    BY <1>7
  <2>1. r.from \in Workers
    BY DEF TypeOK, Request
  <2>2. UNCHANGED calls \/ Finish(r.from, "SENT") \/ Finish(r.from, "FAILED")
    BY DEF Accept, Refuse, Answer
  <2> QED
    BY <1>2, <1>3, <2>1, <2>2 DEF calls
<1>8. CASE \/ \E a \in Addresses \cup {NoAddress} : ChangeContact(a)
           \/ LeaseLapses \/ WindowCloses \/ ProviderForgets
  BY <1>2, <1>8 DEF ChangeContact, LeaseLapses, WindowCloses, ProviderForgets, calls
<1> QED
  BY <1>1, <1>6, <1>7, <1>8 DEF Next

\* What GrantLetter sees.
Mapped == <<row.letter, mails, row.status>>

\* A call that holds the lease writes the letter once, and finds it afterwards.
LEMMA PrepareMaps ==
    ASSUME IInv, NEW w \in Workers, Prepare(w)
    PROVE  Promise!Write \/ UNCHANGED Mapped
PROOF
<1>1. UNCHANGED mails /\ row \in Row /\ pc[w] = "prepare"
  BY DEF Prepare, IInv, TypeOK
<1>2. CASE Holds(w)
  <2>1. row'.letter = draft[w] /\ row'.status = row.status
    BY <1>1, <1>2 DEF Prepare, Row
  <2>2. draft[w] \in Letter /\ (row.letter # NoLetter => draft[w] = row.letter)
    BY <1>1, <1>2 DEF IInv, LettersInv
  <2> QED
    BY <1>1, <2>1, <2>2 DEF Promise!Write, Mapped
<1>3. CASE ~ Holds(w)
  BY <1>1, <1>3 DEF Prepare, Mapped
<1> QED
  BY <1>2, <1>3

\* A result is recorded by the holder of the lease, when the row is not SENT.
LEMMA RecordMaps ==
    ASSUME IInv, ResultsInv, NEW w \in Workers, Record(w)
    PROVE  Promise!Say \/ UNCHANGED Mapped
PROOF
<1>1. UNCHANGED mails /\ row \in Row /\ pc[w] = "finish"
  BY DEF Record, IInv, TypeOK
<1>2. CASE Holds(w)
  <2>1. row'.letter = row.letter /\ row'.status = outcome[w]
    BY <1>1, <1>2 DEF Record, Row
  <2>2. row.status # "SENT"
    BY <1>2, MailAssumption DEF IInv, SentInv, Holds
  <2>3. /\ outcome[w] \in {"SENT", "FAILED", "UNKNOWN", "SKIPPED"}
        /\ outcome[w] = "SENT" => mails # <<>>
    BY <1>1 DEF IInv, TypeOK, Status, SentInv, ResultsInv
  <2> QED
    BY <1>1, <2>1, <2>2, <2>3 DEF Promise!Say
<1>3. CASE ~ Holds(w)
  BY <1>1, <1>3 DEF Record, Mapped
<1> QED
  BY <1>2, <1>3

\* What the provider accepts first is the letter of the row; under a key it
\* has, or has forgotten, it mails nothing.
LEMMA AcceptMaps ==
    ASSUME IInv, NEW r \in net, Accept(r)
    PROVE  Promise!Mail \/ UNCHANGED Mapped
PROOF
<1>1. /\ r.letter = row.letter /\ r.letter \in Letter /\ UNCHANGED row
      /\ window # "closed"
  BY DEF Accept, IInv, LettersInv, SameBytes, TypeOK, Request, WindowInv
<1>2. CASE known = NoLetter
  <2>1. mails = <<>>
    BY <1>1, <1>2 DEF IInv, MailsInv
  <2>2. mails' = <<row.letter>>
    BY <1>1, <1>2, <2>1 DEF Accept
  <2>3. row.letter # NoLetter
    BY <1>1, MailAssumption DEF Letter
  <2> QED
    BY <1>1, <2>1, <2>2, <2>3 DEF Promise!Mail
<1>3. CASE known # NoLetter
  BY <1>1, <1>3 DEF Accept, Mapped
<1> QED
  BY <1>2, <1>3

LEMMA EveryStepMaps ==
    ASSUME IInv, ResultsInv, [Next]_vars
    PROVE  Promise!Next \/ UNCHANGED Mapped
PROOF
<1>1. CASE UNCHANGED vars
  BY <1>1 DEF vars, Mapped
<1>2. CASE \E w \in Workers : Call(w)
  <2> PICK w \in Workers : Call(w)
    BY <1>2
  <2>1. CASE Prepare(w) \/ Record(w)
    BY <2>1, PrepareMaps, RecordMaps DEF Promise!Next
  <2>2. CASE Claim(w)
    <3>1. row'.letter = row.letter /\ row'.status = row.status /\ UNCHANGED mails
      BY <2>2 DEF Claim, IInv, TypeOK, Row
    <3> QED
      BY <3>1 DEF Mapped
  <2>3. CASE Send(w) \/ Open(w) \/ Skip(w) \/ Address(w) \/ Post(w) \/ TimeOut(w) \/ Crash(w)
    BY <2>3 DEF Send, Open, Skip, Address, Post, TimeOut, Crash, Mapped
  <2> QED
    BY <2>1, <2>2, <2>3 DEF Call
<1>3. CASE \E r \in net : Accept(r)
  BY <1>3, AcceptMaps DEF Promise!Next
<1>4. CASE \E r \in net : Refuse(r)
  BY <1>4 DEF Refuse, Mapped
<1>5. CASE \/ \E a \in Addresses \cup {NoAddress} : ChangeContact(a)
           \/ WindowCloses \/ ProviderForgets
  BY <1>5 DEF ChangeContact, WindowCloses, ProviderForgets, Mapped
<1>6. CASE LeaseLapses
  <2>1. row'.letter = row.letter /\ row'.status = row.status /\ UNCHANGED mails
    BY <1>6 DEF LeaseLapses, IInv, TypeOK, Row
  <2> QED
    BY <2>1 DEF Mapped
<1> QED
  BY <1>1, <1>2, <1>3, <1>4, <1>5, <1>6 DEF Next

\* All calls of send, in all processes, and the provider implement GrantLetter:
\* one letter, mailed once or never and as it was written, and SENT for good
\* and only of a letter that was mailed.
THEOREM MailsArePromised == Spec => ImplementsPromise
PROOF
<1>1. Init => ResultsInv
  BY DEF Init, ResultsInv
<1>2. IInv /\ ResultsInv /\ [Next]_vars => ResultsInv'
  BY ResultsStep DEF IInv
<1>3. Init => Promise!Init
  BY DEF Init, Promise!Init
<1>4. IInv /\ ResultsInv /\ [Next]_vars
      => [Promise!Next]_<<row.letter, mails, row.status>>
  BY EveryStepMaps DEF Mapped
<1> QED
  BY <1>1, <1>2, <1>3, <1>4, MailInvariant, PTL DEF Spec, ImplementsPromise, Promise!Spec
===============================================================================
