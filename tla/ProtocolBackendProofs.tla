------------------------- MODULE ProtocolBackendProofs -------------------------
(***************************************************************************)
(* The backend over a session and the firmware, for every set of callers,  *)
(* every watchdog timeout and any number of lost lines, late answers,      *)
(* resets and ends of the transport: every call in flight waits for one    *)
(* answer, a safe state reported as applied leaves no output driven until  *)
(* something is written, and no late answer takes an armed backend for     *)
(* disarmed.                                                               *)
(***************************************************************************)
EXTENDS ProtocolBackend, FiniteSetTheorems, SequenceTheorems, TLAPS

-----------------------------------------------------------------------------
(* Lines and results, by the slot they are for *)

Names(q) == {q[i].id : i \in 1..Len(q)}
Distinct(q) == \A i, j \in 1..Len(q) : q[i] = q[j] => i = j
OwnIds(q) == \A i, j \in 1..Len(q) : q[i].id = q[j].id /\ q[i].id \in Senders => i = j
Waiting == {pending[i] : i \in 1..Len(pending)}

NoWrite(q) == \A j \in 1..Len(q) : q[j].act # "gpio.write"
Clean(q, c) == \A i, j \in 1..Len(q) : q[i].id = c /\ i < j => q[j].act # "gpio.write"
GotOk(q, c) == \E i \in 1..Len(q) : q[i].id = c /\ q[i].code = "ok"

\* One more line at the end of a channel.
LEMMA Appended ==
  ASSUME NEW S, NEW q \in Seq(S), NEW e \in S
  PROVE  /\ Append(q, e) \in Seq(S) /\ Len(q) \in Nat
         /\ Len(Append(q, e)) = Len(q) + 1
         /\ \A i \in 1..Len(q) : Append(q, e)[i] = q[i]
         /\ Append(q, e)[Len(q) + 1] = e
         /\ \A i \in 1..Len(Append(q, e)) : i \in 1..Len(q) \/ i = Len(q) + 1
  BY AppendProperties

\* Who is named in a channel with one more line,
LEMMA AppendedNames ==
  ASSUME NEW S, NEW q \in Seq(S), NEW e \in S
  PROVE  /\ Names(Append(q, e)) = Names(q) \cup {e.id}
         /\ OwnIds(q) /\ (e.id \in Senders => e.id \notin Names(q)) => OwnIds(Append(q, e))
<1> DEFINE p == Append(q, e)
<1>1. /\ Len(q) \in Nat /\ Len(p) = Len(q) + 1
      /\ \A i \in 1..Len(q) : p[i] = q[i] /\ i \in 1..Len(p)
      /\ p[Len(q) + 1] = e /\ Len(q) + 1 \in 1..Len(p)
      /\ \A i \in 1..Len(p) : i \in 1..Len(q) \/ i = Len(q) + 1
  BY Appended
<1> HIDE DEF p
<1>2. Names(p) = Names(q) \cup {e.id}
  BY <1>1 DEF Names
<1>3. ASSUME OwnIds(q), e.id \in Senders => e.id \notin Names(q) PROVE OwnIds(p)
  <2> SUFFICES ASSUME NEW i \in 1..Len(p), NEW j \in 1..Len(p),
                      p[i].id = p[j].id, p[i].id \in Senders
               PROVE  i = j
    BY DEF OwnIds
  <2>1. CASE i \in 1..Len(q) /\ j \in 1..Len(q)
    BY <1>1, <1>3, <2>1 DEF OwnIds
  <2>2. CASE i \in 1..Len(q) /\ j = Len(q) + 1
    BY <1>1, <1>3, <2>2 DEF Names
  <2>3. CASE i = Len(q) + 1 /\ j \in 1..Len(q)
    BY <1>1, <1>3, <2>3 DEF Names
  <2> QED
    BY <1>1, <2>1, <2>2, <2>3
<1> QED
  BY <1>2, <1>3 DEF p

\* and what it still promises: a line that is no write breaks nothing.
LEMMA AppendedActs ==
  ASSUME NEW S, NEW q \in Seq(S), NEW e \in S, e.act # "gpio.write", NEW c
  PROVE  /\ NoWrite(q) => NoWrite(Append(q, e))
         /\ Clean(q, c) => Clean(Append(q, e), c)
<1> DEFINE p == Append(q, e)
<1>1. /\ Len(q) \in Nat
      /\ \A i \in 1..Len(q) : p[i] = q[i]
      /\ p[Len(q) + 1] = e
      /\ \A i \in 1..Len(p) : i \in 1..Len(q) \/ i = Len(q) + 1
  BY Appended
<1> HIDE DEF p
<1>2. ASSUME NoWrite(q) PROVE NoWrite(p)
  BY <1>1, <1>2 DEF NoWrite
<1>3. ASSUME Clean(q, c) PROVE Clean(p, c)
  <2> SUFFICES ASSUME NEW i \in 1..Len(p), NEW j \in 1..Len(p), p[i].id = c, i < j
               PROVE  p[j].act # "gpio.write"
    BY DEF Clean
  <2>1. CASE j = Len(q) + 1
    BY <1>1, <2>1
  <2>2. CASE j \in 1..Len(q)
    <3>1. i \in 1..Len(q)
      BY <1>1, <2>2
    <3> QED
      BY <1>1, <1>3, <2>2, <3>1 DEF Clean
  <2> QED
    BY <1>1, <2>1, <2>2
<1> QED
  BY <1>2, <1>3 DEF p

\* The first line is taken.
LEMMA Taken ==
  ASSUME NEW S, NEW q \in Seq(S), q # <<>>
  PROVE  /\ Tail(q) \in Seq(S) /\ Head(q) \in S /\ Head(q) = q[1] /\ 1 \in 1..Len(q)
         /\ Len(q) \in Nat /\ Len(Tail(q)) = Len(q) - 1
         /\ \A i \in 1..Len(Tail(q)) : Tail(q)[i] = q[i + 1] /\ i + 1 \in 1..Len(q)
         /\ \A i \in 1..Len(q) : i = 1 \/ (i - 1 \in 1..Len(Tail(q)) /\ q[i] = Tail(q)[i - 1])
<1> DEFINE p == Tail(q)
<1>1. /\ p \in Seq(S) /\ Len(q) \in Nat /\ Len(p) = Len(q) - 1
      /\ \A i \in 1..Len(p) : p[i] = q[i + 1]
      /\ Head(q) \in S /\ Head(q) = q[1] /\ Len(q) # 0
  BY HeadTailProperties
<1> HIDE DEF p
<1>2. \A i \in 1..Len(p) : i + 1 \in 1..Len(q)
  BY <1>1
<1>3. ASSUME NEW i \in 1..Len(q), i # 1
      PROVE  i - 1 \in 1..Len(p) /\ q[i] = p[i - 1]
  <2>1. i - 1 \in 1..Len(p) /\ (i - 1) + 1 = i
    BY <1>1, <1>3
  <2> QED
    BY <1>1, <2>1
<1>4. 1 \in 1..Len(q)
  BY <1>1
<1>5. \A i \in 1..Len(q) : i = 1 \/ (i - 1 \in 1..Len(p) /\ q[i] = p[i - 1])
  BY <1>3
<1>6. \A i \in 1..Len(p) : p[i] = q[i + 1] /\ i + 1 \in 1..Len(q)
  BY <1>1, <1>2
<1> QED
  BY <1>1, <1>4, <1>5, <1>6, Zenon DEF p

\* Who is named in what is left,
LEMMA TakenNames ==
  ASSUME NEW S, NEW q \in Seq(S), q # <<>>
  PROVE  /\ Names(q) = Names(Tail(q)) \cup {Head(q).id}
         /\ OwnIds(q) => OwnIds(Tail(q))
         /\ OwnIds(q) /\ Head(q).id \in Senders => Head(q).id \notin Names(Tail(q))
<1> DEFINE p == Tail(q)
<1>1. /\ Head(q) = q[1] /\ 1 \in 1..Len(q)
      /\ \A i \in 1..Len(p) : p[i] = q[i + 1] /\ i + 1 \in 1..Len(q)
      /\ \A i \in 1..Len(q) : i = 1 \/ (i - 1 \in 1..Len(p) /\ q[i] = p[i - 1])
  BY Taken
<1> HIDE DEF p
<1>2. Names(q) = Names(p) \cup {Head(q).id}
  <2>1. ASSUME NEW x \in Names(q) PROVE x \in Names(p) \cup {q[1].id}
    <3>1. PICK i \in 1..Len(q) : x = q[i].id
      BY <2>1 DEF Names
    <3> QED
      BY <1>1, <3>1 DEF Names
  <2>2. ASSUME NEW x \in Names(p) PROVE x \in Names(q)
    <3>1. PICK i \in 1..Len(p) : x = p[i].id
      BY <2>2 DEF Names
    <3> QED
      BY <1>1, <3>1 DEF Names
  <2>3. q[1].id \in Names(q)
    BY <1>1 DEF Names
  <2> QED
    BY <1>1, <2>1, <2>2, <2>3
<1>3. ASSUME OwnIds(q) PROVE OwnIds(p)
  <2> SUFFICES ASSUME NEW i \in 1..Len(p), NEW j \in 1..Len(p),
                      p[i].id = p[j].id, p[i].id \in Senders
               PROVE  i = j
    BY DEF OwnIds
  <2>1. /\ i + 1 \in 1..Len(q) /\ p[i] = q[i + 1]
        /\ j + 1 \in 1..Len(q) /\ p[j] = q[j + 1]
    BY <1>1
  <2>2. i + 1 = j + 1
    BY <1>3, <2>1 DEF OwnIds
  <2> QED
    BY <2>2
<1>4. ASSUME OwnIds(q), Head(q).id \in Senders, NEW i \in 1..Len(p), p[i].id = Head(q).id
      PROVE  FALSE
  <2>1. i + 1 = 1
    BY <1>1, <1>4 DEF OwnIds
  <2> QED
    BY <2>1
<1> QED
  BY <1>2, <1>3, <1>4 DEF p, Names

\* and what it promises: behind a line of c that is clean there is no write.
LEMMA TakenActs ==
  ASSUME NEW S, NEW q \in Seq(S), q # <<>>, NEW c
  PROVE  /\ NoWrite(q) => NoWrite(Tail(q)) /\ Head(q).act # "gpio.write"
         /\ Clean(q, c) => Clean(Tail(q), c)
         /\ Clean(q, c) /\ Head(q).id = c => NoWrite(Tail(q))
         /\ GotOk(Tail(q), c) => GotOk(q, c)
<1> DEFINE p == Tail(q)
<1>1. /\ Head(q) = q[1] /\ 1 \in 1..Len(q)
      /\ \A i \in 1..Len(p) : p[i] = q[i + 1] /\ i + 1 \in 1..Len(q)
  BY Taken
<1> HIDE DEF p
<1>2. ASSUME NoWrite(q) PROVE NoWrite(p) /\ Head(q).act # "gpio.write"
  BY <1>1, <1>2 DEF NoWrite
<1>3. ASSUME Clean(q, c) PROVE Clean(p, c)
  <2> SUFFICES ASSUME NEW i \in 1..Len(p), NEW j \in 1..Len(p), p[i].id = c, i < j
               PROVE  p[j].act # "gpio.write"
    BY DEF Clean
  <2>1. i + 1 < j + 1
    OBVIOUS
  <2> QED
    BY <1>1, <1>3, <2>1 DEF Clean
<1>4. ASSUME Clean(q, c), Head(q).id = c, NEW j \in 1..Len(p)
      PROVE  p[j].act # "gpio.write"
  <2>1. 1 < j + 1
    OBVIOUS
  <2> QED
    BY <1>1, <1>4, <2>1 DEF Clean
<1>5. GotOk(p, c) => GotOk(q, c)
  BY <1>1 DEF GotOk
<1> QED
  BY <1>2, <1>3, <1>4, <1>5 DEF p, NoWrite

\* A request that settled: its line or its answer is nobody's.
LEMMA Disowned ==
  ASSUME NEW S, NEW q \in Seq(S), NEW s \in Senders,
         \A m \in S : m.id = s => /\ [m EXCEPT !.id = Nobody] \in S
                                  /\ [m EXCEPT !.id = Nobody].id = Nobody
  PROVE  /\ Disown(q, s) \in Seq(S)
         /\ Names(Disown(q, s)) \subseteq (Names(q) \ {s}) \cup {Nobody}
         /\ OwnIds(q) => OwnIds(Disown(q, s))
         /\ \A c \in Senders : GotOk(Disown(q, s), c) => GotOk(q, c)
<1> DEFINE p == Disown(q, s)
<1>1. p \in Seq(S) /\ Len(p) = Len(q)
  BY DEF Disown
<1>2. ASSUME NEW i \in 1..Len(p)
      PROVE  /\ i \in 1..Len(q)
             /\ q[i].id = s => p[i].id = Nobody
             /\ q[i].id # s => p[i] = q[i]
  BY <1>1 DEF Disown
<1>3. Nobody \notin Senders
  BY SessionAssumption
<1> HIDE DEF p
<1>4. Names(p) \subseteq (Names(q) \ {s}) \cup {Nobody}
  BY <1>2 DEF Names
<1>5. OwnIds(q) => OwnIds(p)
  BY <1>2, <1>3 DEF OwnIds
<1>6. \A c \in Senders : GotOk(p, c) => GotOk(q, c)
  BY <1>2, <1>3 DEF GotOk
<1> QED
  BY <1>1, <1>4, <1>5, <1>6 DEF p

\* Whether or not its caller still waits, a line commands the same.
LEMMA DisownedActs ==
  ASSUME NEW q \in Seq([id : Ids, act : Commands]), NEW s \in Senders, NEW c \in Senders
  PROVE  /\ NoWrite(q) => NoWrite(Disown(q, s))
         /\ Clean(q, c) => Clean(Disown(q, s), c)
<1> DEFINE p == Disown(q, s)
<1>1. Len(p) = Len(q)
  BY DEF Disown
<1>2. ASSUME NEW i \in 1..Len(p)
      PROVE  /\ i \in 1..Len(q)
             /\ p[i].act = q[i].act
             /\ p[i].id \in Senders => p[i].id = q[i].id
  BY SessionAssumption DEF Disown, Ids
<1> HIDE DEF p
<1>3. NoWrite(q) => NoWrite(p)
  BY <1>2 DEF NoWrite
<1>4. Clean(q, c) => Clean(p, c)
  BY <1>1, <1>2 DEF Clean
<1> QED
  BY <1>3, <1>4 DEF p

\* What the device still receives after the end of the transport.
LEMMA DrainedLines ==
  ASSUME toDevice \in Seq([id : Ids, act : Commands]), NEW n \in 0..Len(toDevice),
         NEW c \in Senders
  PROVE  /\ Drained(n) \in Seq([id : Ids, act : Commands])
         /\ Names(Drained(n)) \subseteq {Nobody} /\ OwnIds(Drained(n))
         /\ NoWrite(toDevice) => NoWrite(Drained(n))
         /\ Clean(Drained(n), c)
<1> DEFINE p == Drained(n)
<1>1. \A i \in 1..n : i \in 1..Len(toDevice) /\ toDevice[i] \in [id : Ids, act : Commands]
  <2>1. Len(toDevice) \in Nat
    BY LenProperties
  <2>2. \A i \in 1..n : i \in 1..Len(toDevice)
    BY <2>1
  <2>3. \A i \in 1..Len(toDevice) : toDevice[i] \in [id : Ids, act : Commands]
    BY ElementOfSeq
  <2> QED
    BY <2>2, <2>3
<1>2. \A i \in 1..n : p[i] = [toDevice[i] EXCEPT !.id = Nobody]
  BY DEF Drained
<1>3. \A i \in 1..n : /\ p[i] \in [id : Ids, act : Commands]
                      /\ p[i].id = Nobody /\ p[i].act = toDevice[i].act
  BY <1>1, <1>2 DEF Ids
<1>4. p \in Seq([id : Ids, act : Commands]) /\ Len(p) = n
  <2>1. n \in Nat /\ p = [i \in 1..n |-> p[i]]
    BY DEF Drained
  <2> QED
    BY <1>3, <2>1 DEF Drained
<1> HIDE DEF p
<1>5. Names(p) \subseteq {Nobody} /\ OwnIds(p)
  BY <1>3, <1>4, SessionAssumption DEF Names, OwnIds
<1>6. NoWrite(toDevice) => NoWrite(p)
  BY <1>1, <1>3, <1>4 DEF NoWrite
<1>7. Clean(p, c)
  BY <1>3, <1>4, SessionAssumption DEF Clean
<1> QED
  BY <1>4, <1>5, <1>6, <1>7 DEF p

-----------------------------------------------------------------------------
(* The Map of pending requests *)

\* finishPending() takes out one request and leaves the others.
LEMMA Withdrawn ==
  ASSUME pending \in Seq(Senders), Distinct(pending), NEW s, FinishPending(s)
  PROVE  /\ pending' \in Seq(Senders) /\ Distinct(pending')
         /\ s \in Waiting /\ Waiting' = Waiting \ {s}
<1>1. PICK k \in 1..Len(pending) : pending[k] = s /\ pending' = RemoveAt(pending, k)
  BY DEF FinishPending
<1> DEFINE before == SubSeq(pending, 1, k - 1)
           after == SubSeq(pending, k + 1, Len(pending))
           n == Len(pending)
           p == pending'
<1>2. n \in Nat /\ k \in Nat /\ 1 <= k /\ k <= n /\ \A i \in 1..n : pending[i] \in Senders
  BY LenProperties, ElementOfSeq
<1>3. /\ before \in Seq(Senders) /\ Len(before) = k - 1
      /\ \A i \in 1..(k - 1) : before[i] = pending[i]
  BY <1>2, SubSeqProperties
<1>4. /\ after \in Seq(Senders) /\ Len(after) = n - k
      /\ \A i \in 1..(n - k) : after[i] = pending[k + i]
  BY <1>2, SubSeqProperties
<1>5. p = before \o after
  BY <1>1 DEF RemoveAt
<1> HIDE DEF before, after, p
<1>6. /\ p \in Seq(Senders) /\ Len(p) = n - 1
      /\ \A i \in 1..(n - 1) : p[i] = IF i < k THEN before[i] ELSE after[i - (k - 1)]
  <2>1. /\ before \o after \in Seq(Senders)
        /\ Len(before \o after) = Len(before) + Len(after)
        /\ \A i \in 1..(Len(before) + Len(after)) : (before \o after)[i] =
              IF i <= Len(before) THEN before[i] ELSE after[i - Len(before)]
    BY <1>3, <1>4, ConcatProperties
  <2>2. Len(before) + Len(after) = n - 1 /\ \A i \in 1..(n - 1) : i <= k - 1 <=> i < k
    BY <1>2, <1>3, <1>4
  <2> QED
    BY <1>3, <1>5, <2>1, <2>2
<1>7. \A i \in 1..(n - 1) : p[i] = IF i < k THEN pending[i] ELSE pending[i + 1]
  BY <1>2, <1>3, <1>4, <1>6
<1>8. Distinct(p)
  BY <1>2, <1>6, <1>7 DEF Distinct
<1>9. ASSUME NEW x \in Waiting, x # s PROVE \E i \in 1..Len(p) : p[i] = x
  <2>1. PICK i \in 1..n : pending[i] = x
    BY <1>9 DEF Waiting
  <2>2. CASE i < k
    BY <1>2, <1>6, <1>7, <2>1, <2>2
  <2>3. CASE i > k
    <3>1. i - 1 \in 1..(n - 1) /\ ~(i - 1 < k) /\ (i - 1) + 1 = i
      BY <1>2, <2>3
    <3>2. p[i - 1] = x
      BY <1>7, <2>1, <3>1
    <3> QED
      BY <1>6, <3>1, <3>2
  <2> QED
    BY <1>1, <1>9, <2>1, <2>2, <2>3
<1>10. ASSUME NEW i \in 1..Len(p) PROVE p[i] \in Waiting /\ p[i] # s
  <2>1. i \in 1..(n - 1)
    BY <1>6
  <2>2. PICK j \in 1..n : j # k /\ p[i] = pending[j]
    BY <1>2, <1>7, <2>1
  <2> QED
    BY <1>1, <2>2 DEF Waiting, Distinct
<1>11. Waiting' = {p[i] : i \in 1..Len(p)}
  BY DEF Waiting, p
<1>12. Waiting' = Waiting \ {s}
  BY <1>9, <1>10, <1>11
<1> QED
  BY <1>1, <1>6, <1>8, <1>12 DEF Waiting, p

\* rejectAll() settles every request in flight, and with an error.
LEMMA Rejected ==
  ASSUME pending \in Seq(Senders), Distinct(pending),
         NEW before \in Seq(Results), OwnIds(before), Waiting \cap Names(before) = {},
         RejectAll(before), NEW c
  PROVE  /\ pending' \in Seq(Senders) /\ Distinct(pending') /\ Waiting' = {}
         /\ settled' \in Seq(Results) /\ OwnIds(settled')
         /\ Names(settled') = Names(before) \cup Waiting
         /\ GotOk(settled', c) => GotOk(before, c)
<1> DEFINE n == Len(pending)
           m == Len(before)
           rest == [i \in 1..n |-> [id |-> pending[i], code |-> "disconnected"]]
           q == settled'
<1>1. n \in Nat /\ m \in Nat /\ \A i \in 1..n : pending[i] \in Senders
  BY LenProperties, ElementOfSeq
<1>2. /\ rest \in Seq(Results) /\ Len(rest) = n
      /\ \A i \in 1..n : rest[i].id = pending[i] /\ rest[i].code = "disconnected"
  BY <1>1 DEF Results, Codes
<1>3. q = before \o rest /\ pending' = <<>>
  BY DEF RejectAll
<1> HIDE DEF rest
<1>4. /\ q \in Seq(Results) /\ Len(q) = m + n
      /\ \A i \in 1..(m + n) : q[i] = IF i <= m THEN before[i] ELSE rest[i - m]
  <2>1. /\ before \o rest \in Seq(Results)
        /\ Len(before \o rest) = Len(before) + Len(rest)
        /\ \A i \in 1..(Len(before) + Len(rest)) : (before \o rest)[i] =
              IF i <= Len(before) THEN before[i] ELSE rest[i - Len(before)]
    BY <1>2, ConcatProperties
  <2> QED
    BY <1>2, <1>3, <2>1
<1> HIDE DEF q
<1>5. \A i \in 1..m : i \in 1..Len(q) /\ q[i] = before[i]
  BY <1>1, <1>4
<1>6. ASSUME NEW i \in 1..n
      PROVE  m + i \in 1..Len(q) /\ q[m + i].id = pending[i] /\ q[m + i].code = "disconnected"
  <2>1. m + i \in 1..(m + n) /\ ~(m + i <= m) /\ (m + i) - m = i
    BY <1>1
  <2>2. q[m + i] = rest[i]
    BY <1>4, <2>1
  <2>3. rest[i].id = pending[i] /\ rest[i].code = "disconnected"
    BY <1>2
  <2> QED
    BY <1>4, <2>1, <2>2, <2>3
<1>7. ASSUME NEW i \in 1..Len(q) PROVE i \in 1..m \/ \E j \in 1..n : i = m + j
  <2>1. i \in 1..m \/ (i - m \in 1..n /\ i = m + (i - m))
    BY <1>1, <1>4
  <2> QED
    BY <2>1
<1>8. Names(q) = Names(before) \cup Waiting
  <2>1. ASSUME NEW x \in Names(q) PROVE x \in Names(before) \cup Waiting
    <3>1. PICK i \in 1..Len(q) : x = q[i].id
      BY <2>1 DEF Names
    <3>2. CASE i \in 1..m
      BY <1>5, <3>1, <3>2 DEF Names
    <3>3. ASSUME NEW j \in 1..n, i = m + j PROVE x \in Waiting
      BY <1>6, <3>1, <3>3 DEF Waiting
    <3> QED
      BY <1>7, <3>2, <3>3
  <2>2. Names(before) \subseteq Names(q)
    BY <1>5 DEF Names
  <2>3. Waiting \subseteq Names(q)
    <3> SUFFICES ASSUME NEW i \in 1..n PROVE pending[i] \in Names(q)
      BY DEF Waiting
    <3> QED
      BY <1>6 DEF Names
  <2> QED
    BY <2>1, <2>2, <2>3
<1>9. OwnIds(q)
  <2> SUFFICES ASSUME NEW i \in 1..Len(q), NEW j \in 1..Len(q),
                      q[i].id = q[j].id, q[i].id \in Senders
               PROVE  i = j
    BY DEF OwnIds
  <2>1. CASE i \in 1..m /\ j \in 1..m
    BY <1>5, <2>1 DEF OwnIds
  <2>2. ASSUME NEW k \in 1..n, i = m + k, j \in 1..m PROVE FALSE
    <3>1. q[j].id \in Names(before) /\ q[i].id \in Waiting
      BY <1>5, <1>6, <2>2 DEF Names, Waiting
    <3> QED
      BY <3>1
  <2>3. ASSUME NEW k \in 1..n, j = m + k, i \in 1..m PROVE FALSE
    <3>1. q[i].id \in Names(before) /\ q[j].id \in Waiting
      BY <1>5, <1>6, <2>3 DEF Names, Waiting
    <3> QED
      BY <3>1
  <2>4. ASSUME NEW k \in 1..n, NEW l \in 1..n, i = m + k, j = m + l PROVE i = j
    <3>1. pending[k] = pending[l]
      BY <1>6, <2>4
    <3> QED
      BY <2>4, <3>1 DEF Distinct
  <2> QED
    BY <1>7, <2>1, <2>2, <2>3, <2>4
<1>10. ASSUME GotOk(q, c) PROVE GotOk(before, c)
  <2>1. PICK i \in 1..Len(q) : q[i].id = c /\ q[i].code = "ok"
    BY <1>10 DEF GotOk
  <2> QED
    BY <1>5, <1>6, <1>7, <2>1 DEF GotOk
<1>11. pending' \in Seq(Senders) /\ Distinct(pending') /\ Waiting' = {}
  BY <1>3 DEF Distinct, Waiting
<1> QED
  BY <1>4, <1>8, <1>9, <1>10, <1>11 DEF q

-----------------------------------------------------------------------------
(* The channels: a slot waits for at most one answer, which is in one place  *)

DeviceLines == [id : Ids, act : Commands]
HostLines == [id : Ids, code : Codes] \cup [id : {Broadcast}, code : Events]

\* rest: the settled results that are still to be handed out.
Busy(rest) == Waiting \cup Names(rest)
Chan(rest) ==
  /\ pending \in Seq(Senders) /\ rest \in Seq(Results)
  /\ toDevice \in Seq(DeviceLines) /\ toHost \in Seq(HostLines)
  /\ Distinct(pending) /\ OwnIds(toDevice) /\ OwnIds(toHost) /\ OwnIds(rest)
  /\ Waiting \cap Names(rest) = {}
  /\ Names(toDevice) \cap Senders \subseteq Waiting
  /\ Names(toHost) \cap Senders \subseteq Waiting
  /\ Names(toDevice) \cap Names(toHost) \cap Senders = {}
\* connect() has not sent a sys.hello yet.
Probe(rest) == session \in {"new", "listening"} => Prober \notin Busy(rest)

\* No output is driven and none is about to be.
Calm == ~out /\ NoWrite(toDevice)
StopsOnly(q, c) == \A i \in 1..Len(q) : q[i].id = c => q[i].act = "gpio.stopAll"

\* A step that does not disturb what a safe state of a caller of C counts on.
Tame(C) ==
  /\ Calm => Calm'
  /\ \A c \in C : /\ Clean(toDevice, c) => Clean(toDevice', c)
                  /\ StopsOnly(toDevice, c) => StopsOnly(toDevice', c)
                  /\ GotOk(toHost', c) \/ GotOk(settled', c)
                        => GotOk(toHost, c) \/ GotOk(settled, c)

\* A caller is handed its result.
LEMMA Handed ==
  ASSUME Chan(settled), ~Settled
  PROVE  /\ Chan(Tail(settled)) /\ Head(settled) \in Results
         /\ Head(settled).id \notin Busy(Tail(settled))
         /\ Busy(settled) = Busy(Tail(settled)) \cup {Head(settled).id}
         /\ \A c : GotOk(Tail(settled), c) => GotOk(settled, c)
<1>1. settled \in Seq(Results) /\ settled # <<>>
  BY DEF Chan, Settled
<1>2. /\ Tail(settled) \in Seq(Results) /\ Head(settled) \in Results
      /\ Head(settled).id \in Senders
  <2>1. Tail(settled) \in Seq(Results) /\ Head(settled) \in Results
    BY <1>1, Taken
  <2> QED
    BY <2>1 DEF Results
<1>3. /\ Names(settled) = Names(Tail(settled)) \cup {Head(settled).id}
      /\ OwnIds(settled) => OwnIds(Tail(settled))
      /\ OwnIds(settled) => Head(settled).id \notin Names(Tail(settled))
  BY <1>1, <1>2, TakenNames
<1>4. \A c : GotOk(Tail(settled), c) => GotOk(settled, c)
  BY <1>1, TakenActs
<1> QED
  BY <1>2, <1>3, <1>4 DEF Chan, Busy

\* The host reads a line or none.
HostReads == toHost' = toHost \/ (toHost # <<>> /\ toHost' = Tail(toHost))

\* A line read by the host leaves fewer answers on their way.
LEMMA HostRead ==
  ASSUME toHost \in Seq(HostLines), OwnIds(toHost), HostReads
  PROVE  /\ toHost' \in Seq(HostLines) /\ OwnIds(toHost')
         /\ Names(toHost') \subseteq Names(toHost)
         /\ \A c : GotOk(toHost', c) => GotOk(toHost, c)
<1>1. CASE toHost' = toHost
  BY <1>1
<1>2. CASE toHost # <<>> /\ toHost' = Tail(toHost)
  <2>1. toHost' \in Seq(HostLines)
    BY <1>2, Taken
  <2>2. Names(toHost) = Names(toHost') \cup {Head(toHost).id} /\ OwnIds(toHost')
    BY <1>2, TakenNames
  <2>3. \A c : GotOk(toHost', c) => GotOk(toHost, c)
    BY <1>2, TakenActs
  <2> QED
    BY <2>1, <2>2, <2>3
<1> QED
  BY <1>1, <1>2 DEF HostReads

\* The line of a new request.
LEMMA Sent ==
  ASSUME NEW rest, Chan(rest), NEW s \in Senders, s \notin Busy(rest), NEW act \in Commands,
         pending' = Append(pending, s), settled' = rest, HostReads,
         toDevice' = IF lineUp THEN Append(toDevice, [id |-> s, act |-> act]) ELSE toDevice
  PROVE  Chan(settled)' /\ Busy(settled)' = Busy(rest) \cup {s}
<1> DEFINE line == [id |-> s, act |-> act]
<1>1. line \in DeviceLines /\ line.id = s
  BY DEF DeviceLines, Ids
<1> HIDE DEF line
<1>2. s \notin Waiting /\ s \notin Names(rest) /\ s \notin Names(toDevice) /\ s \notin Names(toHost)
  BY DEF Busy, Chan
<1>3. pending' \in Seq(Senders) /\ Distinct(pending') /\ Waiting' = Waiting \cup {s}
  <2>1. /\ pending \in Seq(Senders) /\ Len(pending) \in Nat
        /\ pending' \in Seq(Senders) /\ Len(pending') = Len(pending) + 1
        /\ \A i \in 1..Len(pending) : pending'[i] = pending[i] /\ i \in 1..Len(pending')
        /\ pending'[Len(pending) + 1] = s /\ Len(pending) + 1 \in 1..Len(pending')
        /\ \A i \in 1..Len(pending') : i \in 1..Len(pending) \/ i = Len(pending) + 1
    BY Appended DEF Chan
  <2>2. \A i \in 1..Len(pending) : pending[i] # s
    BY <1>2 DEF Waiting
  <2>3. Distinct(pending')
    BY <2>1, <2>2 DEF Chan, Distinct
  <2>4. Waiting' = Waiting \cup {s}
    BY <2>1 DEF Waiting
  <2> QED
    BY <2>1, <2>3, <2>4
<1>4. /\ toDevice' \in Seq(DeviceLines) /\ OwnIds(toDevice')
      /\ Names(toDevice') \subseteq Names(toDevice) \cup {s}
  <2>1. toDevice \in Seq(DeviceLines) /\ OwnIds(toDevice)
    BY DEF Chan
  <2>2. /\ Append(toDevice, line) \in Seq(DeviceLines) /\ OwnIds(Append(toDevice, line))
        /\ Names(Append(toDevice, line)) = Names(toDevice) \cup {s}
    BY <1>1, <1>2, <2>1, Appended, AppendedNames
  <2> QED
    BY <2>1, <2>2 DEF line
<1>5. Busy(settled)' = Busy(rest) \cup {s}
  BY <1>3 DEF Busy
<1>6. /\ toHost' \in Seq(HostLines) /\ OwnIds(toHost')
      /\ Names(toHost') \subseteq Names(toHost)
  BY HostRead DEF Chan
<1>7. /\ Waiting' \cap Names(settled') = {}
      /\ Names(toDevice') \cap Senders \subseteq Waiting'
      /\ Names(toHost') \cap Senders \subseteq Waiting'
      /\ Names(toDevice') \cap Names(toHost') \cap Senders = {}
  BY <1>2, <1>3, <1>4, <1>6 DEF Chan
<1> QED
  BY <1>3, <1>4, <1>5, <1>6, <1>7 DEF Chan

\* Unless it is a write, a new line disturbs only the promises of its own caller,
LEMMA SentTame ==
  ASSUME NEW rest, Chan(rest), NEW s \in Senders, NEW act \in Commands,
         \A c : GotOk(rest, c) => GotOk(settled, c),
         settled' = rest, HostReads, out' = out, act # "gpio.write",
         toDevice' = IF lineUp THEN Append(toDevice, [id |-> s, act |-> act]) ELSE toDevice
  PROVE  Tame(Callers \ {s})
<1> DEFINE line == [id |-> s, act |-> act]
<1>1. line \in DeviceLines /\ line.id = s /\ line.act # "gpio.write"
  BY DEF DeviceLines, Ids
<1> HIDE DEF line
<1>2. toDevice \in Seq(DeviceLines)
  BY DEF Chan
<1>3. NoWrite(toDevice) => NoWrite(Append(toDevice, line))
  BY <1>1, <1>2, AppendedActs
<1>4. ASSUME NEW c \in Callers \ {s}
      PROVE  /\ Clean(toDevice, c) => Clean(Append(toDevice, line), c)
             /\ StopsOnly(toDevice, c) => StopsOnly(Append(toDevice, line), c)
  <2>1. Clean(toDevice, c) => Clean(Append(toDevice, line), c)
    BY <1>1, <1>2, AppendedActs
  <2>2. /\ \A i \in 1..Len(toDevice) : Append(toDevice, line)[i] = toDevice[i]
        /\ Append(toDevice, line)[Len(toDevice) + 1] = line
        /\ \A i \in 1..Len(Append(toDevice, line)) :
              i \in 1..Len(toDevice) \/ i = Len(toDevice) + 1
    BY <1>1, <1>2, Appended
  <2> QED
    BY <1>1, <2>1, <2>2 DEF StopsOnly
<1>5. \A c : GotOk(toHost', c) => GotOk(toHost, c)
  BY HostRead DEF Chan
<1> QED
  BY <1>3, <1>4, <1>5 DEF Tame, Calm, line

\* A result that is not c's good news.
LEMMA AppendedOk ==
  ASSUME NEW S, NEW q \in Seq(S), NEW e \in S, NEW c, e.id # c \/ e.code # "ok"
  PROVE  GotOk(Append(q, e), c) => GotOk(q, c)
<1>1. /\ \A i \in 1..Len(q) : Append(q, e)[i] = q[i]
      /\ Append(q, e)[Len(q) + 1] = e
      /\ \A i \in 1..Len(Append(q, e)) : i \in 1..Len(q) \/ i = Len(q) + 1
  BY Appended
<1> QED
  BY <1>1 DEF GotOk

\* request() puts the slot in the Map, or fails at once.
LEMMA Requested ==
  ASSUME NEW rest, Chan(rest), NEW s \in Senders, s \notin Busy(rest), NEW act \in Commands,
         Request(s, act, rest), toHost' = toHost
  PROVE  Chan(settled)' /\ Busy(settled)' = Busy(rest) \cup {s}
<1>1. CASE session = "connected"
  BY <1>1, Sent DEF Request, HostReads
<1>2. CASE session # "connected"
  <2> DEFINE e == [id |-> s, code |-> "disconnected"]
  <2>1. settled' = Append(rest, e) /\ pending' = pending /\ toDevice' = toDevice
    BY <1>2 DEF Request
  <2>2. e \in Results /\ e.id = s
    BY DEF Results, Codes
  <2> HIDE DEF e
  <2>3. rest \in Seq(Results) /\ OwnIds(rest) /\ s \notin Names(rest) /\ s \notin Waiting
    BY DEF Chan, Busy
  <2>4. /\ settled' \in Seq(Results) /\ OwnIds(settled')
        /\ Names(settled') = Names(rest) \cup {s}
    BY <2>1, <2>2, <2>3, Appended, AppendedNames
  <2>5. Waiting' = Waiting
    BY <2>1 DEF Waiting
  <2> QED
    BY <2>1, <2>3, <2>4, <2>5 DEF Chan, Busy
<1> QED
  BY <1>1, <1>2

\* and so does a request, sent or refused.
LEMMA RequestedTame ==
  ASSUME NEW rest, Chan(rest), NEW s \in Senders, NEW act \in Commands,
         \A c : GotOk(rest, c) => GotOk(settled, c),
         Request(s, act, rest), toHost' = toHost, out' = out, act # "gpio.write"
  PROVE  Tame(Callers \ {s})
<1>1. CASE session = "connected"
  BY <1>1, SentTame DEF Request, HostReads
<1>2. CASE session # "connected"
  <2> DEFINE e == [id |-> s, code |-> "disconnected"]
  <2>1. settled' = Append(rest, e) /\ toDevice' = toDevice
    BY <1>2 DEF Request
  <2>2. e \in Results /\ e.code # "ok"
    BY DEF Results, Codes
  <2> HIDE DEF e
  <2>3. rest \in Seq(Results)
    BY DEF Chan
  <2>4. \A c : GotOk(settled', c) => GotOk(rest, c)
    BY <2>1, <2>2, <2>3, AppendedOk
  <2> QED
    BY <2>1, <2>4 DEF Tame, Calm
<1> QED
  BY <1>1, <1>2

\* What the end of the transport leaves: nothing pending, nothing on its way
\* back, and lines nobody waits for.
LEMMA Ended ==
  ASSUME NEW rest, Chan(rest), \A c : GotOk(rest, c) => GotOk(settled, c),
         RejectAll(rest), NEW n \in 0..Len(toDevice), toDevice' = Drained(n),
         toHost' = <<>>, out' = out
  PROVE  Chan(settled)' /\ Busy(settled)' = Busy(rest) /\ Tame(Callers)
<1>1. /\ pending \in Seq(Senders) /\ Distinct(pending) /\ rest \in Seq(Results)
      /\ OwnIds(rest) /\ Waiting \cap Names(rest) = {}
      /\ toDevice \in Seq([id : Ids, act : Commands])
  BY DEF Chan, DeviceLines
<1>2. /\ pending' \in Seq(Senders) /\ Distinct(pending') /\ Waiting' = {}
      /\ settled' \in Seq(Results) /\ OwnIds(settled')
      /\ Names(settled') = Names(rest) \cup Waiting
      /\ \A c : GotOk(settled', c) => GotOk(rest, c)
  BY <1>1, Rejected
<1>3. /\ toDevice' \in Seq([id : Ids, act : Commands])
      /\ Names(toDevice') \subseteq {Nobody} /\ OwnIds(toDevice')
      /\ NoWrite(toDevice) => NoWrite(toDevice')
      /\ \A c \in Senders : Clean(toDevice', c)
  BY <1>1, DrainedLines, SessionAssumption
<1>4. Nobody \notin Senders /\ Callers \subseteq Senders
  BY SessionAssumption, BackendAssumption
<1>5. /\ Names(toHost') = {} /\ OwnIds(toHost') /\ toHost' \in Seq(HostLines)
      /\ \A c : ~GotOk(toHost', c)
  BY DEF Names, OwnIds, GotOk
<1>6. Chan(settled)'
  BY <1>2, <1>3, <1>4, <1>5 DEF Chan, DeviceLines
<1>7. Busy(settled)' = Busy(rest)
  BY <1>2 DEF Busy
<1>8. \A c \in Callers : StopsOnly(toDevice', c)
  BY <1>3, <1>4 DEF StopsOnly, Names
<1>9. Tame(Callers)
  BY <1>2, <1>3, <1>4, <1>5, <1>8 DEF Tame, Calm
<1> QED
  BY <1>6, <1>7, <1>9

\* close() of the session, once or again.
LEMMA Closed ==
  ASSUME NEW rest, Chan(rest), \A c : GotOk(rest, c) => GotOk(settled, c),
         CloseSession(rest), out' = out
  PROVE  Chan(settled)' /\ Busy(settled)' = Busy(rest) /\ Tame(Callers)
<1>1. CASE session = "closed"
  BY <1>1 DEF CloseSession, Chan, Busy, Waiting, Tame, Calm
<1>2. CASE session # "closed"
  BY <1>2, Ended DEF CloseSession
<1> QED
  BY <1>1, <1>2

-----------------------------------------------------------------------------
(* The steps of the session *)

\* The request that times out is settled: no late answer settles it again.
LEMMA TimeoutKeeps ==
  ASSUME Chan(settled), NEW s \in Senders, RequestTimeout(s)
  PROVE  Chan(settled)' /\ Busy(settled)' = Busy(settled) /\ Tame(Callers)
<1> DEFINE e == [id |-> s, code |-> "timeout"]
<1>1. /\ FinishPending(s) /\ settled' = Append(settled, e)
      /\ toDevice' = Disown(toDevice, s) /\ toHost' = Disown(toHost, s) /\ out' = out
  BY DEF RequestTimeout, fwVars
<1>2. e \in Results /\ e.id = s /\ e.code # "ok"
  BY DEF Results, Codes
<1> HIDE DEF e
<1>3. /\ pending' \in Seq(Senders) /\ Distinct(pending')
      /\ s \in Waiting /\ Waiting' = Waiting \ {s}
  BY <1>1, Withdrawn DEF Chan
<1>4. settled \in Seq(Results) /\ OwnIds(settled) /\ s \notin Names(settled)
  BY <1>3 DEF Chan
<1>5. /\ settled' \in Seq(Results) /\ OwnIds(settled')
      /\ Names(settled') = Names(settled) \cup {s}
      /\ \A c : GotOk(settled', c) => GotOk(settled, c)
  BY <1>1, <1>2, <1>4, Appended, AppendedNames, AppendedOk
<1>6. toDevice \in Seq(DeviceLines) /\ toHost \in Seq(HostLines)
  BY DEF Chan
<1>7. /\ \A m \in DeviceLines : m.id = s => /\ [m EXCEPT !.id = Nobody] \in DeviceLines
                                            /\ [m EXCEPT !.id = Nobody].id = Nobody
      /\ \A m \in HostLines : m.id = s => /\ [m EXCEPT !.id = Nobody] \in HostLines
                                          /\ [m EXCEPT !.id = Nobody].id = Nobody
  <2>1. s # Broadcast
    BY SessionAssumption
  <2> QED
    BY <2>1 DEF DeviceLines, HostLines, Ids
<1>8. /\ toDevice' \in Seq(DeviceLines) /\ OwnIds(toDevice')
      /\ Names(toDevice') \subseteq (Names(toDevice) \ {s}) \cup {Nobody}
  <2>1. /\ Disown(toDevice, s) \in Seq(DeviceLines)
        /\ Names(Disown(toDevice, s)) \subseteq (Names(toDevice) \ {s}) \cup {Nobody}
        /\ OwnIds(toDevice) => OwnIds(Disown(toDevice, s))
    BY <1>6, <1>7, Disowned
  <2> QED
    BY <1>1, <2>1 DEF Chan
<1>9. /\ toHost' \in Seq(HostLines) /\ OwnIds(toHost')
      /\ Names(toHost') \subseteq (Names(toHost) \ {s}) \cup {Nobody}
      /\ \A c \in Senders : GotOk(toHost', c) => GotOk(toHost, c)
  <2>1. /\ Disown(toHost, s) \in Seq(HostLines)
        /\ Names(Disown(toHost, s)) \subseteq (Names(toHost) \ {s}) \cup {Nobody}
        /\ OwnIds(toHost) => OwnIds(Disown(toHost, s))
        /\ \A c \in Senders : GotOk(Disown(toHost, s), c) => GotOk(toHost, c)
    BY <1>6, <1>7, Disowned
  <2> QED
    BY <1>1, <2>1 DEF Chan
<1>10. Nobody \notin Senders /\ Callers \subseteq Senders
  BY SessionAssumption, BackendAssumption
<1>11. Chan(settled)' /\ Busy(settled)' = Busy(settled)
  BY <1>3, <1>5, <1>8, <1>9, <1>10 DEF Chan, Busy
<1>12. /\ NoWrite(toDevice) => NoWrite(toDevice')
       /\ \A c \in Senders : Clean(toDevice, c) => Clean(toDevice', c)
  BY <1>1, <1>6, DisownedActs DEF DeviceLines
<1>13. ASSUME NEW c \in Callers, StopsOnly(toDevice, c) PROVE StopsOnly(toDevice', c)
  <2>1. Len(toDevice') = Len(toDevice)
    BY <1>1 DEF Disown
  <2>2. \A i \in 1..Len(toDevice') : toDevice'[i].id = c => toDevice'[i] = toDevice[i]
    BY <1>1, <1>10, <2>1 DEF Disown
  <2> QED
    BY <1>13, <2>1, <2>2 DEF StopsOnly
<1> QED
  BY <1>1, <1>5, <1>9, <1>10, <1>11, <1>12, <1>13 DEF Tame, Calm

\* An answer moves from the line to the caller that waits for it, or is ignored.
LEMMA AnsweredKeeps ==
  ASSUME Chan(settled), Answered
  PROVE  Chan(settled)' /\ Busy(settled)' = Busy(settled) /\ Tame(Callers)
<1> DEFINE e == Head(toHost)
<1>1. /\ toHost # <<>> /\ e.id # Broadcast /\ toHost' = Tail(toHost)
      /\ toDevice' = toDevice /\ out' = out
  BY DEF Answered, fwVars
<1>2. /\ toHost \in Seq(HostLines) /\ settled \in Seq(Results) /\ pending \in Seq(Senders)
      /\ Distinct(pending) /\ OwnIds(settled) /\ OwnIds(toHost)
  BY DEF Chan
<1>3. e \in HostLines /\ e = toHost[1] /\ 1 \in 1..Len(toHost) /\ toHost' \in Seq(HostLines)
  BY <1>1, <1>2, Taken
<1>4. /\ Names(toHost) = Names(toHost') \cup {e.id} /\ OwnIds(toHost')
      /\ e.id \in Senders => e.id \notin Names(toHost')
      /\ \A c : GotOk(toHost', c) => GotOk(toHost, c)
  BY <1>1, <1>2, TakenNames, TakenActs
<1> HIDE DEF e
<1>5. CASE FinishPending(e.id) /\ settled' = Append(settled, e)
  <2>1. /\ pending' \in Seq(Senders) /\ Distinct(pending')
        /\ e.id \in Waiting /\ Waiting' = Waiting \ {e.id}
    BY <1>2, <1>5, Withdrawn
  <2>2. e.id \in Senders
    <3>1. \A i \in 1..Len(pending) : pending[i] \in Senders
      BY <1>2, ElementOfSeq
    <3> QED
      BY <2>1, <3>1 DEF Waiting
  <2>3. e \in Results
    BY <1>1, <1>3, <2>2 DEF HostLines, Results
  <2>4. e.id \notin Names(settled) /\ e.id \notin Names(toDevice)
    BY <1>4, <2>1, <2>2 DEF Chan
  <2>5. /\ settled' \in Seq(Results) /\ OwnIds(settled')
        /\ Names(settled') = Names(settled) \cup {e.id}
    BY <1>2, <1>5, <2>3, <2>4, Appended, AppendedNames
  <2>6. ASSUME NEW c, GotOk(settled', c) PROVE GotOk(settled, c) \/ GotOk(toHost, c)
    <3>1. CASE e.id = c /\ e.code = "ok"
      BY <1>3, <3>1 DEF GotOk
    <3>2. CASE e.id # c \/ e.code # "ok"
      BY <1>2, <1>5, <2>3, <2>6, <3>2, AppendedOk
    <3> QED
      BY <3>1, <3>2
  <2>7. Chan(settled)' /\ Busy(settled)' = Busy(settled)
    BY <1>1, <1>3, <1>4, <2>1, <2>2, <2>4, <2>5 DEF Chan, Busy
  <2> QED
    BY <1>1, <1>4, <2>6, <2>7 DEF Tame, Calm
<1>6. CASE UNCHANGED <<pending, settled>>
  <2>1. Waiting' = Waiting
    BY <1>6 DEF Waiting
  <2> QED
    BY <1>1, <1>3, <1>4, <1>6, <2>1 DEF Chan, Busy, Tame, Calm
<1> QED
  BY <1>5, <1>6 DEF Answered, e

\* The transport ends: every request is rejected.
LEMMA EndsKeeps ==
  ASSUME Chan(settled), TransportEnds
  PROVE  Chan(settled)' /\ Busy(settled)' = Busy(settled) /\ Tame(Callers)
  BY Ended DEF TransportEnds, fwVars

\* A line the device sends about itself.
LEMMA SaidKeeps ==
  ASSUME Chan(settled), UNCHANGED <<pending, settled, toDevice>>, out' = out \/ ~out',
         NEW code \in Events, Says([id |-> Broadcast, code |-> code])
  PROVE  Chan(settled)' /\ Busy(settled)' = Busy(settled) /\ Tame(Callers)
<1> DEFINE e == [id |-> Broadcast, code |-> code]
<1>1. e \in HostLines /\ e.id = Broadcast
  BY DEF HostLines
<1>2. toHost' = toHost \/ toHost' = Append(toHost, e)
  BY DEF Says
<1>3. toHost \in Seq(HostLines) /\ OwnIds(toHost)
  BY DEF Chan
<1>4. Broadcast \notin Senders /\ Callers \subseteq Senders
  BY SessionAssumption, BackendAssumption
<1> HIDE DEF e
<1>5. /\ toHost' \in Seq(HostLines) /\ OwnIds(toHost')
      /\ Names(toHost') \subseteq Names(toHost) \cup {Broadcast}
      /\ \A c \in Callers : GotOk(toHost', c) => GotOk(toHost, c)
  <2>1. /\ Append(toHost, e) \in Seq(HostLines)
        /\ OwnIds(Append(toHost, e))
        /\ Names(Append(toHost, e)) = Names(toHost) \cup {Broadcast}
    BY <1>1, <1>3, <1>4, Appended, AppendedNames
  <2>2. \A c \in Callers : GotOk(Append(toHost, e), c) => GotOk(toHost, c)
    BY <1>1, <1>3, <1>4, AppendedOk
  <2> QED
    BY <1>2, <1>3, <2>1, <2>2
<1>6. Waiting' = Waiting
  BY DEF Waiting
<1> QED
  BY <1>4, <1>5, <1>6 DEF Chan, Busy, Tame, Calm

\* A line is read without an answer, or lost.
LEMMA Lost ==
  ASSUME Chan(settled), UNCHANGED <<pending, settled, out>>,
         \/ HostReads /\ toDevice' = toDevice
         \/ toDevice # <<>> /\ toDevice' = Tail(toDevice) /\ toHost' = toHost
  PROVE  Chan(settled)' /\ Busy(settled)' = Busy(settled) /\ Tame(Callers)
<1>1. Waiting' = Waiting
  BY DEF Waiting
<1>2. CASE HostReads /\ toDevice' = toDevice
  <2>1. /\ toHost' \in Seq(HostLines) /\ OwnIds(toHost')
        /\ Names(toHost') \subseteq Names(toHost)
        /\ \A c : GotOk(toHost', c) => GotOk(toHost, c)
    BY <1>2, HostRead DEF Chan
  <2> QED
    BY <1>1, <1>2, <2>1 DEF Chan, Busy, Tame, Calm
<1>3. CASE toDevice # <<>> /\ toDevice' = Tail(toDevice) /\ toHost' = toHost
  <2>1. toDevice \in Seq(DeviceLines) /\ OwnIds(toDevice)
    BY DEF Chan
  <2>2. /\ toDevice' \in Seq(DeviceLines)
        /\ \A i \in 1..Len(toDevice') : toDevice'[i] = toDevice[i + 1] /\ i + 1 \in 1..Len(toDevice)
    BY <1>3, <2>1, Taken
  <2>3. Names(toDevice) = Names(toDevice') \cup {Head(toDevice).id} /\ OwnIds(toDevice')
    BY <1>3, <2>1, TakenNames
  <2>4. /\ NoWrite(toDevice) => NoWrite(toDevice')
        /\ \A c : Clean(toDevice, c) => Clean(toDevice', c)
    BY <1>3, <2>1, TakenActs
  <2>5. \A c : StopsOnly(toDevice, c) => StopsOnly(toDevice', c)
    BY <2>2 DEF StopsOnly
  <2> QED
    BY <1>1, <1>3, <2>2, <2>3, <2>4, <2>5 DEF Chan, Busy, Tame, Calm
<1> QED
  BY <1>2, <1>3

\* The device resets: what it had received is gone and no output is driven.
LEMMA ResetKeeps ==
  ASSUME Chan(settled), DeviceResets
  PROVE  Chan(settled)' /\ Busy(settled)' = Busy(settled) /\ Tame(Callers)
<1> DEFINE e == [id |-> Broadcast, code |-> "ready"]
<1>1. /\ toDevice' = <<>> /\ ~out' /\ UNCHANGED <<pending, settled>>
      /\ (toHost' = toHost \/ toHost' = Append(toHost, e))
  BY DEF DeviceResets, Boot, Says
<1>2. e \in HostLines /\ e.id = Broadcast
  BY DEF HostLines, Events
<1>3. toHost \in Seq(HostLines) /\ OwnIds(toHost)
  BY DEF Chan
<1>4. Broadcast \notin Senders /\ Callers \subseteq Senders
  BY SessionAssumption, BackendAssumption
<1> HIDE DEF e
<1>5. /\ toHost' \in Seq(HostLines) /\ OwnIds(toHost')
      /\ Names(toHost') \subseteq Names(toHost) \cup {Broadcast}
      /\ \A c \in Callers : GotOk(toHost', c) => GotOk(toHost, c)
  <2>1. /\ Append(toHost, e) \in Seq(HostLines)
        /\ OwnIds(Append(toHost, e))
        /\ Names(Append(toHost, e)) = Names(toHost) \cup {Broadcast}
    BY <1>2, <1>3, <1>4, Appended, AppendedNames
  <2>2. \A c \in Callers : GotOk(Append(toHost, e), c) => GotOk(toHost, c)
    BY <1>2, <1>3, <1>4, AppendedOk
  <2> QED
    BY <1>1, <1>3, <2>1, <2>2
<1>6. /\ toDevice' \in Seq(DeviceLines) /\ OwnIds(toDevice') /\ Names(toDevice') = {}
      /\ NoWrite(toDevice') /\ \A c : Clean(toDevice', c) /\ StopsOnly(toDevice', c)
  BY <1>1 DEF OwnIds, Names, NoWrite, Clean, StopsOnly
<1>7. Waiting' = Waiting
  BY <1>1 DEF Waiting
<1> QED
  BY <1>1, <1>4, <1>5, <1>6, <1>7 DEF Chan, Busy, Tame, Calm

\* connect() sends a sys.hello.
LEMMA HelloKeeps ==
  ASSUME NEW rest, Chan(rest), Prober \notin Busy(rest),
         \A c : GotOk(rest, c) => GotOk(settled, c),
         SendHello(rest), HostReads, out' = out
  PROVE  Chan(settled)' /\ Busy(settled)' = Busy(rest) \cup {Prober} /\ Tame(Callers)
<1>1. Prober \in Senders /\ Prober \notin Callers /\ "sys.hello" \in Commands
  BY SessionAssumption, BackendAssumption DEF Commands
<1>2. Chan(settled)' /\ Busy(settled)' = Busy(rest) \cup {Prober}
  BY <1>1, Sent DEF SendHello
<1>3. Tame(Callers \ {Prober})
  BY <1>1, SentTame DEF SendHello
<1>4. Callers \ {Prober} = Callers
  BY <1>1
<1> QED
  BY <1>2, <1>3, <1>4

\* What the session does by itself disturbs no call: but for the device's
\* handling of a line, no safe state either.
LEMMA SessionKeeps ==
  ASSUME Chan(settled), Probe(settled), SessionStep, ~DeviceHandles
  PROVE  /\ Chan(settled)' /\ Probe(settled)' /\ Tame(Callers)
         /\ \A c \in Callers : c \in Busy(settled)' <=> c \in Busy(settled)
<1> DEFINE Keeps == /\ Chan(settled)' /\ Probe(settled)' /\ Tame(Callers)
                    /\ \A c \in Callers : c \in Busy(settled)' <=> c \in Busy(settled)
<1>1. Prober \notin Callers
  BY BackendAssumption
<1>2. ASSUME Chan(settled)', Busy(settled)' = Busy(settled), Tame(Callers),
             session' = session \/ session' \notin {"new", "listening"}
      PROVE  Keeps
  BY <1>2 DEF Probe
<1>3. CASE Open
  <2>1. UNCHANGED <<pending, settled, toDevice, toHost, out>> /\ session = "new"
    BY <1>3 DEF Open, fwVars
  <2>2. Chan(settled)' /\ Busy(settled)' = Busy(settled) /\ Tame(Callers)
    BY <2>1, Lost DEF HostReads
  <2> QED
    BY <2>1, <2>2 DEF Probe
<1>4. CASE ListenTimeout
  <2>1. /\ SendHello(settled) /\ HostReads /\ out' = out /\ session' = "probing"
        /\ session = "listening"
    BY <1>4 DEF ListenTimeout, HostReads, fwVars
  <2>2. /\ Chan(settled)' /\ Busy(settled)' = Busy(settled) \cup {Prober} /\ Tame(Callers)
    BY <2>1, HelloKeeps DEF Probe
  <2> QED
    BY <1>1, <2>1, <2>2 DEF Probe
<1>5. CASE ProbeReturns
  <2> DEFINE rest == Tail(settled)
  <2>1. /\ Chan(rest) /\ Prober \notin Busy(rest) /\ Busy(settled) = Busy(rest) \cup {Prober}
        /\ \A c : GotOk(rest, c) => GotOk(settled, c)
    BY <1>5, Handed DEF ProbeReturns
  <2>2. out' = out
    BY <1>5 DEF ProbeReturns, fwVars
  <2> HIDE DEF rest
  <2>3. CASE /\ session' = "connected" /\ settled' = rest
             /\ UNCHANGED <<pending, toDevice, toHost>>
    BY <1>1, <2>1, <2>2, <2>3 DEF Chan, Probe, Busy, Waiting, Tame, Calm
  <2>4. CASE SendHello(rest) /\ UNCHANGED <<session, toHost>>
    <3>1. Chan(settled)' /\ Busy(settled)' = Busy(rest) \cup {Prober} /\ Tame(Callers)
      BY <2>1, <2>2, <2>4, HelloKeeps DEF HostReads
    <3>2. session \notin {"new", "listening"}
      BY <2>1 DEF Probe
    <3> QED
      BY <1>1, <2>1, <2>4, <3>1, <3>2 DEF Probe
  <2>5. CASE CloseSession(rest)
    <3>1. Chan(settled)' /\ Busy(settled)' = Busy(rest) /\ Tame(Callers)
      BY <2>1, <2>2, <2>5, Closed
    <3> QED
      BY <1>1, <2>1, <3>1 DEF Probe
  <2> QED
    BY <1>5, <2>3, <2>4, <2>5 DEF ProbeReturns, rest
<1>6. CASE Answered
  BY <1>2, <1>6, AnsweredKeeps DEF Answered
<1>7. CASE ReadyHeard
  <2>1. HostReads /\ out' = out
    BY <1>7 DEF ReadyHeard, HostReads, fwVars
  <2>2. CASE session = "listening"
    <3>1. SendHello(settled) /\ session' = "probing"
      BY <1>7, <2>2 DEF ReadyHeard
    <3>2. Chan(settled)' /\ Busy(settled)' = Busy(settled) \cup {Prober} /\ Tame(Callers)
      BY <2>1, <2>2, <3>1, HelloKeeps DEF Probe
    <3> QED
      BY <1>1, <3>1, <3>2 DEF Probe
  <2>3. CASE session # "listening"
    <3>1. UNCHANGED <<session, pending, settled, toDevice>>
      BY <1>7, <2>3 DEF ReadyHeard
    <3> QED
      BY <1>2, <2>1, <3>1, Lost
  <2> QED
    BY <2>2, <2>3
<1>8. CASE TransportEnds
  BY <1>2, <1>8, EndsKeeps DEF TransportEnds
<1>9. ASSUME NEW s \in Senders, RequestTimeout(s) PROVE Keeps
  BY <1>2, <1>9, TimeoutKeeps DEF RequestTimeout
<1>10. CASE WatchdogRuns
  BY <1>2, <1>10, Lost DEF WatchdogRuns, Elapse, sessionVars, HostReads
<1>11. CASE WatchdogTrips
  BY <1>2, <1>11, SaidKeeps DEF WatchdogTrips, Trip, Events
<1>12. CASE DeviceResets
  BY <1>2, <1>12, ResetKeeps DEF DeviceResets
<1>13. CASE LineLost
  BY <1>2, <1>13, Lost DEF LineLost, HostReads, fwVars
<1> QED
  BY <1>3, <1>4, <1>5, <1>6, <1>7, <1>8, <1>9, <1>10, <1>11, <1>12, <1>13 DEF SessionStep

-----------------------------------------------------------------------------
(* The invariant *)

\* The types of what is no channel; no sys.hello is sent before connect() probes.
Flags == out \in BOOLEAN /\ lineUp \in BOOLEAN /\ beating \in BOOLEAN /\ listening \in BOOLEAN
Plain ==
  /\ fw \in {"disarmed", "armed", "tripped"} /\ left \in 0..Timeout
  /\ session \in {"new", "listening", "probing", "connected", "closed"}
  /\ attempts \in 0..MaxAttempts
  /\ session \in {"new", "listening"} => attempts = 0
  /\ faults \in 0..MaxFaults
  /\ belief \in {"disarmed", "armed", "tripped"}
  /\ op \in [Callers -> Ops] /\ calls \in 0..MaxCalls
  /\ since \in [Callers \cup Marks -> SUBSET Watched]

\* A call awaits exactly what is pending or settled in its name.
CallsInv == \A c \in Callers : op[c] = "idle" <=> c \notin Busy(settled)

\* No gpio.write was sent since what r marks.
Quiet(r) == "gpio.write" \notin since[r]

\* What a gpio.stopAll promises on its way: no write is behind it, and once it
\* is answered nothing is driven.
StopInv ==
  /\ Quiet("applied") => Calm
  /\ \A c \in Callers : op[c] = "safe:stop" =>
        /\ StopsOnly(toDevice, c)
        /\ Quiet(c) => /\ Clean(toDevice, c)
                       /\ GotOk(toHost, c) \/ GotOk(settled, c) => Calm

BackendInv == Flags /\ Plain /\ Chan(settled) /\ Probe(settled) /\ CallsInv /\ StopInv

\* The invariant implies the types.
LEMMA TypesOfInv == BackendInv => BackendTypeOK
  BY DEF BackendInv, Flags, Plain, Chan, DeviceLines, HostLines, BackendTypeOK, SessionTypeOK

\* A tame step keeps the promises of the safe states it leaves alone.
LEMMA TameKeeps ==
  ASSUME StopInv, NEW C \in SUBSET Callers, Tame(C), Quiet("applied")' => Quiet("applied"),
         \A c \in Callers : op'[c] = "safe:stop" =>
            c \in C /\ op[c] = "safe:stop" /\ (Quiet(c)' => Quiet(c))
  PROVE  StopInv'
  BY DEF StopInv, Tame

\* The firmware of a driven output: only a write drives it.
LEMMA HandledOutput ==
  ASSUME NEW act, NEW code, Handles(act, code)
  PROVE  /\ act # "gpio.write" /\ ~out => ~out'
         /\ act = "gpio.stopAll" => ~out'
  BY DEF Handles, Arm, Disarm, Kick, Write, StopAll, fwVars

\* The firmware handles a line: a gpio.stopAll with no write behind it stops
\* every output, and its answer says so.
LEMMA HandlesKeeps ==
  ASSUME BackendInv, DeviceHandles, UNCHANGED backendVars
  PROVE  Chan(settled)' /\ Busy(settled)' = Busy(settled) /\ StopInv'
<1> DEFINE m == Head(toDevice)
<1>1. PICK code \in {"ok"} \cup DeviceErrors :
         /\ Handles(m.act, code)
         /\ IF m.id = Nobody THEN UNCHANGED toHost ELSE Says([id |-> m.id, code |-> code])
  BY DEF DeviceHandles
<1> DEFINE e == [id |-> m.id, code |-> code]
<1>2. /\ toDevice # <<>> /\ toDevice' = Tail(toDevice)
      /\ UNCHANGED <<pending, settled, op, since>>
  BY DEF DeviceHandles, backendVars
<1>3. /\ toDevice \in Seq(DeviceLines) /\ OwnIds(toDevice)
      /\ toHost \in Seq(HostLines) /\ OwnIds(toHost)
  BY DEF BackendInv, Chan
<1>4. /\ m \in DeviceLines /\ m = toDevice[1] /\ 1 \in 1..Len(toDevice)
      /\ toDevice' \in Seq(DeviceLines)
      /\ \A i \in 1..Len(toDevice') : toDevice'[i] = toDevice[i + 1] /\ i + 1 \in 1..Len(toDevice)
  BY <1>2, <1>3, Taken
<1>5. /\ Names(toDevice) = Names(toDevice') \cup {m.id} /\ OwnIds(toDevice')
      /\ m.id \in Senders => m.id \notin Names(toDevice')
  BY <1>2, <1>3, TakenNames
<1>6. m.id \in Ids
  BY <1>4 DEF DeviceLines
<1>7. e \in HostLines /\ e.id = m.id
  BY <1>6 DEF HostLines, Codes
<1>8. toHost' = toHost \/ (m.id \in Senders /\ toHost' = Append(toHost, e))
  BY <1>1, <1>6 DEF Says, Ids
<1> HIDE DEF m, e
<1>9. m.id \in Senders => m.id \in Waiting /\ m.id \notin Names(toHost)
  BY <1>5 DEF BackendInv, Chan
<1>10. /\ toHost' \in Seq(HostLines) /\ OwnIds(toHost')
       /\ Names(toHost') \subseteq Names(toHost) \cup (IF m.id \in Senders THEN {m.id} ELSE {})
       /\ \A c : c # m.id /\ GotOk(toHost', c) => GotOk(toHost, c)
  <2>1. CASE toHost' = toHost
    BY <1>3, <2>1
  <2>2. CASE m.id \in Senders /\ toHost' = Append(toHost, e)
    <3>1. /\ toHost' \in Seq(HostLines) /\ OwnIds(toHost')
          /\ Names(toHost') = Names(toHost) \cup {m.id}
      BY <1>3, <1>7, <1>9, <2>2, Appended, AppendedNames
    <3>2. \A c : c # m.id /\ GotOk(toHost', c) => GotOk(toHost, c)
      BY <1>3, <1>7, <2>2, AppendedOk
    <3> QED
      BY <2>2, <3>1, <3>2
  <2> QED
    BY <1>8, <2>1, <2>2
<1>11. Waiting' = Waiting
  BY <1>2 DEF Waiting
<1>12. Chan(settled)' /\ Busy(settled)' = Busy(settled)
  BY <1>2, <1>4, <1>5, <1>9, <1>10, <1>11 DEF BackendInv, Chan, Busy
<1>13. Calm => Calm'
  <2>1. NoWrite(toDevice) => NoWrite(toDevice') /\ m.act # "gpio.write"
    BY <1>2, <1>3, TakenActs DEF m
  <2> QED
    BY <1>1, <2>1, HandledOutput DEF Calm
<1>14. ASSUME NEW c \in Callers, op[c] = "safe:stop"
       PROVE  /\ StopsOnly(toDevice', c)
              /\ Quiet(c) => /\ Clean(toDevice', c)
                             /\ GotOk(toHost', c) \/ GotOk(settled', c) => Calm'
  <2>1. /\ StopsOnly(toDevice, c)
        /\ Quiet(c) => /\ Clean(toDevice, c)
                       /\ GotOk(toHost, c) \/ GotOk(settled, c) => Calm
    BY <1>14 DEF BackendInv, StopInv
  <2>2. StopsOnly(toDevice', c)
    BY <1>4, <2>1 DEF StopsOnly
  <2>3. /\ Clean(toDevice, c) => Clean(toDevice', c)
        /\ Clean(toDevice, c) /\ m.id = c => NoWrite(toDevice')
    BY <1>2, <1>3, TakenActs DEF m
  <2>4. m.id = c => ~out'
    BY <1>1, <1>4, <2>1, HandledOutput DEF StopsOnly
  <2> QED
    BY <1>2, <1>10, <1>13, <2>1, <2>2, <2>3, <2>4 DEF Calm
<1>15. Quiet("applied") => Calm
  BY DEF BackendInv, StopInv
<1>16. StopInv'
  BY <1>2, <1>13, <1>14, <1>15 DEF StopInv, Quiet
<1> QED
  BY <1>12, <1>16

\* The request of a call, which was idle, or goes on after a result.
LEMMA CallerWaits ==
  ASSUME BackendInv, NEW c \in Callers,
         NEW rest, Chan(rest), c \notin Busy(rest), Busy(settled) \subseteq Busy(rest) \cup {c},
         NEW act \in Commands, Request(c, act, rest), toHost' = toHost, session' = session,
         NEW now \in Ops \ {"idle"}, op' = [op EXCEPT ![c] = now],
         Busy(rest) \subseteq Busy(settled)
  PROVE  Chan(settled)' /\ Probe(settled)' /\ CallsInv'
<1>1. c \in Senders /\ c # Prober
  BY BackendAssumption
<1>2. Chan(settled)' /\ Busy(settled)' = Busy(rest) \cup {c}
  BY <1>1, Requested
<1>3. op'[c] = now /\ \A d \in Callers : d # c => op'[d] = op[d]
  BY DEF BackendInv, Plain
<1> QED
  BY <1>1, <1>2, <1>3 DEF BackendInv, Probe, CallsInv

\* A line of another slot is no line of d.
LEMMA RequestedStops ==
  ASSUME NEW rest, Chan(rest), NEW s \in Senders, NEW act \in Commands,
         Request(s, act, rest), NEW d, d # s, StopsOnly(toDevice, d)
  PROVE  StopsOnly(toDevice', d)
<1> DEFINE line == [id |-> s, act |-> act]
<1>1. line \in DeviceLines /\ line.id = s /\ toDevice \in Seq(DeviceLines)
  BY DEF DeviceLines, Ids, Chan
<1>2. toDevice' = toDevice \/ toDevice' = Append(toDevice, line)
  BY DEF Request
<1> HIDE DEF line
<1>3. /\ \A i \in 1..Len(toDevice) : Append(toDevice, line)[i] = toDevice[i]
      /\ Append(toDevice, line)[Len(toDevice) + 1] = line
      /\ \A i \in 1..Len(Append(toDevice, line)) :
            i \in 1..Len(toDevice) \/ i = Len(toDevice) + 1
  BY <1>1, Appended
<1> QED
  BY <1>1, <1>2, <1>3 DEF StopsOnly

\* A call that starts.
LEMMA StartKeeps ==
  ASSUME BackendInv, NEW c \in Callers,
         CallArm(c) \/ CallWrite(c) \/ CallDisarm(c) \/ CallSafeState(c) \/ CallClose(c)
  PROVE  Chan(settled)' /\ Probe(settled)' /\ CallsInv' /\ StopInv'
<1>1. /\ c \in Senders /\ c # Prober /\ c \notin Marks
      /\ {"sys.arm", "sys.disarm", "gpio.write"} \subseteq Commands
      /\ {"arm", "disarm", "write", "safe:disarm", "close:disarm"} \subseteq Ops \ {"idle", "safe:stop"}
  BY BackendAssumption DEF Commands, Ops
<1>2. Chan(settled) /\ StopInv /\ Settled /\ op[c] = "idle" /\ out' = out
  BY DEF BackendInv, CallArm, CallWrite, CallDisarm, CallSafeState, CallClose, Starts, fwVars
<1>3. c \notin Busy(settled)
  BY <1>2 DEF BackendInv, CallsInv
<1>4. \A r \in Callers \cup Marks : \A act \in Watched : Noted(act)[r] = since[r] \cup {act}
  BY DEF Noted, BackendInv, Plain
<1>5. ASSUME NEW act \in Commands \ {"gpio.write"}, NEW now \in Ops \ {"idle", "safe:stop"},
             Sends(c, act, now),
             \A r \in Callers \cup Marks : r # c => since[r] \subseteq since'[r]
      PROVE  Chan(settled)' /\ Probe(settled)' /\ CallsInv' /\ StopInv'
  <2>1. /\ Request(c, act, settled) /\ toHost' = toHost /\ session' = session
        /\ op' = [op EXCEPT ![c] = now]
    BY <1>5 DEF Sends
  <2>2. Chan(settled)' /\ Probe(settled)' /\ CallsInv'
    BY <1>2, <1>3, <1>5, <2>1, CallerWaits
  <2>3. Tame(Callers \ {c})
    BY <1>1, <1>2, <1>5, <2>1, RequestedTame
  <2>4. op'[c] = now /\ \A d \in Callers : d # c => op'[d] = op[d]
    BY <2>1 DEF BackendInv, Plain
  <2>5. Quiet("applied")' => Quiet("applied")
    BY <1>1, <1>5 DEF Quiet, Marks
  <2>6. ASSUME NEW d \in Callers, op'[d] = "safe:stop"
        PROVE  d \in Callers \ {c} /\ op[d] = "safe:stop" /\ (Quiet(d)' => Quiet(d))
    <3>1. d # c
      BY <1>5, <2>4, <2>6
    <3> QED
      BY <1>5, <2>4, <2>6, <3>1 DEF Quiet
  <2>7. StopInv'
    BY <1>2, <2>3, <2>5, <2>6, TameKeeps
  <2> QED
    BY <2>2, <2>7
<1>6. CASE CallArm(c)
  <2>1. \A r \in Callers \cup Marks : r # c => since'[r] = since[r] \cup {"sys.arm"}
    BY <1>4, <1>6 DEF CallArm, Noted, BackendInv, Plain, Watched
  <2> QED
    BY <1>1, <1>5, <1>6, <2>1 DEF CallArm
<1>7. CASE CallDisarm(c)
  <2>1. \A r \in Callers \cup Marks : since'[r] = since[r] \cup {"sys.disarm"}
    BY <1>4, <1>7 DEF CallDisarm, Watched
  <2> QED
    BY <1>1, <1>5, <1>7, <2>1 DEF CallDisarm
<1>8. CASE CallSafeState(c)
  <2>1. \A r \in Callers \cup Marks : r # c => since'[r] = since[r] \cup {"sys.disarm"}
    BY <1>4, <1>8 DEF CallSafeState, Noted, BackendInv, Plain, Watched
  <2> QED
    BY <1>1, <1>5, <1>8, <2>1 DEF CallSafeState
<1>9. CASE CallClose(c)
  <2>1. CASE belief = "armed"
    <3>1. Sends(c, "sys.disarm", "close:disarm") /\ since' = Noted("sys.disarm")
      BY <1>9, <2>1 DEF CallClose
    <3>2. \A r \in Callers \cup Marks : since'[r] = since[r] \cup {"sys.disarm"}
      BY <1>4, <3>1 DEF Watched
    <3> QED
      BY <1>1, <1>5, <3>1, <3>2
  <2>2. CASE belief # "armed"
    <3>1. CloseSession(settled) /\ op' = op /\ since' = since
      BY <1>9, <2>2 DEF CallClose
    <3>2. Chan(settled)' /\ Busy(settled)' = Busy(settled) /\ Tame(Callers)
      BY <1>2, <3>1, Closed
    <3>3. session' = session \/ session' = "closed"
      BY <3>1 DEF CloseSession
    <3>4. StopInv'
      BY <1>2, <3>1, <3>2, TameKeeps DEF Quiet
    <3> QED
      BY <3>1, <3>2, <3>3, <3>4 DEF BackendInv, Probe, CallsInv
  <2> QED
    BY <2>1, <2>2
<1>10. CASE CallWrite(c)
  <2>1. /\ Request(c, "gpio.write", settled) /\ toHost' = toHost /\ session' = session
        /\ op' = [op EXCEPT ![c] = "write"] /\ since' = Noted("gpio.write")
    BY <1>10 DEF CallWrite, Sends
  <2>2. Chan(settled)' /\ Probe(settled)' /\ CallsInv'
    BY <1>1, <1>2, <1>3, <2>1, CallerWaits
  <2>3. \A r \in Callers \cup Marks : ~Quiet(r)'
    BY <1>4, <2>1 DEF Quiet, Watched
  <2>4. op'[c] = "write" /\ \A d \in Callers : d # c => op'[d] = op[d]
    BY <2>1 DEF BackendInv, Plain
  <2>5. ASSUME NEW d \in Callers, op'[d] = "safe:stop" PROVE StopsOnly(toDevice', d)
    <3>1. d # c /\ op[d] = "safe:stop"
      BY <2>4, <2>5
    <3>2. StopsOnly(toDevice, d)
      BY <1>2, <3>1 DEF StopInv
    <3> QED
      BY <1>1, <1>2, <2>1, <3>1, <3>2, RequestedStops
  <2>6. StopInv'
    BY <2>3, <2>5 DEF StopInv, Marks
  <2> QED
    BY <2>2, <2>6
<1> QED
  BY <1>6, <1>7, <1>8, <1>9, <1>10

\* A result is handed to a call, which returns.
LEMMA ReturnKeeps ==
  ASSUME BackendInv, NEW c \in Callers, ~Settled, Result.id = c, Returns(c),
         \A r \in Callers : since'[r] = since[r],
         \/ since'["applied"] = since["applied"]
         \/ /\ since'["applied"] = since[c]
            /\ op[c] = "safe:stop" /\ Result.code = "ok"
  PROVE  Chan(settled)' /\ Probe(settled)' /\ CallsInv' /\ StopInv'
<1> DEFINE rest == Tail(settled)
<1>1. /\ settled' = rest /\ UNCHANGED <<out, session, pending, toDevice, toHost>>
      /\ op' = [op EXCEPT ![c] = "idle"]
  BY DEF Returns, fwVars
<1>2. /\ Chan(rest) /\ c \notin Busy(rest) /\ Busy(settled) = Busy(rest) \cup {c}
      /\ \A d : GotOk(rest, d) => GotOk(settled, d)
  BY Handed DEF BackendInv, Result
<1> HIDE DEF rest
<1>3. Chan(settled)' /\ Busy(settled)' = Busy(rest)
  BY <1>1, <1>2 DEF Chan, Busy, Waiting
<1>4. op'[c] = "idle" /\ \A d \in Callers : d # c => op'[d] = op[d]
  BY <1>1 DEF BackendInv, Plain
<1>5. Probe(settled)' /\ CallsInv'
  BY <1>1, <1>2, <1>3, <1>4 DEF BackendInv, Probe, CallsInv
<1>6. Tame(Callers) /\ (Calm => Calm')
  BY <1>1, <1>2 DEF Tame, Calm
<1>7. Quiet("applied")' => Calm
  <2>1. CASE since'["applied"] = since["applied"]
    BY <2>1 DEF Quiet, BackendInv, StopInv
  <2>2. CASE since'["applied"] = since[c] /\ op[c] = "safe:stop" /\ Result.code = "ok"
    <3>1. settled # <<>> /\ settled \in Seq(Results)
      BY DEF BackendInv, Chan, Settled
    <3>2. Result = settled[1] /\ 1 \in 1..Len(settled)
      BY <3>1, Taken DEF Result
    <3>3. GotOk(settled, c)
      BY <2>2, <3>2 DEF GotOk
    <3> QED
      BY <2>2, <3>3 DEF Quiet, BackendInv, StopInv
  <2> QED
    BY <2>1, <2>2
<1>8. \A d \in Callers : op'[d] = "safe:stop" => op[d] = "safe:stop" /\ (Quiet(d)' => Quiet(d))
  BY <1>4 DEF Quiet
<1>9. StopInv'
  BY <1>6, <1>7, <1>8 DEF BackendInv, StopInv, Tame
<1> QED
  BY <1>3, <1>5, <1>9

\* safeState() sends its gpio.stopAll.
LEMMA GoesOnKeeps ==
  ASSUME BackendInv, NEW c \in Callers, SafeStateGoesOn(c)
  PROVE  Chan(settled)' /\ Probe(settled)' /\ CallsInv' /\ StopInv'
<1> DEFINE rest == Tail(settled)
           line == [id |-> c, act |-> "gpio.stopAll"]
           e == [id |-> c, code |-> "disconnected"]
<1>1. /\ Request(c, "gpio.stopAll", rest) /\ op' = [op EXCEPT ![c] = "safe:stop"]
      /\ since' = [since EXCEPT ![c] = @ \ {"gpio.write"}]
      /\ UNCHANGED <<out, session, toHost>>
      /\ ~Settled /\ Result.id = c
  BY DEF SafeStateGoesOn, Got, fwVars
<1>2. c \in Senders /\ c \notin Marks /\ "gpio.stopAll" \in Commands /\ "safe:stop" \in Ops
  BY BackendAssumption DEF Commands, Ops
<1>3. /\ Chan(rest) /\ c \notin Busy(rest) /\ Busy(settled) = Busy(rest) \cup {c}
      /\ \A d : GotOk(rest, d) => GotOk(settled, d)
  BY <1>1, Handed DEF BackendInv, Result
<1> HIDE DEF rest
<1>4. Chan(settled)' /\ Probe(settled)' /\ CallsInv'
  BY <1>1, <1>2, <1>3, CallerWaits
<1>5. Tame(Callers \ {c}) /\ (Calm => Calm')
  BY <1>1, <1>2, <1>3, RequestedTame DEF Tame
<1>6. op'[c] = "safe:stop" /\ \A d \in Callers : d # c => op'[d] = op[d]
  BY <1>1 DEF BackendInv, Plain
<1>7. \A r \in Callers \cup Marks : r # c => since'[r] = since[r]
  BY <1>1 DEF BackendInv, Plain
<1>8. c \notin Names(toDevice) /\ c \notin Names(toHost) /\ c \notin Names(rest)
  BY <1>2, <1>3 DEF Chan, Busy
<1>9. /\ line \in DeviceLines /\ line.id = c /\ line.act = "gpio.stopAll"
      /\ e \in Results /\ e.code # "ok"
      /\ toDevice \in Seq(DeviceLines) /\ rest \in Seq(Results)
  BY <1>2, <1>3 DEF DeviceLines, Ids, Results, Codes, Chan
<1>10. /\ toDevice' = toDevice \/ toDevice' = Append(toDevice, line)
       /\ settled' = rest \/ settled' = Append(rest, e)
  BY <1>1 DEF Request
<1> HIDE DEF line, e
<1>11. StopsOnly(toDevice', c) /\ Clean(toDevice', c)
  <2>1. \A i \in 1..Len(toDevice) : toDevice[i].id # c
    BY <1>8 DEF Names
  <2>2. CASE toDevice' = toDevice
    BY <2>1, <2>2 DEF StopsOnly, Clean
  <2>3. CASE toDevice' = Append(toDevice, line)
    <3>1. /\ \A i \in 1..Len(toDevice) : Append(toDevice, line)[i] = toDevice[i]
          /\ Append(toDevice, line)[Len(toDevice) + 1] = line
          /\ \A i \in 1..Len(Append(toDevice, line)) :
                i \in 1..Len(toDevice) \/ i = Len(toDevice) + 1
      BY <1>9, Appended
    <3>2. Clean(toDevice, c)
      BY <2>1 DEF Clean
    <3>3. Clean(Append(toDevice, line), c)
      BY <1>9, <3>2, AppendedActs
    <3> QED
      BY <1>9, <2>1, <2>3, <3>1, <3>3 DEF StopsOnly
  <2> QED
    BY <1>10, <2>2, <2>3
<1>12. ~GotOk(toHost', c) /\ ~GotOk(settled', c)
  <2>1. ~GotOk(toHost, c) /\ ~GotOk(rest, c)
    BY <1>8 DEF GotOk, Names
  <2>2. GotOk(Append(rest, e), c) => GotOk(rest, c)
    BY <1>9, AppendedOk
  <2> QED
    BY <1>1, <1>10, <2>1, <2>2
<1>13. Quiet("applied")' => Calm
  BY <1>2, <1>7 DEF Quiet, Marks, BackendInv, StopInv
<1>14. ASSUME NEW d \in Callers, d # c, op'[d] = "safe:stop"
       PROVE  /\ StopsOnly(toDevice', d)
              /\ Quiet(d)' => /\ Clean(toDevice', d)
                              /\ GotOk(toHost', d) \/ GotOk(settled', d) => Calm'
  <2>1. op[d] = "safe:stop" /\ (Quiet(d)' => Quiet(d))
    BY <1>6, <1>7, <1>14 DEF Quiet
  <2> QED
    BY <1>5, <1>14, <2>1 DEF BackendInv, StopInv, Tame
<1>15. StopInv'
  BY <1>5, <1>11, <1>12, <1>13, <1>14 DEF StopInv
<1> QED
  BY <1>4, <1>15

\* close() of the backend goes on to close the session.
LEMMA CloseKeeps ==
  ASSUME BackendInv, NEW c \in Callers, CloseReturns(c)
  PROVE  Chan(settled)' /\ Probe(settled)' /\ CallsInv' /\ StopInv'
<1> DEFINE rest == Tail(settled)
<1>1. /\ CloseSession(rest) /\ op' = [op EXCEPT ![c] = "idle"] /\ UNCHANGED <<out, since>>
      /\ ~Settled /\ Result.id = c
  BY DEF CloseReturns, Got, fwVars
<1>2. /\ Chan(rest) /\ c \notin Busy(rest) /\ Busy(settled) = Busy(rest) \cup {c}
      /\ \A d : GotOk(rest, d) => GotOk(settled, d)
  BY <1>1, Handed DEF BackendInv, Result
<1> HIDE DEF rest
<1>3. Chan(settled)' /\ Busy(settled)' = Busy(rest) /\ Tame(Callers)
  BY <1>1, <1>2, Closed
<1>4. session' = session \/ session' = "closed"
  BY <1>1 DEF CloseSession
<1>5. op'[c] = "idle" /\ \A d \in Callers : d # c => op'[d] = op[d]
  BY <1>1 DEF BackendInv, Plain
<1>6. Probe(settled)' /\ CallsInv'
  BY <1>2, <1>3, <1>4, <1>5 DEF BackendInv, Probe, CallsInv
<1>7. StopInv'
  BY <1>1, <1>3, <1>5, TameKeeps DEF BackendInv, Quiet
<1> QED
  BY <1>3, <1>6, <1>7

\* The heartbeat sends a kick or is handed the result of one.
LEMMA KicksKeep ==
  ASSUME BackendInv, NEW k \in Kicks, HeartbeatKicks(k) \/ KickReturns(k)
  PROVE  Chan(settled)' /\ Probe(settled)' /\ CallsInv' /\ StopInv'
<1>1. /\ k \in Senders /\ k # Prober /\ k \notin Callers /\ "watchdog.kick" \in Commands
      /\ Callers \ {k} = Callers
  BY BackendAssumption DEF Commands
<1>2. CASE HeartbeatKicks(k)
  <2>1. /\ Settled /\ k \notin ToSet(pending) /\ Request(k, "watchdog.kick", settled)
        /\ UNCHANGED <<out, session, toHost, op, since>>
    BY <1>2 DEF HeartbeatKicks, fwVars, backendVars
  <2>2. Chan(settled)
    BY DEF BackendInv
  <2>3. k \notin Busy(settled)
    <3>1. k \notin Waiting
      BY <2>1, <2>2, LenProperties DEF ToSet, Waiting, Chan
    <3>2. Names(settled) = {}
      BY <2>1 DEF Settled, Names
    <3> QED
      BY <3>1, <3>2 DEF Busy
  <2>4. Chan(settled)' /\ Busy(settled)' = Busy(settled) \cup {k}
    BY <1>1, <2>1, <2>2, <2>3, Requested
  <2>5. Tame(Callers)
    BY <1>1, <2>1, <2>2, RequestedTame
  <2>6. StopInv'
    BY <2>1, <2>5, TameKeeps DEF BackendInv, Quiet
  <2> QED
    BY <1>1, <2>1, <2>4, <2>6 DEF BackendInv, Probe, CallsInv
<1>3. CASE KickReturns(k)
  <2> DEFINE rest == Tail(settled)
  <2>1. /\ ~Settled /\ Result.id = k /\ settled' = rest
        /\ UNCHANGED <<out, session, pending, toDevice, toHost, op, since>>
    BY <1>3 DEF KickReturns, fwVars
  <2>2. /\ Chan(rest) /\ k \notin Busy(rest) /\ Busy(settled) = Busy(rest) \cup {k}
        /\ \A d : GotOk(rest, d) => GotOk(settled, d)
    BY <2>1, Handed DEF BackendInv, Result
  <2> HIDE DEF rest
  <2>3. Chan(settled)' /\ Busy(settled)' = Busy(rest)
    BY <2>1, <2>2 DEF Chan, Busy, Waiting
  <2>4. Tame(Callers)
    BY <2>1, <2>2 DEF Tame, Calm
  <2>5. StopInv'
    BY <2>1, <2>4, TameKeeps DEF BackendInv, Quiet
  <2> QED
    BY <1>1, <2>1, <2>2, <2>3, <2>5 DEF BackendInv, Probe, CallsInv
<1> QED
  BY <1>2, <1>3

\* A step of the firmware or of the session keeps the types,
LEMMA SessionPlain ==
  ASSUME Plain, Chan(settled), Probe(settled), SessionStep, UNCHANGED backendVars
  PROVE  Plain'
<1> USE TimeoutAssumption, SessionAssumption DEF Plain, backendVars
<1>1. ASSUME NEW act, NEW code, Handles(act, code)
      PROVE  fw' \in {"disarmed", "armed", "tripped"} /\ left' \in 0..Timeout
  BY <1>1 DEF Handles, Arm, Disarm, Kick, Write, StopAll, fwVars
<1>2. CASE DeviceHandles
  <2>1. fw' \in {"disarmed", "armed", "tripped"} /\ left' \in 0..Timeout
    BY <1>1, <1>2 DEF DeviceHandles
  <2> QED
    BY <1>2, <2>1 DEF DeviceHandles
<1>3. CASE WatchdogRuns \/ WatchdogTrips \/ DeviceResets
  BY <1>3 DEF WatchdogRuns, WatchdogTrips, DeviceResets, Elapse, Trip, Boot, sessionVars
<1>4. CASE Open \/ ListenTimeout \/ ReadyHeard
  BY <1>4 DEF Open, ListenTimeout, ReadyHeard, SendHello, fwVars
<1>5. CASE ProbeReturns
  <2>1. UNCHANGED <<fw, left, faults>>
    BY <1>5 DEF ProbeReturns, fwVars
  <2>2. CASE session' = "connected" /\ UNCHANGED attempts
    BY <1>5, <2>1, <2>2 DEF ProbeReturns
  <2>3. CASE attempts < MaxAttempts /\ SendHello(Tail(settled)) /\ UNCHANGED session
    <3>1. attempts' = attempts + 1
      BY <2>3 DEF SendHello
    <3>2. session \notin {"new", "listening"}
      BY <1>5, Handed DEF ProbeReturns, Probe
    <3> QED
      BY <2>1, <2>3, <3>1, <3>2
  <2>4. CASE CloseSession(Tail(settled)) /\ UNCHANGED attempts
    <3>1. session' = "closed"
      BY <2>4 DEF CloseSession
    <3> QED
      BY <2>1, <2>4, <3>1
  <2> QED
    BY <1>5, <2>2, <2>3, <2>4 DEF ProbeReturns
<1>6. CASE Answered \/ TransportEnds \/ LineLost
  BY <1>6 DEF Answered, TransportEnds, LineLost, fwVars
<1>7. ASSUME NEW s \in Senders, RequestTimeout(s) PROVE Plain'
  BY <1>7 DEF RequestTimeout, fwVars
<1> QED
  BY <1>2, <1>3, <1>4, <1>5, <1>6, <1>7 DEF SessionStep

\* and so does a step of the backend.
LEMMA BackendPlain ==
  ASSUME Plain, BackendStep
  PROVE  Plain'
<1> USE DEF Plain
<1>1. ASSUME NEW act \in Watched PROVE Noted(act) \in [Callers \cup Marks -> SUBSET Watched]
  BY <1>1 DEF Noted
<1>2. ASSUME NEW c \in Callers, CallArm(c) \/ CallWrite(c) \/ CallDisarm(c) \/ CallSafeState(c)
      PROVE  Plain'
  <2>1. since' \in [Callers \cup Marks -> SUBSET Watched]
    <3>1. {"sys.arm", "sys.disarm", "gpio.write"} = Watched
      BY DEF Watched
    <3> QED
      BY <1>1, <1>2, <3>1 DEF CallArm, CallWrite, CallDisarm, CallSafeState
  <2>2. calls' \in 0..MaxCalls /\ UNCHANGED <<fw, left, session, attempts, faults, belief>>
    BY <1>2, BackendAssumption
       DEF CallArm, CallWrite, CallDisarm, CallSafeState, Starts, Sends, fwVars
  <2>3. op' \in [Callers -> Ops]
    BY <1>2 DEF CallArm, CallWrite, CallDisarm, CallSafeState, Sends, Ops
  <2> QED
    BY <2>1, <2>2, <2>3
<1>3. ASSUME NEW c \in Callers, CallClose(c) PROVE Plain'
  <2>1. since' \in [Callers \cup Marks -> SUBSET Watched]
    <3>1. "sys.disarm" \in Watched
      BY DEF Watched
    <3> QED
      BY <1>1, <1>3, <3>1 DEF CallClose
  <2>2. /\ calls' \in 0..MaxCalls /\ UNCHANGED <<fw, left, attempts, faults, belief>>
        /\ session' = session \/ session' = "closed"
    BY <1>3, BackendAssumption DEF CallClose, Starts, Sends, CloseSession, fwVars
  <2>3. op' \in [Callers -> Ops]
    BY <1>3 DEF CallClose, Sends, Ops
  <2> QED
    BY <2>1, <2>2, <2>3
<1>4. ASSUME NEW c \in Callers, ArmReturns(c) \/ DisarmReturns(c) \/ WriteReturns(c)
      PROVE  Plain'
  <2>1. /\ UNCHANGED <<fw, left, session, attempts, faults, calls>>
        /\ belief' \in {"disarmed", "armed", "tripped"}
        /\ op' \in [Callers -> Ops]
    BY <1>4 DEF ArmReturns, DisarmReturns, WriteReturns, Returns, Ops, fwVars
  <2>2. since' \in [Callers \cup Marks -> SUBSET Watched]
    BY <1>4 DEF ArmReturns, DisarmReturns, WriteReturns
  <2> QED
    BY <2>1, <2>2
<1>5. ASSUME NEW c \in Callers, SafeStateGoesOn(c) \/ SafeStateReturns(c) PROVE Plain'
  <2>1. /\ UNCHANGED <<fw, left, session, attempts, faults, calls>>
        /\ belief' \in {"disarmed", "armed", "tripped"}
        /\ op' \in [Callers -> Ops]
    BY <1>5 DEF SafeStateGoesOn, SafeStateReturns, Returns, Ops, fwVars
  <2>2. since' \in [Callers \cup Marks -> SUBSET Watched]
    BY <1>5 DEF SafeStateGoesOn, SafeStateReturns
  <2> QED
    BY <2>1, <2>2
<1>6. ASSUME NEW c \in Callers, CloseReturns(c) PROVE Plain'
  <2>1. /\ UNCHANGED <<fw, left, attempts, faults, calls, since>>
        /\ session' = session \/ session' = "closed"
        /\ belief' \in {"disarmed", "armed", "tripped"}
        /\ op' \in [Callers -> Ops]
    BY <1>6 DEF CloseReturns, CloseSession, Ops, fwVars
  <2> QED
    BY <2>1
<1>7. ASSUME NEW k \in Kicks, HeartbeatKicks(k) \/ KickReturns(k) PROVE Plain'
  BY <1>7 DEF HeartbeatKicks, KickReturns, fwVars, backendVars
<1>8. CASE HeartbeatStops \/ TripHeard
  BY <1>8 DEF HeartbeatStops, TripHeard, fwVars, sessionVars
<1> QED
  BY <1>2, <1>3, <1>4, <1>5, <1>6, <1>7, <1>8 DEF BackendStep

\* The Boolean variables stay Boolean.
LEMMA FlagsKept == Flags /\ [BackendNext]_vars => Flags'
<1> SUFFICES ASSUME Flags, [BackendNext]_vars PROVE Flags'
  OBVIOUS
<1> USE DEF Flags
<1>1. ASSUME SessionStep, UNCHANGED backendVars PROVE Flags'
  <2>1. ASSUME NEW act, NEW code, Handles(act, code) PROVE out' \in BOOLEAN
    BY <2>1, Zenon DEF Handles, Arm, Disarm, Kick, Write, StopAll, fwVars
  <2>2. CASE DeviceHandles
    BY <1>1, <2>1, <2>2, Zenon DEF DeviceHandles, backendVars
  <2>3. CASE WatchdogRuns \/ WatchdogTrips \/ DeviceResets
    BY <1>1, <2>3, Zenon DEF WatchdogRuns, WatchdogTrips, DeviceResets, Elapse, Trip, Boot,
                             sessionVars, backendVars
  <2>4. CASE Open \/ ListenTimeout \/ ReadyHeard \/ Answered \/ TransportEnds \/ LineLost
    BY <1>1, <2>4, Zenon DEF Open, ListenTimeout, ReadyHeard, Answered, TransportEnds, LineLost,
                             fwVars, backendVars
  <2>5. CASE ProbeReturns
    BY <1>1, <2>5, Zenon DEF ProbeReturns, CloseSession, fwVars, backendVars
  <2>6. ASSUME NEW s \in Senders, RequestTimeout(s) PROVE Flags'
    BY <1>1, <2>6, Zenon DEF RequestTimeout, fwVars, backendVars
  <2> QED
    BY <1>1, <2>2, <2>3, <2>4, <2>5, <2>6, Zenon DEF SessionStep
<1>2. ASSUME NEW c \in Callers, CallArm(c) \/ CallWrite(c) \/ CallDisarm(c) \/ CallSafeState(c)
      PROVE  Flags'
  BY <1>2, Zenon DEF CallArm, CallWrite, CallDisarm, CallSafeState, Starts, Sends, fwVars
<1>3. ASSUME NEW c \in Callers, CallClose(c) \/ CloseReturns(c) PROVE Flags'
  BY <1>3, Zenon DEF CallClose, CloseReturns, Starts, Sends, CloseSession, fwVars
<1>4. ASSUME NEW c \in Callers,
             ArmReturns(c) \/ DisarmReturns(c) \/ WriteReturns(c) \/ SafeStateReturns(c)
      PROVE  Flags'
  BY <1>4, Zenon DEF ArmReturns, DisarmReturns, WriteReturns, SafeStateReturns, Returns, fwVars
<1>5. ASSUME NEW c \in Callers, SafeStateGoesOn(c) PROVE Flags'
  BY <1>5, Zenon DEF SafeStateGoesOn, fwVars
<1>6. ASSUME NEW k \in Kicks, HeartbeatKicks(k) \/ KickReturns(k) PROVE Flags'
  BY <1>6, Zenon DEF HeartbeatKicks, KickReturns, fwVars, backendVars
<1>7. CASE HeartbeatStops \/ TripHeard
  BY <1>7, Zenon DEF HeartbeatStops, TripHeard, fwVars, sessionVars
<1>8. CASE UNCHANGED vars
  BY <1>8, Zenon DEF vars, fwVars, sessionVars, backendVars
<1>9. CASE BackendStep
  BY <1>2, <1>3, <1>4, <1>5, <1>6, <1>7, <1>9, Zenon DEF BackendStep
<1> QED
  BY <1>1, <1>8, <1>9, Zenon DEF BackendNext

\* The invariant is kept.
LEMMA InvKept == BackendInv /\ [BackendNext]_vars => BackendInv'
<1> SUFFICES ASSUME BackendInv, [BackendNext]_vars PROVE BackendInv'
  OBVIOUS
<1> DEFINE Kept == Chan(settled)' /\ Probe(settled)' /\ CallsInv' /\ StopInv'
<1>1. Plain'
  <2>1. CASE UNCHANGED vars
    BY <2>1 DEF BackendInv, Plain, vars, fwVars, sessionVars, backendVars
  <2> QED
    BY <2>1, SessionPlain, BackendPlain DEF BackendInv, BackendNext
<1> SUFFICES Kept
  BY <1>1, FlagsKept DEF BackendInv
<1>2. ASSUME NEW c \in Callers,
             ArmReturns(c) \/ DisarmReturns(c) \/ WriteReturns(c) \/ SafeStateReturns(c)
      PROVE  Kept
  <2>1. "applied" # "armed" /\ c \notin Marks
    BY BackendAssumption
  <2>2. ~Settled /\ Result.id = c /\ Returns(c)
    BY <1>2 DEF ArmReturns, DisarmReturns, WriteReturns, SafeStateReturns, Got
  <2>3. CASE SafeStateReturns(c)
    <3>1. op[c] = "safe:stop"
      BY <2>3 DEF SafeStateReturns, Got
    <3>2. CASE Result.code = "ok"
      <4>1. /\ \A r \in Callers : since'[r] = since[r]
            /\ since'["applied"] = since[c]
        BY <2>3, <3>2, BackendAssumption DEF SafeStateReturns, BackendInv, Plain, Marks
      <4> QED
        BY <2>2, <3>1, <3>2, <4>1, ReturnKeeps
    <3>3. CASE Result.code # "ok"
      <4>1. since' = since
        BY <2>3, <3>3 DEF SafeStateReturns
      <4> QED
        BY <2>2, <4>1, ReturnKeeps
    <3> QED
      BY <3>2, <3>3
  <2>4. CASE ArmReturns(c) \/ DisarmReturns(c) \/ WriteReturns(c)
    <3>1. /\ \A r \in Callers : since'[r] = since[r]
          /\ since'["applied"] = since["applied"]
      BY <2>4, BackendAssumption
         DEF ArmReturns, DisarmReturns, WriteReturns, BackendInv, Plain, Marks
    <3> QED
      BY <2>2, <3>1, ReturnKeeps
  <2> QED
    BY <1>2, <2>3, <2>4
<1>3. CASE HeartbeatStops \/ TripHeard
  <2>1. /\ UNCHANGED <<session, pending, settled, out, op, since, toDevice>>
        /\ HostReads
    BY <1>3 DEF HeartbeatStops, TripHeard, fwVars, sessionVars, HostReads
  <2>2. Chan(settled)' /\ Busy(settled)' = Busy(settled) /\ Tame(Callers)
    BY <2>1, Lost DEF BackendInv
  <2>3. StopInv'
    BY <2>1, <2>2, TameKeeps DEF BackendInv, Quiet
  <2> QED
    BY <2>1, <2>2, <2>3 DEF BackendInv, Probe, CallsInv
<1>4. CASE SessionStep /\ UNCHANGED backendVars
  <2>1. CASE DeviceHandles
    <3>1. Chan(settled)' /\ Busy(settled)' = Busy(settled) /\ StopInv'
      BY <1>4, <2>1, HandlesKeeps
    <3> QED
      BY <1>4, <2>1, <3>1 DEF DeviceHandles, BackendInv, Probe, CallsInv, backendVars
  <2>2. CASE ~DeviceHandles
    <3>1. /\ Chan(settled)' /\ Probe(settled)' /\ Tame(Callers)
          /\ \A c \in Callers : c \in Busy(settled)' <=> c \in Busy(settled)
      BY <1>4, <2>2, SessionKeeps DEF BackendInv
    <3>2. StopInv'
      BY <1>4, <3>1, TameKeeps DEF BackendInv, Quiet, backendVars
    <3> QED
      BY <1>4, <3>1, <3>2 DEF BackendInv, CallsInv, backendVars
  <2> QED
    BY <2>1, <2>2
<1>5. CASE UNCHANGED vars
  BY <1>5 DEF vars, fwVars, sessionVars, backendVars, BackendInv, Chan, Probe, CallsInv,
              StopInv, Busy, Waiting, Quiet, Calm
<1>6. CASE BackendStep
  BY <1>2, <1>3, <1>6, StartKeeps, GoesOnKeeps, CloseKeeps, KicksKeep DEF BackendStep
<1> QED
  BY <1>4, <1>5, <1>6 DEF BackendNext

\* The invariant holds at the start
LEMMA InvStarts == BackendInit => BackendInv
<1> SUFFICES ASSUME BackendInit PROVE BackendInv
  OBVIOUS
<1>1. Plain
  <2>1. op \in [Callers -> Ops] /\ since \in [Callers \cup Marks -> SUBSET Watched]
    BY DEF BackendInit, Ops
  <2> QED
    BY <2>1, TimeoutAssumption, SessionAssumption, BackendAssumption
       DEF BackendInit, SessionInit, FwInit, Plain
<1>2. Flags
  BY Zenon DEF BackendInit, SessionInit, FwInit, Flags
<1>3. pending = <<>> /\ settled = <<>> /\ toDevice = <<>> /\ toHost = <<>>
  BY DEF BackendInit, SessionInit
<1>4. Waiting = {} /\ Names(settled) = {} /\ Names(toDevice) = {} /\ Names(toHost) = {}
  BY <1>3 DEF Waiting, Names
<1>5. Chan(settled) /\ Probe(settled)
  BY <1>3, <1>4 DEF Chan, Probe, Busy, Distinct, OwnIds
<1>6. CallsInv
  BY <1>4 DEF BackendInit, CallsInv, Busy
<1>7. StopInv
  <2>1. "applied" \in Callers \cup Marks /\ "gpio.write" \in Watched
    BY DEF Marks, Watched
  <2> QED
    BY <2>1 DEF BackendInit, StopInv, Quiet
<1> QED
  BY <1>1, <1>2, <1>5, <1>6, <1>7 DEF BackendInv

\* and throughout.
LEMMA InvHolds == BackendSpec => []BackendInv
  BY InvStarts, InvKept, PTL DEF BackendSpec

-----------------------------------------------------------------------------
\* The backend, the session and the firmware keep their types.
THEOREM BackendTypeCorrect == BackendSpec => []BackendTypeOK
  BY InvHolds, TypesOfInv, PTL

\* Session.request(): every call in flight waits for exactly one answer or
\* result, and no promise is left over for a call that returned: however many
\* lines are lost or late, and whenever the transport or the session ends.
THEOREM NoAnswerIsLost == BackendSpec => []EveryWaitIsAnswered
<1>1. BackendInv => EveryWaitIsAnswered
  <2> SUFFICES ASSUME BackendInv, NEW c \in Callers
               PROVE  Cardinality({i \in DOMAIN pending : pending[i] = c})
                        + Cardinality({i \in DOMAIN settled : settled[i].id = c})
                        = IF op[c] = "idle" THEN 0 ELSE 1
    BY DEF EveryWaitIsAnswered
  <2> DEFINE P == {i \in DOMAIN pending : pending[i] = c}
             R == {i \in DOMAIN settled : settled[i].id = c}
  <2>1. /\ pending \in Seq(Senders) /\ settled \in Seq(Results)
        /\ Distinct(pending) /\ OwnIds(settled) /\ Waiting \cap Names(settled) = {}
        /\ c \in Senders /\ (op[c] = "idle" <=> c \notin Busy(settled))
    BY BackendAssumption DEF BackendInv, Chan, CallsInv
  <2>2. DOMAIN pending = 1..Len(pending) /\ DOMAIN settled = 1..Len(settled)
    BY <2>1, LenProperties
  <2>3. c \notin Waiting => P = {}
    BY <2>2 DEF Waiting
  <2>4. c \in Waiting => \E i : P = {i}
    <3> SUFFICES ASSUME c \in Waiting PROVE \E i : P = {i}
      OBVIOUS
    <3>1. PICK i \in 1..Len(pending) : pending[i] = c
      BY DEF Waiting
    <3>2. P = {i}
      BY <2>1, <2>2, <3>1 DEF Distinct
    <3> QED
      BY <3>2
  <2>5. c \notin Names(settled) => R = {}
    BY <2>2 DEF Names
  <2>6. c \in Names(settled) => \E i : R = {i}
    <3> SUFFICES ASSUME c \in Names(settled) PROVE \E i : R = {i}
      OBVIOUS
    <3>1. PICK i \in 1..Len(settled) : settled[i].id = c
      BY DEF Names
    <3>2. R = {i}
      BY <2>1, <2>2, <3>1 DEF OwnIds
    <3> QED
      BY <3>2
  <2> HIDE DEF P, R
  <2>7. Cardinality(P) = IF c \in Waiting THEN 1 ELSE 0
    BY <2>3, <2>4, FS_EmptySet, FS_Singleton
  <2>8. Cardinality(R) = IF c \in Names(settled) THEN 1 ELSE 0
    BY <2>5, <2>6, FS_EmptySet, FS_Singleton
  <2>9. Cardinality(P) + Cardinality(R) = IF op[c] = "idle" THEN 0 ELSE 1
    BY <2>1, <2>7, <2>8 DEF Busy
  <2> QED
    BY <2>9 DEF P, R
<1> QED
  BY <1>1, InvHolds, PTL

\* safeState() of ProtocolDeviceBackend: once it reports applied: TRUE no output
\* is driven until something is written, although its disarm may have been lost
\* and other calls overlap with it.
THEOREM AppliedMeansStopped == BackendSpec => []SafeStateStopsOutputs
<1>1. BackendInv => SafeStateStopsOutputs
  BY DEF BackendInv, StopInv, Quiet, Calm, SafeStateStopsOutputs
<1> QED
  BY <1>1, InvHolds, PTL

\* checkActuationPrerequisites(), tripWatchdog() and the disarm of the firmware:
\* only an armed device drives an output, whatever line reaches it when.
THEOREM OutputsAreArmed == BackendSpec => []OutputsNeedArming
<1>1. BackendInit => OutputsNeedArming
  BY DEF BackendInit, SessionInit, FwInit, OutputsNeedArming
<1>2. OutputsNeedArming /\ [BackendNext]_vars => OutputsNeedArming'
  <2> SUFFICES ASSUME OutputsNeedArming, [BackendNext]_vars PROVE OutputsNeedArming'
    OBVIOUS
  <2>1. CASE UNCHANGED fwVars
    BY <2>1 DEF OutputsNeedArming, fwVars
  <2>2. CASE DeviceHandles
    BY <2>2 DEF DeviceHandles, Handles, Arm, Disarm, Kick, Write, StopAll, fwVars,
                OutputsNeedArming
  <2>3. CASE WatchdogRuns \/ WatchdogTrips \/ DeviceResets
    BY <2>3 DEF WatchdogRuns, WatchdogTrips, DeviceResets, Elapse, Trip, Boot,
                OutputsNeedArming
  <2>4. SessionStep => UNCHANGED fwVars \/ DeviceHandles \/ WatchdogRuns \/ WatchdogTrips \/ DeviceResets
    BY DEF SessionStep, Open, ListenTimeout, ProbeReturns, Answered, ReadyHeard,
           TransportEnds, RequestTimeout, LineLost
  <2>5. BackendStep => UNCHANGED fwVars
    BY DEF BackendStep, CallArm, CallWrite, CallDisarm, CallSafeState, CallClose, Starts,
           ArmReturns, DisarmReturns, WriteReturns, SafeStateGoesOn, SafeStateReturns,
           CloseReturns, Returns, HeartbeatKicks, KickReturns, HeartbeatStops, TripHeard
  <2>6. UNCHANGED vars => UNCHANGED fwVars
    BY DEF vars
  <2> QED
    BY <2>1, <2>2, <2>3, <2>4, <2>5, <2>6 DEF BackendNext
<1> QED
  BY <1>1, <1>2, PTL DEF BackendSpec

-----------------------------------------------------------------------------
(* What a kick refused, or a trip reported, tells of the device *)

NoArm(q) == \A j \in 1..Len(q) : q[j].act # "sys.arm"
ArmsOnly(q, c) == \A i \in 1..Len(q) : q[i].id = c => q[i].act = "sys.arm"
LastArm(q, c) == \A i, j \in 1..Len(q) : q[i].id = c /\ i < j => q[j].act # "sys.arm"

\* A message that says the device is not armed, or was not when it was sent.
Refusing(m) ==
  \/ m.id \in Kicks /\ m.code \in DeviceErrors
  \/ m.id = Broadcast /\ m.code = "device.tripped"
Refused(q) == \E i \in 1..Len(q) : Refusing(q[i])
RefusedAfter(q, c) ==
  \E i, j \in 1..Len(q) : i < j /\ q[i].id = c /\ q[i].code = "ok" /\ Refusing(q[j])

\* c's acknowledgement is on its way, and a refusal behind it.
Acked(c) == GotOk(settled, c) \/ GotOk(toHost, c)
AnyRefused == Refused(settled) \/ Refused(toHost)
Late(c) ==
  \/ RefusedAfter(settled, c) \/ RefusedAfter(toHost, c)
  \/ GotOk(settled, c) /\ Refused(toHost)

\* No sys.arm but its own was sent since what r marks.
Alone(r) == "sys.arm" \notin since[r]

\* Messages arrive in the order they were sent: what says that the device is not
\* armed, behind the acknowledgement of the only sys.arm there was, is still true.
ArmInv ==
  /\ Alone("armed") => NoArm(toDevice) /\ (AnyRefused => fw # "armed")
  /\ \A c \in Callers : op[c] = "arm" =>
        /\ ArmsOnly(toDevice, c)
        /\ Alone(c) => /\ LastArm(toDevice, c)
                       /\ Acked(c) => NoArm(toDevice)
                       /\ Late(c) => fw # "armed"

\* p is a part of q in one piece, some of its messages nobody's.
ThinLines(p, q) ==
  \E d \in Nat : \A i \in 1..Len(p) :
    /\ i + d \in 1..Len(q)
    /\ p[i].id \in {q[i + d].id, Nobody} /\ p[i].act = q[i + d].act
ThinAnswers(p, q) ==
  \E d \in Nat : \A i \in 1..Len(p) :
    /\ i + d \in 1..Len(q)
    /\ p[i].id \in {q[i + d].id, Nobody} /\ p[i].code = q[i + d].code

\* No sys.arm more, and no promise of a caller of C less;
LinesLess(p, q, C) ==
  /\ NoArm(q) => NoArm(p)
  /\ \A c \in C : /\ ArmsOnly(q, c) => ArmsOnly(p, c)
                  /\ LastArm(q, c) => LastArm(p, c)
\* no refusal more, and no acknowledgement.
AnswersLess(p, q) ==
  /\ Refused(p) => Refused(q)
  /\ \A c \in Callers : /\ GotOk(p, c) => GotOk(q, c)
                        /\ RefusedAfter(p, c) => RefusedAfter(q, c)

\* What is a part of a channel says no more than the channel.
LEMMA LinesThinned ==
  ASSUME NEW p, NEW q, ThinLines(p, q)
  PROVE  LinesLess(p, q, Callers)
<1>1. PICK d \in Nat : \A i \in 1..Len(p) :
         /\ i + d \in 1..Len(q)
         /\ p[i].id \in {q[i + d].id, Nobody} /\ p[i].act = q[i + d].act
  BY DEF ThinLines
<1>2. \A c \in Callers : c # Nobody
  BY SessionAssumption, BackendAssumption
<1>3. NoArm(q) => NoArm(p)
  BY <1>1 DEF NoArm
<1>4. ASSUME NEW c \in Callers
      PROVE  /\ ArmsOnly(q, c) => ArmsOnly(p, c)
             /\ LastArm(q, c) => LastArm(p, c)
  <2>1. ArmsOnly(q, c) => ArmsOnly(p, c)
    BY <1>1, <1>2 DEF ArmsOnly
  <2>2. ASSUME LastArm(q, c), NEW i \in 1..Len(p), NEW j \in 1..Len(p), p[i].id = c, i < j
        PROVE  p[j].act # "sys.arm"
    <3>1. i + d < j + d /\ q[i + d].id = c
      BY <1>1, <1>2, <2>2
    <3> QED
      BY <1>1, <2>2, <3>1 DEF LastArm
  <2> QED
    BY <2>1, <2>2 DEF LastArm
<1> QED
  BY <1>3, <1>4 DEF LinesLess

\* Nor do the answers.
LEMMA AnswersThinned ==
  ASSUME NEW p, NEW q, ThinAnswers(p, q)
  PROVE  AnswersLess(p, q)
<1>1. PICK d \in Nat : \A i \in 1..Len(p) :
         /\ i + d \in 1..Len(q)
         /\ p[i].id \in {q[i + d].id, Nobody} /\ p[i].code = q[i + d].code
  BY DEF ThinAnswers
<1>2. Nobody \notin Callers /\ Nobody \notin Kicks /\ Nobody # Broadcast
  BY SessionAssumption, BackendAssumption
<1>3. \A i \in 1..Len(p) : Refusing(p[i]) => Refusing(q[i + d])
  BY <1>1, <1>2 DEF Refusing
<1>4. Refused(p) => Refused(q)
  BY <1>1, <1>3 DEF Refused
<1>5. ASSUME NEW c \in Callers
      PROVE  /\ GotOk(p, c) => GotOk(q, c)
             /\ RefusedAfter(p, c) => RefusedAfter(q, c)
  <2>1. GotOk(p, c) => GotOk(q, c)
    BY <1>1, <1>2 DEF GotOk
  <2>2. ASSUME NEW i \in 1..Len(p), NEW j \in 1..Len(p),
               i < j, p[i].id = c, p[i].code = "ok", Refusing(p[j])
        PROVE  RefusedAfter(q, c)
    <3>1. i + d < j + d /\ q[i + d].id = c /\ q[i + d].code = "ok" /\ Refusing(q[j + d])
      BY <1>1, <1>2, <1>3, <2>2
    <3> QED
      BY <1>1, <3>1 DEF RefusedAfter
  <2> QED
    BY <2>1, <2>2 DEF RefusedAfter
<1> QED
  BY <1>4, <1>5 DEF AnswersLess

\* The parts of a channel: itself, nothing, what is left of it,
LEMMA PartsOf ==
  ASSUME NEW S, NEW q \in Seq(S)
  PROVE  /\ ThinLines(q, q) /\ ThinAnswers(q, q)
         /\ ThinLines(<<>>, q) /\ ThinAnswers(<<>>, q)
         /\ q # <<>> => ThinLines(Tail(q), q) /\ ThinAnswers(Tail(q), q)
<1>1. Len(q) \in Nat /\ \A i \in 1..Len(q) : i + 0 = i
  BY LenProperties
<1>2. ThinLines(q, q) /\ ThinAnswers(q, q)
  BY <1>1 DEF ThinLines, ThinAnswers
<1>3. ThinLines(<<>>, q) /\ ThinAnswers(<<>>, q)
  BY DEF ThinLines, ThinAnswers
<1>4. q # <<>> => ThinLines(Tail(q), q) /\ ThinAnswers(Tail(q), q)
  BY Taken DEF ThinLines, ThinAnswers
<1> QED
  BY <1>2, <1>3, <1>4

\* what nobody waits for any more,
LEMMA DisownedParts ==
  ASSUME NEW s \in Senders
  PROVE  /\ \A q \in Seq(DeviceLines) : ThinLines(Disown(q, s), q)
         /\ \A q \in Seq(HostLines) : ThinAnswers(Disown(q, s), q)
<1>1. ASSUME NEW q, NEW i \in 1..Len(Disown(q, s)), Len(q) \in Nat
      PROVE  /\ i \in 1..Len(q) /\ i + 0 = i
             /\ \/ Disown(q, s)[i] = q[i]
                \/ Disown(q, s)[i] = [q[i] EXCEPT !.id = Nobody]
  BY <1>1 DEF Disown
<1>2. ASSUME NEW q \in Seq(DeviceLines) PROVE ThinLines(Disown(q, s), q)
  <2>1. Len(q) \in Nat /\ \A i \in 1..Len(q) : q[i] \in DeviceLines
    BY LenProperties, ElementOfSeq
  <2>2. \A m \in DeviceLines : /\ [m EXCEPT !.id = Nobody].id = Nobody
                               /\ [m EXCEPT !.id = Nobody].act = m.act
    BY DEF DeviceLines
  <2>3. ASSUME NEW i \in 1..Len(Disown(q, s))
        PROVE  /\ i + 0 \in 1..Len(q)
               /\ Disown(q, s)[i].id \in {q[i + 0].id, Nobody}
               /\ Disown(q, s)[i].act = q[i + 0].act
    <3>1. /\ i \in 1..Len(q) /\ i + 0 = i
          /\ \/ Disown(q, s)[i] = q[i]
             \/ Disown(q, s)[i] = [q[i] EXCEPT !.id = Nobody]
      BY <1>1, <2>1
    <3>2. /\ [q[i] EXCEPT !.id = Nobody].id = Nobody
          /\ [q[i] EXCEPT !.id = Nobody].act = q[i].act
      BY <2>1, <2>2, <3>1
    <3> QED
      BY <3>1, <3>2
  <2> QED
    BY <2>3 DEF ThinLines
<1>3. ASSUME NEW q \in Seq(HostLines) PROVE ThinAnswers(Disown(q, s), q)
  <2>1. Len(q) \in Nat /\ \A i \in 1..Len(q) : q[i] \in HostLines
    BY LenProperties, ElementOfSeq
  <2>2. \A m \in HostLines : /\ [m EXCEPT !.id = Nobody].id = Nobody
                             /\ [m EXCEPT !.id = Nobody].code = m.code
    BY DEF HostLines
  <2>3. ASSUME NEW i \in 1..Len(Disown(q, s))
        PROVE  /\ i + 0 \in 1..Len(q)
               /\ Disown(q, s)[i].id \in {q[i + 0].id, Nobody}
               /\ Disown(q, s)[i].code = q[i + 0].code
    <3>1. /\ i \in 1..Len(q) /\ i + 0 = i
          /\ \/ Disown(q, s)[i] = q[i]
             \/ Disown(q, s)[i] = [q[i] EXCEPT !.id = Nobody]
      BY <1>1, <2>1
    <3>2. /\ [q[i] EXCEPT !.id = Nobody].id = Nobody
          /\ [q[i] EXCEPT !.id = Nobody].code = q[i].code
      BY <2>1, <2>2, <3>1
    <3> QED
      BY <3>1, <3>2
  <2> QED
    BY <2>3 DEF ThinAnswers
<1> QED
  BY <1>2, <1>3

\* and what the device still receives.
LEMMA DrainedParts ==
  ASSUME toDevice \in Seq(DeviceLines), NEW n \in 0..Len(toDevice)
  PROVE  ThinLines(Drained(n), toDevice)
<1>1. Len(toDevice) \in Nat /\ \A i \in 1..Len(toDevice) : toDevice[i] \in DeviceLines
  BY LenProperties, ElementOfSeq
<1>2. Len(Drained(n)) = n
  BY <1>1 DEF Drained
<1>3. ASSUME NEW i \in 1..n
      PROVE  /\ i + 0 \in 1..Len(toDevice) /\ i + 0 = i
             /\ Drained(n)[i].id = Nobody /\ Drained(n)[i].act = toDevice[i].act
  <2>1. Drained(n)[i] = [toDevice[i] EXCEPT !.id = Nobody]
    BY <1>1 DEF Drained
  <2> QED
    BY <1>1, <2>1 DEF DeviceLines
<1> QED
  BY <1>2, <1>3 DEF ThinLines

\* One more line,
LEMMA LineAppended ==
  ASSUME NEW S, NEW q \in Seq(S), NEW e \in S, NEW c
  PROVE  /\ e.act # "sys.arm" /\ NoArm(q) => NoArm(Append(q, e))
         /\ (e.id # c \/ e.act = "sys.arm") /\ ArmsOnly(q, c) => ArmsOnly(Append(q, e), c)
         /\ e.act # "sys.arm" /\ LastArm(q, c) => LastArm(Append(q, e), c)
         /\ c \notin Names(q) => LastArm(Append(q, e), c)
<1> DEFINE p == Append(q, e)
<1>1. /\ Len(q) \in Nat
      /\ \A i \in 1..Len(q) : p[i] = q[i]
      /\ p[Len(q) + 1] = e
      /\ \A i \in 1..Len(p) : i \in 1..Len(q) \/ i = Len(q) + 1
  BY Appended
<1> HIDE DEF p
<1>2. e.act # "sys.arm" /\ NoArm(q) => NoArm(p)
  BY <1>1 DEF NoArm
<1>3. (e.id # c \/ e.act = "sys.arm") /\ ArmsOnly(q, c) => ArmsOnly(p, c)
  BY <1>1 DEF ArmsOnly
<1>4. ASSUME NEW i \in 1..Len(p), NEW j \in 1..Len(p), p[i].id = c, i < j,
             \/ e.act # "sys.arm" /\ LastArm(q, c)
             \/ c \notin Names(q)
      PROVE  p[j].act # "sys.arm"
  <2>1. i \in 1..Len(q)
    BY <1>1, <1>4
  <2>2. q[i].id = c /\ c \in Names(q)
    BY <1>1, <1>4, <2>1 DEF Names
  <2>3. CASE j = Len(q) + 1
    BY <1>1, <1>4, <2>2, <2>3
  <2>4. CASE j \in 1..Len(q)
    BY <1>1, <1>4, <2>1, <2>2, <2>4 DEF LastArm
  <2> QED
    BY <1>1, <2>3, <2>4
<1>5. /\ e.act # "sys.arm" /\ LastArm(q, c) => LastArm(p, c)
      /\ c \notin Names(q) => LastArm(p, c)
  BY <1>4 DEF LastArm
<1> QED
  BY <1>2, <1>3, <1>5 DEF p

\* and one more answer.
LEMMA AnswerAppended ==
  ASSUME NEW S, NEW q \in Seq(S), NEW e \in S, NEW c
  PROVE  /\ Refused(Append(q, e)) => Refused(q) \/ Refusing(e)
         /\ GotOk(Append(q, e), c) => GotOk(q, c) \/ (e.id = c /\ e.code = "ok")
         /\ RefusedAfter(Append(q, e), c) => \/ RefusedAfter(q, c)
                                             \/ GotOk(q, c) /\ Refusing(e)
<1> DEFINE p == Append(q, e)
<1>1. /\ Len(q) \in Nat
      /\ \A i \in 1..Len(q) : p[i] = q[i]
      /\ p[Len(q) + 1] = e
      /\ \A i \in 1..Len(p) : i \in 1..Len(q) \/ i = Len(q) + 1
  BY Appended
<1> HIDE DEF p
<1>2. Refused(p) => Refused(q) \/ Refusing(e)
  <2> SUFFICES ASSUME NEW i \in 1..Len(p), Refusing(p[i]) PROVE Refused(q) \/ Refusing(e)
    BY DEF Refused
  <2>1. CASE i \in 1..Len(q)
    <3>1. Refusing(q[i])
      BY <1>1, <2>1
    <3> QED
      BY <2>1, <3>1 DEF Refused
  <2>2. CASE i = Len(q) + 1
    BY <1>1, <2>2
  <2> QED
    BY <1>1, <2>1, <2>2
<1>3. GotOk(p, c) => GotOk(q, c) \/ (e.id = c /\ e.code = "ok")
  BY <1>1 DEF GotOk
<1>4. ASSUME NEW i \in 1..Len(p), NEW j \in 1..Len(p),
             i < j, p[i].id = c, p[i].code = "ok", Refusing(p[j])
      PROVE  RefusedAfter(q, c) \/ (GotOk(q, c) /\ Refusing(e))
  <2>1. i \in 1..Len(q) /\ q[i].id = c /\ q[i].code = "ok"
    BY <1>1, <1>4
  <2>2. CASE j \in 1..Len(q)
    <3>1. Refusing(q[j])
      BY <1>1, <1>4, <2>2
    <3> QED
      BY <1>4, <2>1, <2>2, <3>1 DEF RefusedAfter
  <2>3. CASE j = Len(q) + 1
    <3>1. Refusing(e)
      BY <1>1, <1>4, <2>3
    <3> QED
      BY <2>1, <3>1 DEF GotOk
  <2> QED
    BY <1>1, <2>2, <2>3
<1>5. RefusedAfter(p, c) => RefusedAfter(q, c) \/ (GotOk(q, c) /\ Refusing(e))
  BY <1>4 DEF RefusedAfter
<1> QED
  BY <1>2, <1>3, <1>5 DEF p

\* An answer that is neither an ok nor a refusal says nothing of the device.
LEMMA MootAppended ==
  ASSUME NEW S, NEW q \in Seq(S), NEW e \in S, e.code # "ok", ~Refusing(e)
  PROVE  AnswersLess(Append(q, e), q)
  BY AnswerAppended DEF AnswersLess

\* Of three channels, the first says no more than the last.
LEMMA AnswersLessYet ==
  ASSUME NEW p, NEW q, NEW r, AnswersLess(p, q), AnswersLess(q, r)
  PROVE  AnswersLess(p, r)
  BY DEF AnswersLess

\* Nor do rejections.
LEMMA RejectedMoot ==
  ASSUME NEW rest \in Seq(Results), pending \in Seq(Senders), RejectAll(rest)
  PROVE  AnswersLess(settled', rest)
<1> DEFINE q == [i \in 1..Len(pending) |-> [id |-> pending[i], code |-> "disconnected"]]
<1>1. Len(pending) \in Nat /\ \A i \in 1..Len(pending) : pending[i] \in Senders
  BY LenProperties, ElementOfSeq
<1>2. \A i \in 1..Len(pending) : q[i] \in Results
  BY <1>1 DEF Results, Codes
<1>3. q \in Seq(Results) /\ Len(q) = Len(pending)
  BY <1>1, <1>2
<1>4. settled' = rest \o q
  BY DEF RejectAll
<1>5. \A i \in 1..Len(q) : q[i].id \in Senders /\ q[i].code = "disconnected"
  BY <1>1, <1>3
<1> HIDE DEF q
<1>6. Len(rest) \in Nat /\ Len(q) \in Nat
  BY <1>3, LenProperties
<1>7. ASSUME NEW i \in 1..Len(settled')
      PROVE  \/ i \in 1..Len(rest) /\ settled'[i] = rest[i]
             \/ settled'[i].id \in Senders /\ settled'[i].code = "disconnected"
  <2>1. Len(settled') = Len(rest) + Len(q)
    BY <1>3, <1>4, ConcatProperties
  <2>2. CASE i <= Len(rest)
    BY <1>3, <1>4, <1>6, <2>1, <2>2, ConcatProperties
  <2>3. CASE i > Len(rest)
    <3>1. i - Len(rest) \in 1..Len(q) /\ settled'[i] = q[i - Len(rest)]
      BY <1>3, <1>4, <1>6, <2>1, <2>3, ConcatProperties
    <3> QED
      BY <1>5, <3>1
  <2> QED
    BY <1>6, <2>1, <2>2, <2>3
<1>8. \A m : m.id \in Senders /\ m.code = "disconnected" => ~Refusing(m) /\ m.code # "ok"
  BY SessionAssumption DEF Refusing, DeviceErrors
<1>9. /\ Refused(settled') => Refused(rest)
      /\ \A c \in Callers : GotOk(settled', c) => GotOk(rest, c)
  BY <1>7, <1>8 DEF Refused, GotOk
<1>10. ASSUME NEW c \in Callers, NEW i \in 1..Len(settled'), NEW j \in 1..Len(settled'),
              i < j, settled'[i].id = c, settled'[i].code = "ok", Refusing(settled'[j])
       PROVE  RefusedAfter(rest, c)
  <2>1. /\ i \in 1..Len(rest) /\ settled'[i] = rest[i]
        /\ j \in 1..Len(rest) /\ settled'[j] = rest[j]
    BY <1>7, <1>8, <1>10
  <2> QED
    BY <1>10, <2>1 DEF RefusedAfter
<1> QED
  BY <1>9, <1>10 DEF AnswersLess, RefusedAfter

\* A step by which the callers of C lose nothing: no sys.arm more on its way, no
\* acknowledgement, and if the device is armed it was, and no refusal is new.
Steady(C) ==
  /\ LinesLess(toDevice', toDevice, C)
  /\ \A c \in C : Acked(c)' => Acked(c)
  /\ fw' = "armed" => /\ fw = "armed"
                      /\ AnyRefused' => AnyRefused
                      /\ \A c \in C : Late(c)' => Late(c)

\* Such a step keeps what is said of those it does not arm anew.
LEMMA SteadyKeeps ==
  ASSUME ArmInv, NEW C \in SUBSET Callers, Steady(C), Alone("armed")' => Alone("armed"),
         \A c \in Callers : op'[c] = "arm" =>
            c \in C /\ op[c] = "arm" /\ (Alone(c)' => Alone(c))
  PROVE  ArmInv'
<1>1. Alone("armed")' => NoArm(toDevice') /\ (AnyRefused' => fw' # "armed")
  BY DEF ArmInv, Steady, LinesLess
<1>2. ASSUME NEW c \in Callers, op'[c] = "arm"
      PROVE  /\ ArmsOnly(toDevice', c)
             /\ Alone(c)' => /\ LastArm(toDevice', c)
                             /\ Acked(c)' => NoArm(toDevice')
                             /\ Late(c)' => fw' # "armed"
  BY <1>2 DEF ArmInv, Steady, LinesLess
<1> QED
  BY <1>1, <1>2 DEF ArmInv

\* It is one when no channel says more.
LEMMA LessIsSteady ==
  ASSUME NEW C \in SUBSET Callers, LinesLess(toDevice', toDevice, C),
         AnswersLess(settled', settled), AnswersLess(toHost', toHost),
         fw' = "armed" => fw = "armed"
  PROVE  Steady(C)
<1>1. AnyRefused' => AnyRefused
  BY DEF AnyRefused, AnswersLess
<1>2. \A c \in C : (Acked(c)' => Acked(c)) /\ (Late(c)' => Late(c))
  BY DEF Acked, Late, AnswersLess
<1> QED
  BY <1>1, <1>2 DEF Steady

\* The host reads a line or none.
LEMMA ReadLess ==
  ASSUME toHost \in Seq(HostLines), HostReads
  PROVE  AnswersLess(toHost', toHost)
<1>1. ThinAnswers(toHost', toHost)
  BY PartsOf DEF HostReads
<1> QED
  BY <1>1, AnswersThinned

\* A caller is handed its result.
LEMMA HandedLess ==
  ASSUME Chan(settled), ~Settled
  PROVE  AnswersLess(Tail(settled), settled)
<1>1. ThinAnswers(Tail(settled), settled)
  BY PartsOf DEF Chan, Settled
<1> QED
  BY <1>1, AnswersThinned

\* Lines that are not touched, and results.
LEMMA SameLess ==
  ASSUME toDevice \in Seq(DeviceLines), settled \in Seq(Results)
  PROVE  /\ LinesLess(toDevice, toDevice, Callers)
         /\ AnswersLess(settled, settled)
<1>1. ThinLines(toDevice, toDevice)
  BY PartsOf
<1>2. ThinAnswers(settled, settled)
  BY PartsOf
<1> QED
  BY <1>1, <1>2, LinesThinned, AnswersThinned

\* The line of a request that is no sys.arm.
LEMMA SentLess ==
  ASSUME toDevice \in Seq(DeviceLines), NEW s \in Senders, NEW act \in Commands \ {"sys.arm"},
         toDevice' = IF lineUp THEN Append(toDevice, [id |-> s, act |-> act]) ELSE toDevice
  PROVE  LinesLess(toDevice', toDevice, Callers \ {s})
<1> DEFINE line == [id |-> s, act |-> act]
<1>1. line \in DeviceLines /\ line.id = s /\ line.act # "sys.arm"
  BY DEF DeviceLines, Ids
<1>2. toDevice' = toDevice \/ toDevice' = Append(toDevice, line)
  OBVIOUS
<1> HIDE DEF line
<1>3. CASE toDevice' = toDevice
  BY <1>3 DEF LinesLess
<1>4. CASE toDevice' = Append(toDevice, line)
  <2>1. NoArm(toDevice) => NoArm(Append(toDevice, line))
    BY <1>1, LineAppended
  <2>2. \A c \in Callers \ {s} :
           /\ ArmsOnly(toDevice, c) => ArmsOnly(Append(toDevice, line), c)
           /\ LastArm(toDevice, c) => LastArm(Append(toDevice, line), c)
    BY <1>1, LineAppended
  <2> QED
    BY <1>4, <2>1, <2>2 DEF LinesLess
<1> QED
  BY <1>2, <1>3, <1>4

\* A request that is no sys.arm, sent or refused by the session.
LEMMA RequestedSteady ==
  ASSUME NEW rest, Chan(rest), AnswersLess(rest, settled), NEW s \in Senders,
         NEW act \in Commands \ {"sys.arm"}, Request(s, act, rest), toHost' = toHost, fw' = fw
  PROVE  Steady(Callers \ {s})
<1>1. toDevice \in Seq(DeviceLines) /\ toHost \in Seq(HostLines) /\ rest \in Seq(Results)
  BY DEF Chan
<1>2. AnswersLess(toHost', toHost)
  BY <1>1, ReadLess DEF HostReads
<1>3. CASE session = "connected"
  <2>1. LinesLess(toDevice', toDevice, Callers \ {s})
    BY <1>1, <1>3, SentLess DEF Request
  <2>2. AnswersLess(settled', settled)
    BY <1>3 DEF Request
  <2> QED
    BY <1>2, <2>1, <2>2, LessIsSteady
<1>4. CASE session # "connected"
  <2> DEFINE e == [id |-> s, code |-> "disconnected"]
  <2>1. settled' = Append(rest, e) /\ toDevice' = toDevice
    BY <1>4 DEF Request
  <2>2. e \in Results /\ e.code # "ok" /\ ~Refusing(e)
    BY SessionAssumption DEF Results, Codes, Refusing, DeviceErrors
  <2> HIDE DEF e
  <2>3. AnswersLess(settled', rest)
    BY <1>1, <2>1, <2>2, MootAppended
  <2>4. AnswersLess(settled', settled)
    BY <2>3, AnswersLessYet
  <2>5. LinesLess(toDevice', toDevice, Callers \ {s})
    BY <2>1 DEF LinesLess
  <2> QED
    BY <1>2, <2>4, <2>5, LessIsSteady
<1> QED
  BY <1>3, <1>4

\* connect() sends a sys.hello.
LEMMA HelloSteady ==
  ASSUME NEW rest, Chan(rest), AnswersLess(rest, settled), SendHello(rest), HostReads, fw' = fw
  PROVE  Steady(Callers)
<1>1. /\ Prober \in Senders /\ Callers \ {Prober} = Callers
      /\ "sys.hello" \in Commands \ {"sys.arm"}
  BY SessionAssumption, BackendAssumption DEF Commands
<1>2. AnswersLess(toHost', toHost)
  BY ReadLess DEF Chan
<1>3. LinesLess(toDevice', toDevice, Callers \ {Prober})
  BY <1>1, SentLess DEF SendHello, Chan
<1> QED
  BY <1>1, <1>2, <1>3, LessIsSteady DEF SendHello

\* The transport ends.
LEMMA EndedSteady ==
  ASSUME NEW rest, Chan(rest), AnswersLess(rest, settled), RejectAll(rest),
         NEW n \in 0..Len(toDevice), toDevice' = Drained(n), toHost' = <<>>, fw' = fw
  PROVE  Steady(Callers)
<1>1. LinesLess(toDevice', toDevice, Callers)
  <2>1. ThinLines(toDevice', toDevice)
    BY DrainedParts DEF Chan
  <2> QED
    BY <2>1, LinesThinned
<1>2. AnswersLess(toHost', toHost)
  <2>1. ThinAnswers(toHost', toHost)
    BY PartsOf DEF Chan
  <2> QED
    BY <2>1, AnswersThinned
<1>3. AnswersLess(settled', settled)
  <2>1. AnswersLess(settled', rest)
    BY RejectedMoot DEF Chan
  <2> QED
    BY <2>1, AnswersLessYet
<1> QED
  BY <1>1, <1>2, <1>3, LessIsSteady

\* The session is closed, once or again.
LEMMA ClosedSteady ==
  ASSUME NEW rest, Chan(rest), AnswersLess(rest, settled), CloseSession(rest), fw' = fw
  PROVE  Steady(Callers)
<1>1. CASE session = "closed"
  <2>1. settled' = rest /\ UNCHANGED <<toDevice, toHost>>
    BY <1>1 DEF CloseSession
  <2>2. AnswersLess(toHost', toHost)
    BY <2>1, ReadLess DEF Chan, HostReads
  <2>3. LinesLess(toDevice', toDevice, Callers)
    BY <2>1 DEF LinesLess
  <2> QED
    BY <2>1, <2>2, <2>3, LessIsSteady
<1>2. CASE session # "closed"
  BY <1>2, EndedSteady DEF CloseSession
<1> QED
  BY <1>1, <1>2

\* A request that times out: its answer, which may be late, is nobody's.
LEMMA TimeoutSteady ==
  ASSUME Chan(settled), NEW s \in Senders, RequestTimeout(s)
  PROVE  Steady(Callers)
<1> DEFINE e == [id |-> s, code |-> "timeout"]
<1>1. /\ settled' = Append(settled, e) /\ fw' = fw
      /\ toDevice' = Disown(toDevice, s) /\ toHost' = Disown(toHost, s)
  BY DEF RequestTimeout, fwVars
<1>2. e \in Results /\ e.code # "ok" /\ ~Refusing(e)
  BY SessionAssumption DEF Results, Codes, Refusing, DeviceErrors
<1> HIDE DEF e
<1>3. AnswersLess(settled', settled)
  BY <1>1, <1>2, MootAppended DEF Chan
<1>4. ThinLines(toDevice', toDevice) /\ ThinAnswers(toHost', toHost)
  BY <1>1, DisownedParts DEF Chan
<1>5. LinesLess(toDevice', toDevice, Callers) /\ AnswersLess(toHost', toHost)
  BY <1>4, LinesThinned, AnswersThinned
<1> QED
  BY <1>1, <1>3, <1>5, LessIsSteady

\* What is behind the acknowledgement that is read next.
LEMMA BehindHead ==
  ASSUME NEW S, NEW q \in Seq(S), q # <<>>, NEW c
  PROVE  /\ Head(q).id = c /\ Head(q).code = "ok" => GotOk(q, c)
         /\ Head(q).id = c /\ Head(q).code = "ok" /\ Refused(Tail(q)) => RefusedAfter(q, c)
         /\ Refusing(Head(q)) => Refused(q)
<1>1. /\ Head(q) = q[1] /\ 1 \in 1..Len(q)
      /\ \A i \in 1..Len(Tail(q)) : Tail(q)[i] = q[i + 1] /\ i + 1 \in 1..Len(q)
  BY Taken
<1>2. ASSUME Head(q).id = c, Head(q).code = "ok", Refused(Tail(q))
      PROVE  RefusedAfter(q, c)
  <2>1. PICK j \in 1..Len(Tail(q)) : Refusing(Tail(q)[j])
    BY <1>2 DEF Refused
  <2>2. 1 < j + 1 /\ j + 1 \in 1..Len(q) /\ Refusing(q[j + 1])
    BY <1>1, <2>1
  <2> QED
    BY <1>1, <1>2, <2>2 DEF RefusedAfter
<1> QED
  BY <1>1, <1>2 DEF GotOk, Refused

\* An answer moves on to the caller that waits for it, or is ignored: in order.
LEMMA AnsweredSteady ==
  ASSUME Chan(settled), Answered
  PROVE  Steady(Callers)
<1> DEFINE e == Head(toHost)
<1>1. /\ toHost # <<>> /\ e.id # Broadcast /\ toHost' = Tail(toHost)
      /\ toDevice' = toDevice /\ fw' = fw
  BY DEF Answered, fwVars
<1>2. /\ toHost \in Seq(HostLines) /\ settled \in Seq(Results) /\ pending \in Seq(Senders)
      /\ Distinct(pending)
  BY DEF Chan
<1>3. LinesLess(toDevice', toDevice, Callers)
  BY <1>1 DEF LinesLess
<1>4. AnswersLess(toHost', toHost)
  BY <1>1, <1>2, ReadLess DEF HostReads
<1>5. CASE FinishPending(e.id) /\ settled' = Append(settled, e)
  <2>1. e \in HostLines
    BY <1>1, <1>2, Taken
  <2>2. e.id \in Senders
    <3>1. e.id \in Waiting
      BY <1>2, <1>5, Withdrawn
    <3>2. \A i \in 1..Len(pending) : pending[i] \in Senders
      BY <1>2, ElementOfSeq
    <3> QED
      BY <3>1, <3>2 DEF Waiting
  <2>3. e \in Results
    BY <1>1, <2>1, <2>2 DEF HostLines, Results
  <2>4. Refusing(e) => Refused(toHost)
    BY <1>1, <1>2, BehindHead
  <2>5. Refused(settled') => Refused(settled) \/ Refusing(e)
    BY <1>2, <1>5, <2>3, AnswerAppended
  <2>6. AnyRefused' => AnyRefused
    BY <1>4, <2>4, <2>5 DEF AnyRefused, AnswersLess
  <2>7. ASSUME NEW c \in Callers
        PROVE  (Acked(c)' => Acked(c)) /\ (Late(c)' => Late(c))
    <3>1. /\ GotOk(settled', c) => GotOk(settled, c) \/ (e.id = c /\ e.code = "ok")
          /\ RefusedAfter(settled', c) => \/ RefusedAfter(settled, c)
                                          \/ GotOk(settled, c) /\ Refusing(e)
      BY <1>2, <1>5, <2>3, AnswerAppended
    <3>2. /\ e.id = c /\ e.code = "ok" => GotOk(toHost, c)
          /\ e.id = c /\ e.code = "ok" /\ Refused(toHost') => RefusedAfter(toHost, c)
      BY <1>1, <1>2, BehindHead
    <3>3. /\ GotOk(toHost', c) => GotOk(toHost, c)
          /\ RefusedAfter(toHost', c) => RefusedAfter(toHost, c)
          /\ Refused(toHost') => Refused(toHost)
      BY <1>4 DEF AnswersLess
    <3> HIDE DEF e
    <3>4. Acked(c)' => Acked(c)
      BY <3>1, <3>2, <3>3 DEF Acked
    <3>5. Late(c)' => Late(c)
      BY <2>4, <3>1, <3>2, <3>3 DEF Late
    <3> QED
      BY <3>4, <3>5
  <2> QED
    BY <1>1, <1>3, <2>6, <2>7 DEF Steady
<1>6. CASE UNCHANGED <<pending, settled>>
  <2>1. AnswersLess(settled', settled)
    BY <1>6 DEF AnswersLess
  <2> QED
    BY <1>1, <1>3, <1>4, <2>1, LessIsSteady
<1> QED
  BY <1>5, <1>6 DEF Answered

\* A device that says it is not armed is not.
LEMMA SaidSteady ==
  ASSUME Chan(settled), settled' = settled, fw' # "armed",
         toDevice' = toDevice \/ toDevice' = <<>>,
         NEW code \in Events, Says([id |-> Broadcast, code |-> code])
  PROVE  Steady(Callers)
<1> DEFINE e == [id |-> Broadcast, code |-> code]
<1>1. e \in HostLines /\ e.code # "ok"
  BY DEF HostLines, Events
<1>2. toHost' = toHost \/ toHost' = Append(toHost, e)
  BY DEF Says
<1> HIDE DEF e
<1>3. LinesLess(toDevice', toDevice, Callers)
  <2>1. ThinLines(toDevice', toDevice)
    BY PartsOf DEF Chan
  <2> QED
    BY <2>1, LinesThinned
<1>4. \A c \in Callers : GotOk(toHost', c) => GotOk(toHost, c)
  BY <1>1, <1>2, AnswerAppended DEF Chan
<1> QED
  BY <1>3, <1>4 DEF Steady, Acked

\* What the session does by itself, and the firmware without a line, is steady.
LEMMA SessionSteady ==
  ASSUME Chan(settled), SessionStep, ~DeviceHandles
  PROVE  Steady(Callers)
<1>1. /\ toDevice \in Seq(DeviceLines) /\ toHost \in Seq(HostLines) /\ settled \in Seq(Results)
      /\ LinesLess(toDevice, toDevice, Callers) /\ AnswersLess(settled, settled)
  BY SameLess DEF Chan
<1>2. ASSUME toDevice' = toDevice, settled' = settled, HostReads, fw' = "armed" => fw = "armed"
      PROVE  Steady(Callers)
  BY <1>1, <1>2, ReadLess, LessIsSteady
<1>3. CASE Open
  BY <1>2, <1>3 DEF Open, HostReads, fwVars
<1>4. CASE ListenTimeout
  BY <1>1, <1>4, HelloSteady DEF ListenTimeout, HostReads, fwVars
<1>5. CASE ProbeReturns
  <2> DEFINE rest == Tail(settled)
  <2>1. ~Settled /\ fw' = fw
    BY <1>5 DEF ProbeReturns, fwVars
  <2>2. Chan(rest) /\ AnswersLess(rest, settled)
    BY <2>1, Handed, HandedLess
  <2> HIDE DEF rest
  <2>3. CASE settled' = rest /\ UNCHANGED <<toDevice, toHost>>
    BY <1>1, <2>1, <2>2, <2>3, ReadLess, LessIsSteady DEF HostReads
  <2>4. CASE SendHello(rest) /\ UNCHANGED toHost
    BY <2>1, <2>2, <2>4, HelloSteady DEF HostReads
  <2>5. CASE CloseSession(rest)
    BY <2>1, <2>2, <2>5, ClosedSteady
  <2> QED
    BY <1>5, <2>3, <2>4, <2>5 DEF ProbeReturns, rest
<1>6. CASE Answered
  BY <1>6, AnsweredSteady
<1>7. CASE ReadyHeard
  <2>1. HostReads /\ fw' = fw
    BY <1>7 DEF ReadyHeard, HostReads, fwVars
  <2>2. CASE session = "listening"
    BY <1>1, <1>7, <2>1, <2>2, HelloSteady DEF ReadyHeard
  <2>3. CASE session # "listening"
    BY <1>2, <1>7, <2>1, <2>3 DEF ReadyHeard
  <2> QED
    BY <2>2, <2>3
<1>8. CASE TransportEnds
  BY <1>1, <1>8, EndedSteady DEF TransportEnds, fwVars
<1>9. ASSUME NEW s \in Senders, RequestTimeout(s) PROVE Steady(Callers)
  BY <1>9, TimeoutSteady
<1>10. CASE WatchdogRuns
  BY <1>2, <1>10 DEF WatchdogRuns, Elapse, sessionVars, HostReads
<1>11. CASE WatchdogTrips
  BY <1>11, SaidSteady DEF WatchdogTrips, Trip, Events
<1>12. CASE DeviceResets
  BY <1>12, SaidSteady DEF DeviceResets, Boot, Events
<1>13. CASE LineLost
  <2>1. fw' = fw /\ settled' = settled
    BY <1>13 DEF LineLost, fwVars
  <2>2. CASE toDevice # <<>> /\ toDevice' = Tail(toDevice) /\ UNCHANGED toHost
    <3>1. ThinLines(toDevice', toDevice)
      BY <1>1, <2>2, PartsOf
    <3>2. LinesLess(toDevice', toDevice, Callers) /\ AnswersLess(toHost', toHost)
      BY <1>1, <2>2, <3>1, LinesThinned, ReadLess DEF HostReads
    <3> QED
      BY <1>1, <2>1, <3>2, LessIsSteady
  <2>3. CASE HostReads /\ UNCHANGED toDevice
    BY <1>2, <2>1, <2>3
  <2> QED
    BY <1>13, <2>2, <2>3 DEF LineLost, HostReads
<1> QED
  BY <1>3, <1>4, <1>5, <1>6, <1>7, <1>8, <1>9, <1>10, <1>11, <1>12, <1>13 DEF SessionStep

\* There is no refusal behind an acknowledgement that is not there.
LEMMA LateIsAcked ==
  ASSUME NEW c, Late(c)
  PROVE  Acked(c)
  BY DEF Late, Acked, RefusedAfter, GotOk

\* The firmware of the armed state: only a sys.arm arms, and a refusal is true.
LEMMA HandledArm ==
  ASSUME NEW act, NEW code, Handles(act, code)
  PROVE  /\ act # "sys.arm" /\ fw # "armed" => fw' # "armed"
         /\ code \in DeviceErrors => fw' # "armed"
  BY DEF Handles, Arm, Disarm, Kick, Write, StopAll, fwVars, DeviceErrors

\* The firmware handles a line: behind the only sys.arm nothing arms it again.
LEMMA HandlesArm ==
  ASSUME BackendInv, ArmInv, DeviceHandles, UNCHANGED backendVars
  PROVE  ArmInv'
<1> DEFINE m == Head(toDevice)
<1>1. PICK code \in {"ok"} \cup DeviceErrors :
         /\ Handles(m.act, code)
         /\ IF m.id = Nobody THEN UNCHANGED toHost ELSE Says([id |-> m.id, code |-> code])
  BY DEF DeviceHandles
<1> DEFINE e == [id |-> m.id, code |-> code]
<1>2. /\ toDevice # <<>> /\ toDevice' = Tail(toDevice) /\ settled' = settled
      /\ UNCHANGED <<op, since>>
  BY DEF DeviceHandles, backendVars
<1>3. /\ toDevice \in Seq(DeviceLines) /\ toHost \in Seq(HostLines)
  BY DEF BackendInv, Chan
<1>4. m \in DeviceLines /\ m = toDevice[1] /\ 1 \in 1..Len(toDevice)
  BY <1>2, <1>3, Taken
<1>5. m.id \in Ids /\ m.id # Broadcast
  <2>1. m.id \in Ids
    BY <1>4 DEF DeviceLines
  <2> QED
    BY <2>1, SessionAssumption DEF Ids
<1>6. e \in HostLines /\ (Refusing(e) => code \in DeviceErrors)
  BY <1>5 DEF HostLines, Codes, Refusing
<1>7. toHost' = toHost \/ toHost' = Append(toHost, e)
  BY <1>1 DEF Says
<1>8. LinesLess(toDevice', toDevice, Callers)
  <2>1. ThinLines(toDevice', toDevice)
    BY <1>2, <1>3, PartsOf
  <2> QED
    BY <2>1, LinesThinned
<1>9. /\ fw' = "armed" => ~Refusing(e)
      /\ m.act # "sys.arm" /\ fw # "armed" => fw' # "armed"
  BY <1>1, <1>6, HandledArm
<1>10. e.id = m.id
  OBVIOUS
<1> HIDE DEF m, e
<1>11. Refused(toHost') => Refused(toHost) \/ Refusing(e)
  BY <1>3, <1>6, <1>7, AnswerAppended
<1>12. NoArm(toDevice) => m.act # "sys.arm"
  BY <1>4 DEF NoArm
<1>13. Alone("armed")' => NoArm(toDevice') /\ (AnyRefused' => fw' # "armed")
  <2> SUFFICES ASSUME Alone("armed")' PROVE NoArm(toDevice') /\ (AnyRefused' => fw' # "armed")
    OBVIOUS
  <2>1. NoArm(toDevice) /\ (AnyRefused => fw # "armed")
    BY <1>2 DEF ArmInv, Alone
  <2>2. NoArm(toDevice')
    BY <1>8, <2>1 DEF LinesLess
  <2>3. AnyRefused' => AnyRefused \/ Refusing(e)
    BY <1>2, <1>11 DEF AnyRefused
  <2> QED
    BY <1>9, <1>12, <2>1, <2>2, <2>3
<1>14. ASSUME NEW c \in Callers, op'[c] = "arm"
       PROVE  /\ ArmsOnly(toDevice', c)
              /\ Alone(c)' => /\ LastArm(toDevice', c)
                              /\ Acked(c)' => NoArm(toDevice')
                              /\ Late(c)' => fw' # "armed"
  <2>1. ArmsOnly(toDevice', c)
    BY <1>2, <1>8, <1>14 DEF ArmInv, LinesLess
  <2> SUFFICES ASSUME Alone(c)'
               PROVE  /\ LastArm(toDevice', c)
                      /\ Acked(c)' => NoArm(toDevice')
                      /\ Late(c)' => fw' # "armed"
    BY <2>1
  <2>2. /\ LastArm(toDevice, c) /\ (Acked(c) => NoArm(toDevice))
        /\ Late(c) => fw # "armed"
    BY <1>2, <1>14 DEF ArmInv, Alone
  <2>3. LastArm(toDevice', c) /\ (NoArm(toDevice) => NoArm(toDevice'))
    BY <1>8, <2>2 DEF LinesLess
  <2>4. m.id = c => NoArm(toDevice')
    <3> SUFFICES ASSUME m.id = c, NEW j \in 1..Len(toDevice') PROVE toDevice'[j].act # "sys.arm"
      BY DEF NoArm
    <3>1. j + 1 \in 1..Len(toDevice) /\ toDevice'[j] = toDevice[j + 1] /\ 1 < j + 1
      BY <1>2, <1>3, Taken
    <3> QED
      BY <1>4, <2>2, <3>1 DEF LastArm
  <2>5. /\ GotOk(toHost', c) => GotOk(toHost, c) \/ m.id = c
        /\ RefusedAfter(toHost', c) => RefusedAfter(toHost, c) \/ (GotOk(toHost, c) /\ Refusing(e))
    BY <1>3, <1>6, <1>7, <1>10, AnswerAppended
  <2>6. Acked(c)' => NoArm(toDevice')
    BY <1>2, <2>2, <2>3, <2>4, <2>5 DEF Acked
  <2>7. Late(c)' => Late(c) \/ Refusing(e)
    BY <1>2, <1>11, <2>5 DEF Late
  <2>8. Late(c) => m.act # "sys.arm" /\ fw # "armed"
    BY <1>12, <2>2, LateIsAcked
  <2> QED
    BY <1>9, <2>3, <2>6, <2>7, <2>8
<1> QED
  BY <1>13, <1>14 DEF ArmInv

\* arm() sends its sys.arm: no other caller is alone any more.
LEMMA CallArmKeeps ==
  ASSUME BackendInv, ArmInv, NEW c \in Callers, CallArm(c)
  PROVE  ArmInv'
<1> DEFINE line == [id |-> c, act |-> "sys.arm"]
           e == [id |-> c, code |-> "disconnected"]
<1>1. /\ Request(c, "sys.arm", settled) /\ op' = [op EXCEPT ![c] = "arm"] /\ op[c] = "idle"
      /\ toHost' = toHost /\ since' = [Noted("sys.arm") EXCEPT ![c] = {}]
  BY DEF CallArm, Starts, Sends
<1>2. c \in Senders /\ c # "armed"
  BY BackendAssumption DEF Marks
<1>3. /\ c \notin Names(toDevice) /\ c \notin Names(toHost) /\ c \notin Names(settled)
      /\ toDevice \in Seq(DeviceLines) /\ settled \in Seq(Results)
  BY <1>1, <1>2 DEF BackendInv, CallsInv, Chan, Busy
<1>4. \A r \in Callers \cup Marks : r # c => ~Alone(r)'
  BY <1>1 DEF Alone, Noted, BackendInv, Plain
<1>5. ~Alone("armed")'
  BY <1>2, <1>4 DEF Marks
<1>6. /\ line \in DeviceLines /\ line.id = c /\ line.act = "sys.arm"
      /\ e \in Results /\ e.id = c /\ e.code # "ok"
  BY <1>2 DEF DeviceLines, Ids, Commands, Results, Codes
<1>7. /\ toDevice' = toDevice \/ toDevice' = Append(toDevice, line)
      /\ settled' = settled \/ settled' = Append(settled, e)
  BY <1>1 DEF Request
<1> HIDE DEF line, e
<1>8. ASSUME NEW d \in Callers, d # c, op'[d] = "arm" PROVE ArmsOnly(toDevice', d)
  <2>1. op[d] = "arm"
    BY <1>1, <1>8 DEF BackendInv, Plain
  <2>2. ArmsOnly(toDevice, d)
    BY <2>1 DEF ArmInv
  <2>3. ArmsOnly(Append(toDevice, line), d)
    BY <1>3, <1>6, <1>8, <2>2, LineAppended
  <2> QED
    BY <1>7, <2>2, <2>3
<1>9. ArmsOnly(toDevice', c) /\ LastArm(toDevice', c)
  <2>1. ArmsOnly(toDevice, c) /\ LastArm(toDevice, c)
    BY <1>3 DEF ArmsOnly, LastArm, Names
  <2>2. ArmsOnly(Append(toDevice, line), c) /\ LastArm(Append(toDevice, line), c)
    BY <1>3, <1>6, <2>1, LineAppended
  <2> QED
    BY <1>7, <2>1, <2>2
<1>10. ~Acked(c)'
  <2>1. ~GotOk(settled, c) /\ ~GotOk(toHost, c)
    BY <1>3 DEF GotOk, Names
  <2>2. ~GotOk(Append(settled, e), c)
    BY <1>3, <1>6, <2>1, AnswerAppended
  <2> QED
    BY <1>1, <1>7, <2>1, <2>2 DEF Acked
<1>11. ~Late(c)'
  BY <1>10 DEF Late, Acked, RefusedAfter, GotOk
<1> QED
  BY <1>4, <1>5, <1>8, <1>9, <1>10, <1>11 DEF ArmInv

\* The other calls that start.
LEMMA StartArm ==
  ASSUME BackendInv, ArmInv, NEW c \in Callers,
         CallWrite(c) \/ CallDisarm(c) \/ CallSafeState(c) \/ CallClose(c)
  PROVE  ArmInv'
<1>1. c \in Senders /\ c # "armed" /\ fw' = fw
  BY BackendAssumption
     DEF Marks, CallWrite, CallDisarm, CallSafeState, CallClose, Starts, fwVars
<1>2. Chan(settled) /\ AnswersLess(settled, settled)
  BY SameLess DEF BackendInv, Chan
<1>3. \A r \in Callers \cup Marks : \A act \in Watched : Noted(act)[r] = since[r] \cup {act}
  BY DEF Noted, BackendInv, Plain
<1>4. ASSUME NEW act \in Commands \ {"sys.arm"}, NEW now \in Ops \ {"arm"}, Sends(c, act, now),
             \A r \in Callers \cup Marks : r # c => since[r] \subseteq since'[r]
      PROVE  ArmInv'
  <2>1. Steady(Callers \ {c})
    BY <1>1, <1>2, <1>4, RequestedSteady DEF Sends
  <2>2. op'[c] = now /\ \A d \in Callers : d # c => op'[d] = op[d]
    BY <1>4 DEF Sends, BackendInv, Plain
  <2>3. Alone("armed")' => Alone("armed")
    BY <1>1, <1>4 DEF Alone, Marks
  <2>4. \A d \in Callers : op'[d] = "arm" =>
           d \in Callers \ {c} /\ op[d] = "arm" /\ (Alone(d)' => Alone(d))
    BY <1>4, <2>2 DEF Alone
  <2> QED
    BY <2>1, <2>3, <2>4, SteadyKeeps
<1>5. /\ {"sys.disarm", "gpio.write"} \subseteq Commands \ {"sys.arm"}
      /\ {"disarm", "write", "safe:disarm", "close:disarm"} \subseteq Ops \ {"arm"}
      /\ {"sys.disarm", "gpio.write"} \subseteq Watched
  BY DEF Commands, Ops, Watched
<1>6. CASE CallWrite(c)
  BY <1>3, <1>4, <1>5, <1>6 DEF CallWrite
<1>7. CASE CallDisarm(c)
  BY <1>3, <1>4, <1>5, <1>7 DEF CallDisarm
<1>8. CASE CallSafeState(c)
  <2>1. \A r \in Callers \cup Marks : r # c => since'[r] = since[r] \cup {"sys.disarm"}
    BY <1>3, <1>5, <1>8 DEF CallSafeState, Noted, BackendInv, Plain
  <2> QED
    BY <1>4, <1>5, <1>8, <2>1 DEF CallSafeState
<1>9. CASE CallClose(c)
  <2>1. CASE belief = "armed"
    <3>1. Sends(c, "sys.disarm", "close:disarm") /\ since' = Noted("sys.disarm")
      BY <1>9, <2>1 DEF CallClose
    <3> QED
      BY <1>3, <1>4, <1>5, <3>1
  <2>2. CASE belief # "armed"
    <3>1. CloseSession(settled) /\ op' = op /\ since' = since
      BY <1>9, <2>2 DEF CallClose
    <3>2. Steady(Callers)
      BY <1>1, <1>2, <3>1, ClosedSteady
    <3> QED
      BY <3>1, <3>2, SteadyKeeps DEF Alone
  <2> QED
    BY <2>1, <2>2
<1> QED
  BY <1>6, <1>7, <1>8, <1>9

\* A call is handed its result.
LEMMA ReturnArm ==
  ASSUME BackendInv, ArmInv, NEW c \in Callers,
         ArmReturns(c) \/ DisarmReturns(c) \/ WriteReturns(c) \/ SafeStateReturns(c)
  PROVE  ArmInv'
<1>1. /\ ~Settled /\ Result.id = c /\ Returns(c)
      /\ c # "armed" /\ {"armed", "applied"} \cap Callers = {}
  BY BackendAssumption
     DEF ArmReturns, DisarmReturns, WriteReturns, SafeStateReturns, Got, Marks
<1>2. /\ op' = [op EXCEPT ![c] = "idle"] /\ settled' = Tail(settled)
      /\ UNCHANGED <<fw, toDevice, toHost>>
  BY <1>1 DEF Returns, fwVars
<1>3. /\ op'[c] = "idle" /\ \A d \in Callers : d # c => op'[d] = op[d]
  BY <1>2 DEF BackendInv, Plain
<1>4. Steady(Callers)
  <2>1. Chan(settled)
    BY DEF BackendInv
  <2>2. AnswersLess(settled', settled) /\ AnswersLess(toHost', toHost)
    BY <1>1, <1>2, <2>1, HandedLess, ReadLess DEF HostReads, Chan
  <2>3. LinesLess(toDevice', toDevice, Callers)
    BY <1>2 DEF LinesLess
  <2> QED
    BY <1>2, <2>2, <2>3, LessIsSteady
<1>5. \A d \in Callers : since'[d] = since[d]
  BY <1>1
     DEF ArmReturns, DisarmReturns, WriteReturns, SafeStateReturns, BackendInv, Plain, Marks
<1>6. \A d \in Callers : op'[d] = "arm" =>
         d \in Callers /\ op[d] = "arm" /\ (Alone(d)' => Alone(d))
  BY <1>3, <1>5 DEF Alone
<1>7. CASE since'["armed"] = since["armed"]
  BY <1>4, <1>6, <1>7, SteadyKeeps DEF Alone
<1>8. CASE ArmReturns(c) /\ Result.code = "ok"
  <2>1. since'["armed"] = since[c] /\ op[c] = "arm"
    BY <1>8 DEF ArmReturns, Got, BackendInv, Plain, Marks
  <2>2. ASSUME Alone("armed")'
        PROVE  NoArm(toDevice') /\ (AnyRefused' => fw' # "armed")
    <3>1. (Acked(c) => NoArm(toDevice)) /\ (Late(c) => fw # "armed")
      BY <2>1, <2>2 DEF ArmInv, Alone
    <3>2. settled \in Seq(Results) /\ settled # <<>>
      BY <1>1 DEF BackendInv, Chan, Settled
    <3>3. GotOk(settled, c) /\ (Refused(Tail(settled)) => RefusedAfter(settled, c))
      BY <1>1, <1>8, <3>2, BehindHead DEF Result
    <3>4. AnyRefused' => Late(c)
      BY <1>2, <3>3 DEF AnyRefused, Late
    <3> QED
      BY <1>2, <3>1, <3>3, <3>4 DEF Acked
  <2>3. ASSUME NEW d \in Callers, op'[d] = "arm"
        PROVE  /\ ArmsOnly(toDevice', d)
               /\ Alone(d)' => /\ LastArm(toDevice', d)
                               /\ Acked(d)' => NoArm(toDevice')
                               /\ Late(d)' => fw' # "armed"
    BY <1>4, <1>6, <2>3 DEF ArmInv, Steady, LinesLess
  <2> QED
    BY <2>2, <2>3 DEF ArmInv
<1>9. \/ since'["armed"] = since["armed"]
      \/ ArmReturns(c) /\ Result.code = "ok"
  BY DEF ArmReturns, DisarmReturns, WriteReturns, SafeStateReturns, BackendInv, Plain, Marks
<1> QED
  BY <1>7, <1>8, <1>9

\* safeState() goes on to its gpio.stopAll, close() to the end of the session.
LEMMA GoesOnArm ==
  ASSUME BackendInv, ArmInv, NEW c \in Callers, SafeStateGoesOn(c) \/ CloseReturns(c)
  PROVE  ArmInv'
<1> DEFINE rest == Tail(settled)
<1>1. ~Settled /\ fw' = fw /\ c \in Senders /\ c # "armed" /\ "armed" \in Marks
  BY BackendAssumption DEF SafeStateGoesOn, CloseReturns, Got, fwVars, Marks
<1>2. Chan(rest) /\ AnswersLess(rest, settled)
  BY <1>1, Handed, HandedLess DEF BackendInv
<1> HIDE DEF rest
<1>3. Steady(Callers \ {c})
  <2>1. CASE SafeStateGoesOn(c)
    <3>1. "gpio.stopAll" \in Commands \ {"sys.arm"}
      BY DEF Commands
    <3>2. Request(c, "gpio.stopAll", rest) /\ toHost' = toHost
      BY <2>1 DEF SafeStateGoesOn, rest
    <3> QED
      BY <1>1, <1>2, <3>1, <3>2, RequestedSteady
  <2>2. CASE CloseReturns(c)
    <3>1. CloseSession(rest)
      BY <2>2 DEF CloseReturns, rest
    <3>2. Steady(Callers)
      BY <1>1, <1>2, <3>1, ClosedSteady
    <3> QED
      BY <3>2 DEF Steady, LinesLess
  <2> QED
    BY <2>1, <2>2
<1>4. op'[c] # "arm" /\ \A d \in Callers : d # c => op'[d] = op[d]
  BY DEF SafeStateGoesOn, CloseReturns, BackendInv, Plain
<1>5. \A r \in Callers \cup Marks : r # c => since'[r] = since[r]
  BY DEF SafeStateGoesOn, CloseReturns, BackendInv, Plain
<1> QED
  BY <1>1, <1>3, <1>4, <1>5, SteadyKeeps DEF Alone

\* The heartbeat's requests, its results, its end, and a trip that is heard.
LEMMA BeatArm ==
  ASSUME BackendInv, ArmInv,
         \/ \E k \in Kicks : HeartbeatKicks(k) \/ KickReturns(k)
         \/ HeartbeatStops \/ TripHeard
  PROVE  ArmInv'
<1>1. /\ Chan(settled) /\ AnswersLess(settled, settled)
      /\ LinesLess(toDevice, toDevice, Callers) /\ toHost \in Seq(HostLines)
  BY SameLess DEF BackendInv, Chan
<1>2. UNCHANGED <<fw, op, since>>
  BY DEF HeartbeatKicks, KickReturns, HeartbeatStops, TripHeard, fwVars, backendVars
<1>3. Steady(Callers)
  <2>1. ASSUME NEW k \in Kicks, HeartbeatKicks(k) PROVE Steady(Callers)
    <3>1. /\ k \in Senders /\ Callers \ {k} = Callers
          /\ "watchdog.kick" \in Commands \ {"sys.arm"}
      BY BackendAssumption DEF Commands
    <3>2. Request(k, "watchdog.kick", settled) /\ toHost' = toHost
      BY <2>1 DEF HeartbeatKicks
    <3>3. Steady(Callers \ {k})
      BY <1>1, <1>2, <3>1, <3>2, RequestedSteady
    <3> QED
      BY <3>1, <3>3
  <2>2. ASSUME NEW k \in Kicks, KickReturns(k) PROVE Steady(Callers)
    <3>1. ~Settled /\ settled' = Tail(settled) /\ UNCHANGED <<toDevice, toHost>>
      BY <2>2 DEF KickReturns
    <3>2. AnswersLess(settled', settled) /\ AnswersLess(toHost', toHost)
      BY <1>1, <3>1, HandedLess, ReadLess DEF HostReads
    <3> QED
      BY <1>1, <1>2, <3>1, <3>2, LessIsSteady
  <2>3. CASE HeartbeatStops \/ TripHeard
    <3>1. settled' = settled /\ toDevice' = toDevice /\ HostReads
      BY <2>3 DEF HeartbeatStops, TripHeard, HostReads, sessionVars
    <3> QED
      BY <1>1, <1>2, <3>1, ReadLess, LessIsSteady
  <2> QED
    BY <2>1, <2>2, <2>3
<1> QED
  BY <1>2, <1>3, SteadyKeeps DEF Alone

\* What is said of refusals is kept.
LEMMA ArmKept == BackendInv /\ ArmInv /\ [BackendNext]_vars => ArmInv'
<1> SUFFICES ASSUME BackendInv, ArmInv, [BackendNext]_vars PROVE ArmInv'
  OBVIOUS
<1>1. CASE SessionStep /\ UNCHANGED backendVars
  <2>1. CASE DeviceHandles
    BY <1>1, <2>1, HandlesArm
  <2>2. CASE ~DeviceHandles
    <3>1. Steady(Callers)
      BY <1>1, <2>2, SessionSteady DEF BackendInv
    <3> QED
      BY <1>1, <3>1, SteadyKeeps DEF Alone, backendVars
  <2> QED
    BY <2>1, <2>2
<1>2. CASE UNCHANGED vars
  <2>1. UNCHANGED <<fw, settled, toDevice, toHost, op, since>>
    BY <1>2 DEF vars, fwVars, sessionVars, backendVars
  <2> QED
    BY <2>1 DEF ArmInv, Alone, Acked, Late, AnyRefused
<1>3. CASE BackendStep
  BY <1>3, CallArmKeeps, StartArm, ReturnArm, GoesOnArm, BeatArm DEF BackendStep
<1> QED
  BY <1>1, <1>2, <1>3 DEF BackendNext

\* The heartbeat's catch and tripHandler(): an answer or an event that comes late
\* never takes an armed backend for disarmed. Since the sys.arm it last saw
\* acknowledged, with no other arm or disarm sent, its belief is dropped only when
\* the device really left the armed state: BeliefIsDroppedForCause.
THEOREM BeliefFollowsTheDevice == BackendSpec => BeliefIsDroppedForCause
<1> DEFINE Cause == (/\ belief = "armed" /\ belief' # "armed"
                     /\ ~Settled /\ Result.id \in Kicks
                     /\ since["armed"] \cap {"sys.arm", "sys.disarm"} = {}) => fw # "armed"
<1>1. BackendInit => ArmInv
  <2> SUFFICES ASSUME BackendInit PROVE ArmInv
    OBVIOUS
  <2>1. "armed" \in Callers \cup Marks /\ "sys.arm" \in Watched
    BY DEF Marks, Watched
  <2> QED
    BY <2>1 DEF BackendInit, ArmInv, Alone
<1>2. ASSUME BackendInv, ArmInv, [BackendNext]_vars PROVE [Cause]_vars
  <2> SUFFICES ASSUME belief = "armed", belief' # "armed", ~Settled, Result.id \in Kicks,
                      since["armed"] \cap {"sys.arm", "sys.disarm"} = {}
               PROVE  fw # "armed"
    OBVIOUS
  <2>1. AnyRefused => fw # "armed"
    BY <1>2 DEF ArmInv, Alone
  <2>2. settled \in Seq(Results) /\ settled # <<>> /\ toHost \in Seq(HostLines)
    BY <1>2 DEF BackendInv, Chan, Settled
  <2>3. Result.id \notin Callers
    BY BackendAssumption
  <2>4. ASSUME NEW k \in Kicks, KickReturns(k) PROVE fw # "armed"
    <3>1. Result.code \in DeviceErrors
      BY <2>4 DEF KickReturns
    <3>2. Refused(settled)
      BY <2>2, <3>1, BehindHead DEF Result, Refusing
    <3> QED
      BY <2>1, <3>2 DEF AnyRefused
  <2>5. CASE TripHeard
    <3>1. toHost # <<>> /\ Refusing(Head(toHost))
      BY <2>5 DEF TripHeard, Refusing
    <3>2. Refused(toHost)
      BY <2>2, <3>1, BehindHead
    <3> QED
      BY <2>1, <3>2 DEF AnyRefused
  <2>6. BackendStep => \/ TripHeard
                       \/ \E k \in Kicks : KickReturns(k)
    BY <2>3 DEF BackendStep, CallArm, CallWrite, CallDisarm, CallSafeState, CallClose, Starts,
       ArmReturns, DisarmReturns, WriteReturns, SafeStateGoesOn, SafeStateReturns,
       CloseReturns, Got, HeartbeatKicks, HeartbeatStops, backendVars
  <2>7. (SessionStep /\ UNCHANGED backendVars) \/ UNCHANGED vars => belief' = belief
    BY DEF backendVars, vars
  <2> QED
    BY <1>2, <2>4, <2>5, <2>6, <2>7 DEF BackendNext
<1> HIDE DEF Cause
<1>3. BackendSpec => [][Cause]_vars
  BY <1>1, <1>2, InvStarts, InvKept, ArmKept, PTL DEF BackendSpec
<1> QED
  BY <1>3 DEF Cause, BeliefIsDroppedForCause
=============================================================================
