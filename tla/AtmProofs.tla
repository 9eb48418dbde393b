------------------------------ MODULE AtmProofs ------------------------------
(***************************************************************************)
(* Proofs, for every PIN, deposit and sequence of keys, that the cash      *)
(* machine of day 8 loses money, and acts on a wrong PIN, only through a   *)
(* cancellation that overtakes an answer of the bank.                      *)
(***************************************************************************)
EXTENDS Atm, SequenceTheorems, FiniteSetTheorems, TLAPS

-----------------------------------------------------------------------------
(* The messages of a queue *)

\* What appending a message adds to the messages of some types.
LEMMA MsgsAppend ==
    ASSUME NEW q \in Seq(Messages), NEW m \in Messages, NEW types
    PROVE  /\ m.type \in types => Msgs(Append(q, m), types) = Msgs(q, types) \cup {m}
           /\ m.type \notin types => Msgs(Append(q, m), types) = Msgs(q, types)
<1>1. {Append(q, m)[i] : i \in DOMAIN Append(q, m)} = {q[i] : i \in DOMAIN q} \cup {m}
    <2>1. /\ DOMAIN Append(q, m) = 1 .. Len(q) + 1 /\ DOMAIN q = 1 .. Len(q) /\ Len(q) \in Nat
          /\ \A i \in 1 .. Len(q) : Append(q, m)[i] = q[i]
          /\ Append(q, m)[Len(q) + 1] = m
        OBVIOUS
    <2>2. 1 .. Len(q) + 1 = (1 .. Len(q)) \cup {Len(q) + 1}
        BY <2>1
    <2>3. QED
        BY <2>1, <2>2
<1>2. QED
    BY <1>1 DEF Msgs

\* What taking the first message removes from them.
LEMMA MsgsTail ==
    ASSUME NEW q \in Seq(Messages), q # <<>>, NEW types
    PROVE  /\ Msgs(Tail(q), types) \subseteq Msgs(q, types)
           /\ Head(q).type \in types => Head(q) \in Msgs(q, types)
<1>1. /\ DOMAIN Tail(q) = 1 .. Len(q) - 1 /\ DOMAIN q = 1 .. Len(q) /\ Len(q) \in Nat \ {0}
      /\ \A i \in 1 .. Len(q) - 1 : Tail(q)[i] = q[i + 1]
      /\ Head(q) = q[1]
    OBVIOUS
<1>2. ASSUME NEW i \in DOMAIN Tail(q) PROVE i + 1 \in DOMAIN q /\ Tail(q)[i] = q[i + 1]
    BY <1>1
<1>3. 1 \in DOMAIN q
    BY <1>1
<1>4. QED
    BY <1>1, <1>2, <1>3 DEF Msgs

One(m, types) == IF m.type \in types THEN 1 ELSE 0

\* A message more, a message less.
LEMMA CountFinite ==
    ASSUME NEW q \in Seq(Messages), NEW types
    PROVE  IsFiniteSet({i \in DOMAIN q : q[i].type \in types}) /\ Count(q, types) \in Nat
<1>1. Len(q) \in Nat /\ DOMAIN q = 1 .. Len(q)
    OBVIOUS
<1>2. IsFiniteSet(1 .. Len(q))
    BY <1>1, FS_Interval
<1>3. IsFiniteSet({i \in DOMAIN q : q[i].type \in types})
    BY <1>1, <1>2, FS_Subset
<1>4. QED
    BY <1>3, FS_CardinalityType DEF Count

\* The same for the number of these messages.
LEMMA CountAppend ==
    ASSUME NEW q \in Seq(Messages), NEW m \in Messages, NEW types
    PROVE  Count(Append(q, m), types) = Count(q, types) + One(m, types)
<1> DEFINE C == {i \in DOMAIN q : q[i].type \in types}
           D == {i \in DOMAIN Append(q, m) : Append(q, m)[i].type \in types}
<1>1. /\ DOMAIN Append(q, m) = 1 .. Len(q) + 1 /\ DOMAIN q = 1 .. Len(q) /\ Len(q) \in Nat
      /\ \A i \in 1 .. Len(q) : Append(q, m)[i] = q[i]
      /\ Append(q, m)[Len(q) + 1] = m
    OBVIOUS
<1>2. D = IF m.type \in types THEN C \cup {Len(q) + 1} ELSE C
    BY <1>1
<1>3. Len(q) + 1 \notin C
    BY <1>1
<1>4. IsFiniteSet(C) /\ Cardinality(C) \in Nat
    BY CountFinite DEF Count
<1>5. Count(q, types) = Cardinality(C) /\ Count(Append(q, m), types) = Cardinality(D)
    BY DEF Count
<1> HIDE DEF C, D
<1>6. Cardinality(C \cup {Len(q) + 1}) = Cardinality(C) + 1
    BY <1>3, <1>4, FS_AddElement
<1>7. CASE m.type \in types
    BY <1>2, <1>5, <1>6, <1>7 DEF One
<1>8. CASE m.type \notin types
    BY <1>2, <1>4, <1>5, <1>8 DEF One
<1>9. QED
    BY <1>7, <1>8

\* The first message counts for one, or for none.
LEMMA CountTail ==
    ASSUME NEW q \in Seq(Messages), q # <<>>, NEW types
    PROVE  Count(q, types) = Count(Tail(q), types) + One(Head(q), types)
<1> DEFINE C == {i \in DOMAIN q : q[i].type \in types}
           D == {i \in DOMAIN Tail(q) : Tail(q)[i].type \in types}
           f == [i \in D |-> i + 1]
<1>1. /\ DOMAIN Tail(q) = 1 .. Len(q) - 1 /\ DOMAIN q = 1 .. Len(q) /\ Len(q) \in Nat \ {0}
      /\ \A i \in 1 .. Len(q) - 1 : Tail(q)[i] = q[i + 1]
      /\ Head(q) = q[1] /\ Tail(q) \in Seq(Messages)
    OBVIOUS
<1>2. D \subseteq Nat /\ C \subseteq Nat
    BY <1>1
<1>3. f \in Bijection(D, C \ {1})
    <2>1. ASSUME NEW i \in D PROVE f[i] \in C \ {1}
        BY <1>1
    <2>2. ASSUME NEW i \in D, NEW j \in D, f[i] = f[j] PROVE i = j
        BY <1>2, <2>2
    <2>3. ASSUME NEW k \in C \ {1} PROVE \E i \in D : f[i] = k
        <3>1. k - 1 \in D /\ (k - 1) + 1 = k
            BY <1>1
        <3>2. QED
            BY <3>1
    <2>4. f \in [D -> C \ {1}]
        BY <2>1
    <2>5. IsInjective(f)
        BY <2>2 DEF IsInjective
    <2>6. QED
        BY <2>3, <2>4, <2>5 DEF Bijection, Injection, Surjection
<1>4. IsFiniteSet(D) /\ Cardinality(D) \in Nat
    BY <1>1, CountFinite DEF Count
<1>5. IsFiniteSet(C) /\ Cardinality(C) \in Nat
    BY CountFinite DEF Count
<1>6. Count(q, types) = Cardinality(C) /\ Count(Tail(q), types) = Cardinality(D)
    BY DEF Count
<1>7. 1 \in C <=> Head(q).type \in types
    BY <1>1
<1> HIDE DEF C, D, f
<1>8. Cardinality(C \ {1}) = Cardinality(D)
    BY <1>3, <1>4, FS_Bijection DEF ExistsBijection
<1>9. Cardinality(C \ {1}) = IF 1 \in C THEN Cardinality(C) - 1 ELSE Cardinality(C)
    BY <1>5, FS_RemoveElement
<1>10. QED
    BY <1>4, <1>5, <1>6, <1>7, <1>8, <1>9 DEF One

\* Queues are finite.
LEMMA CountTyped ==
    ASSUME NEW q \in Seq(Messages), NEW types
    PROVE  Count(q, types) \in Nat
BY CountFinite

\* None of them in the queue.
LEMMA CountNone ==
    ASSUME NEW q \in Seq(Messages), NEW types, Count(q, types) = 0
    PROVE  Msgs(q, types) = {}
<1>1. {i \in DOMAIN q : q[i].type \in types} = {}
    BY CountFinite, FS_EmptySet DEF Count
<1>2. QED
    BY <1>1 DEF Msgs

\* The first message of these types is the oldest.
LEMMA AscendingTail ==
    ASSUME NEW q \in Seq(Messages), q # <<>>, NEW types, Ascending(q, types)
    PROVE  /\ Ascending(Tail(q), types)
           /\ Head(q).type \in types =>
                \A m \in Msgs(Tail(q), types) : Head(q).session <= m.session
<1>1. /\ DOMAIN Tail(q) = 1 .. Len(q) - 1 /\ DOMAIN q = 1 .. Len(q) /\ Len(q) \in Nat \ {0}
      /\ \A i \in 1 .. Len(q) - 1 : Tail(q)[i] = q[i + 1]
      /\ Head(q) = q[1]
    OBVIOUS
<1>2. ASSUME NEW i \in DOMAIN Tail(q)
      PROVE  i \in Int /\ i + 1 \in DOMAIN q /\ Tail(q)[i] = q[i + 1] /\ 1 < i + 1
    BY <1>1
<1>3. 1 \in DOMAIN q
    BY <1>1
<1>4. \A i, j \in DOMAIN Tail(q) : i < j => i + 1 < j + 1
    BY <1>2
<1>5. QED
    BY <1>1, <1>2, <1>3, <1>4 DEF Ascending, Msgs

\* A message of these types that is appended is the newest.
LEMMA AscendingAppend ==
    ASSUME NEW q \in Seq(Messages), NEW m \in Messages, NEW types, Ascending(q, types),
           m.type \in types => \A n \in Msgs(q, types) : n.session <= m.session
    PROVE  Ascending(Append(q, m), types)
<1>1. /\ DOMAIN Append(q, m) = 1 .. Len(q) + 1 /\ DOMAIN q = 1 .. Len(q) /\ Len(q) \in Nat
      /\ \A i \in 1 .. Len(q) : Append(q, m)[i] = q[i]
      /\ Append(q, m)[Len(q) + 1] = m
    OBVIOUS
<1>2. SUFFICES ASSUME NEW i \in DOMAIN Append(q, m), NEW j \in DOMAIN Append(q, m), i < j,
                      Append(q, m)[i].type \in types, Append(q, m)[j].type \in types
               PROVE  Append(q, m)[i].session <= Append(q, m)[j].session
    BY DEF Ascending
<1>3. i \in DOMAIN q /\ Append(q, m)[i] = q[i]
    BY <1>1, <1>2
<1>4. CASE j \in DOMAIN q
    BY <1>1, <1>2, <1>3, <1>4 DEF Ascending
<1>5. CASE j = Len(q) + 1
    BY <1>1, <1>2, <1>3, <1>5 DEF Msgs
<1>6. QED
    BY <1>1, <1>4, <1>5

-----------------------------------------------------------------------------
(* Questions and answers on their way, in a queue a of the atm and b of the bank *)

DueIn(a, b) == Msgs(b, Questions) \cup Msgs(a, Answers)
CountIn(a, b, types) == Count(b, types \cap Questions) + Count(a, types \cap Answers)
OrderIn(a, b, s) ==
    /\ \A m \in DueIn(a, b) : m.session <= s
    /\ Ascending(b, Questions) /\ Ascending(a, Answers)
    /\ \A m \in Msgs(a, Answers), n \in Msgs(b, Questions) : m.session <= n.session
Granted(a) == Count(a, {"withdraw_ok"})

\* So are the questions, the answers and the withdrawals granted.
LEMMA InTyped ==
    ASSUME NEW a \in Seq(Messages), NEW b \in Seq(Messages), NEW types
    PROVE  CountIn(a, b, types) \in Nat /\ Granted(a) \in Nat
<1>1. Count(b, types \cap Questions) \in Nat /\ Count(a, types \cap Answers) \in Nat
    BY CountTyped
<1>2. QED
    BY <1>1, CountTyped DEF CountIn, Granted

\* The messages of a queue are messages.
LEMMA Sessions ==
    ASSUME NEW q \in Seq(Messages), NEW types
    PROVE  \A m \in Msgs(q, types) : m \in Messages /\ m.session \in Nat
<1>1. \A i \in DOMAIN q : q[i] \in Messages
    OBVIOUS
<1>2. \A m \in Messages : m.session \in Nat
    BY DEF Messages
<1>3. QED
    BY <1>1, <1>2 DEF Msgs

\* Sending the atm what is no answer.
LEMMA SendAtmNews ==
    ASSUME NEW a \in Seq(Messages), NEW b \in Seq(Messages), NEW s, OrderIn(a, b, s),
           NEW m \in Messages, m.type \notin Answers
    PROVE  /\ OrderIn(Append(a, m), b, s) /\ DueIn(Append(a, m), b) = DueIn(a, b)
           /\ \A types :
                CountIn(Append(a, m), b, types) = CountIn(a, b, types)
           /\ Granted(Append(a, m)) = Granted(a)
<1> SUFFICES ASSUME NEW types
             PROVE  /\ OrderIn(Append(a, m), b, s) /\ DueIn(Append(a, m), b) = DueIn(a, b)
                    /\ CountIn(Append(a, m), b, types) = CountIn(a, b, types)
                    /\ Granted(Append(a, m)) = Granted(a)
    OBVIOUS
<1>1. Msgs(Append(a, m), Answers) = Msgs(a, Answers)
    BY MsgsAppend
<1>2. Ascending(Append(a, m), Answers)
    BY AscendingAppend DEF OrderIn
<1>3. m.type \notin types \cap Answers /\ m.type \notin {"withdraw_ok"}
    BY DEF Answers
<1>4. /\ Count(Append(a, m), types \cap Answers)
            = Count(a, types \cap Answers) + One(m, types \cap Answers)
      /\ Granted(Append(a, m)) = Granted(a) + One(m, {"withdraw_ok"})
    BY CountAppend DEF Granted
<1>5. One(m, types \cap Answers) = 0 /\ One(m, {"withdraw_ok"}) = 0
    BY <1>3 DEF One
<1>6. Count(a, types \cap Answers) \in Nat /\ Granted(a) \in Nat
    BY CountTyped DEF Granted
<1>7. CountIn(Append(a, m), b, types) = CountIn(a, b, types) /\ Granted(Append(a, m)) = Granted(a)
    BY <1>4, <1>5, <1>6 DEF CountIn
<1>8. QED
    BY <1>1, <1>2, <1>7 DEF OrderIn, DueIn

\* Sending the bank what is no question.
LEMMA SendBankNews ==
    ASSUME NEW a \in Seq(Messages), NEW b \in Seq(Messages), NEW s, OrderIn(a, b, s),
           NEW m \in Messages, m.type \notin Questions
    PROVE  /\ OrderIn(a, Append(b, m), s) /\ DueIn(a, Append(b, m)) = DueIn(a, b)
           /\ \A types :
                CountIn(a, Append(b, m), types) = CountIn(a, b, types)
<1> SUFFICES ASSUME NEW types
             PROVE  /\ OrderIn(a, Append(b, m), s) /\ DueIn(a, Append(b, m)) = DueIn(a, b)
                    /\ CountIn(a, Append(b, m), types) = CountIn(a, b, types)
    OBVIOUS
<1>1. Msgs(Append(b, m), Questions) = Msgs(b, Questions)
    BY MsgsAppend
<1>2. Ascending(Append(b, m), Questions)
    BY AscendingAppend DEF OrderIn
<1>3. Count(Append(b, m), types \cap Questions) = Count(b, types \cap Questions)
    <2>1. Count(Append(b, m), types \cap Questions)
            = Count(b, types \cap Questions) + One(m, types \cap Questions)
        BY CountAppend
    <2>2. One(m, types \cap Questions) = 0 /\ Count(b, types \cap Questions) \in Nat
        BY CountTyped DEF One
    <2>3. QED
        BY <2>1, <2>2
<1>4. QED
    BY <1>1, <1>2, <1>3 DEF OrderIn, DueIn, CountIn

\* Asking: the question is about the newest session.
LEMMA Ask ==
    ASSUME NEW a \in Seq(Messages), NEW b \in Seq(Messages), NEW s, OrderIn(a, b, s),
           NEW m \in Messages, m.type \in Questions, m.session = s
    PROVE  /\ OrderIn(a, Append(b, m), s) /\ DueIn(a, Append(b, m)) = DueIn(a, b) \cup {m}
           /\ \A types :
                CountIn(a, Append(b, m), types) = CountIn(a, b, types) + One(m, types)
<1> SUFFICES ASSUME NEW types
             PROVE  /\ OrderIn(a, Append(b, m), s) /\ DueIn(a, Append(b, m)) = DueIn(a, b) \cup {m}
                    /\ CountIn(a, Append(b, m), types) = CountIn(a, b, types) + One(m, types)
    OBVIOUS
<1>1. Msgs(Append(b, m), Questions) = Msgs(b, Questions) \cup {m}
    BY MsgsAppend
<1>2. Ascending(Append(b, m), Questions)
    BY AscendingAppend DEF OrderIn, DueIn
<1>3. Count(Append(b, m), types \cap Questions)
        = Count(b, types \cap Questions) + One(m, types)
    <2>1. Count(Append(b, m), types \cap Questions)
            = Count(b, types \cap Questions) + One(m, types \cap Questions)
        BY CountAppend
    <2>2. One(m, types \cap Questions) = One(m, types)
        BY DEF One
    <2>3. QED
        BY <2>1, <2>2
<1>4. DueIn(a, Append(b, m)) = DueIn(a, b) \cup {m}
    BY <1>1 DEF DueIn
<1>5. m.session \in Nat
    BY DEF Messages
<1>6. OrderIn(a, Append(b, m), s)
    BY <1>1, <1>2, <1>4, <1>5 DEF OrderIn, DueIn
<1>7. Count(b, types \cap Questions) \in Nat /\ Count(a, types \cap Answers) \in Nat
    BY CountTyped
<1>8. One(m, types) \in Nat
    BY DEF One
<1>9. QED
    BY <1>3, <1>4, <1>6, <1>7, <1>8 DEF CountIn

\* The atm takes its next message.
LEMMA AtmTakes ==
    ASSUME NEW a \in Seq(Messages), a # <<>>, NEW b \in Seq(Messages), NEW s,
           OrderIn(a, b, s)
    PROVE  /\ OrderIn(Tail(a), b, s) /\ DueIn(Tail(a), b) \subseteq DueIn(a, b)
           /\ Head(a).type \in Answers =>
                /\ Head(a) \in DueIn(a, b)
                /\ \A m \in DueIn(Tail(a), b) : Head(a).session <= m.session
           /\ \A types :
                CountIn(Tail(a), b, types) = CountIn(a, b, types) - One(Head(a), types \cap Answers)
           /\ Granted(Tail(a)) = Granted(a) - One(Head(a), {"withdraw_ok"})
<1> SUFFICES ASSUME NEW types
             PROVE  /\ OrderIn(Tail(a), b, s) /\ DueIn(Tail(a), b) \subseteq DueIn(a, b)
                    /\ Head(a).type \in Answers =>
                         /\ Head(a) \in DueIn(a, b)
                         /\ \A m \in DueIn(Tail(a), b) : Head(a).session <= m.session
                    /\ CountIn(Tail(a), b, types)
                         = CountIn(a, b, types) - One(Head(a), types \cap Answers)
                    /\ Granted(Tail(a)) = Granted(a) - One(Head(a), {"withdraw_ok"})
    OBVIOUS
<1>1. Tail(a) \in Seq(Messages)
    OBVIOUS
<1>2. /\ Msgs(Tail(a), Answers) \subseteq Msgs(a, Answers)
      /\ Head(a).type \in Answers => Head(a) \in Msgs(a, Answers)
    BY MsgsTail
<1>3. /\ Ascending(Tail(a), Answers)
      /\ Head(a).type \in Answers =>
            \A m \in Msgs(Tail(a), Answers) : Head(a).session <= m.session
    BY AscendingTail DEF OrderIn
<1>4. OrderIn(Tail(a), b, s) /\ DueIn(Tail(a), b) \subseteq DueIn(a, b)
    BY <1>2, <1>3 DEF OrderIn, DueIn
<1>5. Head(a).type \in Answers =>
        /\ Head(a) \in DueIn(a, b)
        /\ \A m \in DueIn(Tail(a), b) : Head(a).session <= m.session
    BY <1>2, <1>3 DEF OrderIn, DueIn
<1>6. Count(a, types \cap Answers) = Count(Tail(a), types \cap Answers)
        + One(Head(a), types \cap Answers)
    BY CountTail
<1>7. Count(a, {"withdraw_ok"}) = Count(Tail(a), {"withdraw_ok"})
        + One(Head(a), {"withdraw_ok"})
    BY CountTail
<1>8. /\ Count(b, types \cap Questions) \in Nat /\ Count(Tail(a), types \cap Answers) \in Nat
      /\ Count(Tail(a), {"withdraw_ok"}) \in Nat
      /\ One(Head(a), types \cap Answers) \in Nat /\ One(Head(a), {"withdraw_ok"}) \in Nat
    BY <1>1, CountTyped DEF One
<1>9. CountIn(Tail(a), b, types)
        = CountIn(a, b, types) - One(Head(a), types \cap Answers)
    BY <1>6, <1>8 DEF CountIn
<1>10. Granted(Tail(a)) = Granted(a) - One(Head(a), {"withdraw_ok"})
    BY <1>7, <1>8 DEF Granted
<1>11. QED
    BY <1>4, <1>5, <1>9, <1>10

\* The bank takes its next message.
LEMMA BankTakes ==
    ASSUME NEW a \in Seq(Messages), NEW b \in Seq(Messages), b # <<>>, NEW s,
           OrderIn(a, b, s)
    PROVE  /\ OrderIn(a, Tail(b), s) /\ DueIn(a, Tail(b)) \subseteq DueIn(a, b)
           /\ \A types :
                CountIn(a, Tail(b), types) =
                    CountIn(a, b, types) - One(Head(b), types \cap Questions)
<1> SUFFICES ASSUME NEW types
             PROVE  /\ OrderIn(a, Tail(b), s) /\ DueIn(a, Tail(b)) \subseteq DueIn(a, b)
                    /\ CountIn(a, Tail(b), types)
                         = CountIn(a, b, types) - One(Head(b), types \cap Questions)
    OBVIOUS
<1>1. Tail(b) \in Seq(Messages)
    OBVIOUS
<1>2. Msgs(Tail(b), Questions) \subseteq Msgs(b, Questions)
    BY MsgsTail
<1>3. Ascending(Tail(b), Questions)
    BY AscendingTail DEF OrderIn
<1>4. OrderIn(a, Tail(b), s) /\ DueIn(a, Tail(b)) \subseteq DueIn(a, b)
    BY <1>2, <1>3 DEF OrderIn, DueIn
<1>5. Count(b, types \cap Questions) = Count(Tail(b), types \cap Questions)
        + One(Head(b), types \cap Questions)
    BY CountTail
<1>6. /\ Count(a, types \cap Answers) \in Nat /\ Count(Tail(b), types \cap Questions) \in Nat
      /\ One(Head(b), types \cap Questions) \in Nat
    BY <1>1, CountTyped DEF One
<1>7. QED
    BY <1>4, <1>5, <1>6 DEF CountIn

\* The bank answers: the answer is as old as the question, so no older than any other
\* answer and no newer than the other questions.
LEMMA Reply ==
    ASSUME NEW a \in Seq(Messages), NEW b \in Seq(Messages), b # <<>>, NEW s,
           OrderIn(a, b, s), Head(b).type \in Questions,
           NEW m \in Messages, m.type \in Answers, m.session = Head(b).session
    PROVE  /\ OrderIn(Append(a, m), Tail(b), s)
           /\ Head(b) \in DueIn(a, b)
           /\ DueIn(Append(a, m), Tail(b)) \subseteq DueIn(a, b) \cup {m}
           /\ \A types :
                CountIn(Append(a, m), Tail(b), types) =
                    CountIn(a, b, types) - One(Head(b), types) + One(m, types)
           /\ Granted(Append(a, m)) = Granted(a) + One(m, {"withdraw_ok"})
<1> SUFFICES ASSUME NEW types
             PROVE  /\ OrderIn(Append(a, m), Tail(b), s)
                    /\ Head(b) \in DueIn(a, b)
                    /\ DueIn(Append(a, m), Tail(b)) \subseteq DueIn(a, b) \cup {m}
                    /\ CountIn(Append(a, m), Tail(b), types)
                         = CountIn(a, b, types) - One(Head(b), types) + One(m, types)
                    /\ Granted(Append(a, m)) = Granted(a) + One(m, {"withdraw_ok"})
    OBVIOUS
<1>1. Tail(b) \in Seq(Messages) /\ Append(a, m) \in Seq(Messages)
    OBVIOUS
<1>2. Head(b) \in Msgs(b, Questions) /\ Msgs(Tail(b), Questions) \subseteq Msgs(b, Questions)
    BY MsgsTail
<1>3. /\ Ascending(Tail(b), Questions)
      /\ \A n \in Msgs(Tail(b), Questions) : Head(b).session <= n.session
    BY AscendingTail DEF OrderIn
<1>4. Msgs(Append(a, m), Answers) = Msgs(a, Answers) \cup {m}
    BY MsgsAppend
<1>5. \A n \in Msgs(a, Answers) : n.session <= m.session
    BY <1>2 DEF OrderIn
<1>6. Ascending(Append(a, m), Answers)
    BY <1>5, AscendingAppend DEF OrderIn
<1>7. DueIn(Append(a, m), Tail(b)) \subseteq DueIn(a, b) \cup {m}
    BY <1>2, <1>4 DEF DueIn
<1>8. \A n \in DueIn(Append(a, m), Tail(b)) : n.session <= s
    BY <1>2, <1>7 DEF OrderIn, DueIn
<1>9. \A n \in Msgs(Append(a, m), Answers), k \in Msgs(Tail(b), Questions) :
        n.session <= k.session
    BY <1>2, <1>3, <1>4 DEF OrderIn
<1>10. OrderIn(Append(a, m), Tail(b), s)
    BY <1>3, <1>6, <1>8, <1>9 DEF OrderIn
<1>11. /\ Count(b, types \cap Questions)
            = Count(Tail(b), types \cap Questions) + One(Head(b), types)
       /\ Count(Append(a, m), types \cap Answers) = Count(a, types \cap Answers) + One(m, types)
       /\ Granted(Append(a, m)) = Granted(a) + One(m, {"withdraw_ok"})
    <2>1. /\ One(Head(b), types \cap Questions) = One(Head(b), types)
          /\ One(m, types \cap Answers) = One(m, types)
        BY DEF One
    <2>2. Count(b, types \cap Questions)
            = Count(Tail(b), types \cap Questions) + One(Head(b), types \cap Questions)
        BY CountTail
    <2>3. Count(Append(a, m), types \cap Answers)
            = Count(a, types \cap Answers) + One(m, types \cap Answers)
        BY CountAppend
    <2>4. Granted(Append(a, m)) = Granted(a) + One(m, {"withdraw_ok"})
        BY CountAppend DEF Granted
    <2>5. QED
        BY <2>1, <2>2, <2>3, <2>4
<1>12. /\ Count(a, types \cap Answers) \in Nat /\ Count(Tail(b), types \cap Questions) \in Nat
       /\ One(Head(b), types) \in Nat /\ One(m, types) \in Nat
    BY <1>1, CountTyped DEF One
<1>13. CountIn(Append(a, m), Tail(b), types)
        = CountIn(a, b, types) - One(Head(b), types) + One(m, types)
    BY <1>11, <1>12 DEF CountIn
<1>14. QED
    BY <1>2, <1>7, <1>10, <1>11, <1>13 DEF DueIn

-----------------------------------------------------------------------------
(* The state *)

A == queue["atm"]
B == queue["bank"]
I == queue["interface"]

\* Names for the three queues.
LEMMA QueuesTyped ==
    ASSUME TypeOK
    PROVE  A \in Seq(Messages) /\ B \in Seq(Messages) /\ I \in Seq(Messages)
BY DEF TypeOK, A, B, I, Actors

\* What is on its way is in the queue of the atm or of the bank.
LEMMA OnTheirWay ==
    /\ Due = DueIn(A, B) /\ InOrder = OrderIn(A, B, session)
    /\ Due' = DueIn(A', B') /\ InOrder' = OrderIn(A', B', session')
BY DEF Due, InOrder, DueIn, OrderIn, A, B

\* And so is its number.
LEMMA CountsOnTheirWay ==
    ASSUME NEW types
    PROVE  /\ CountDue(types) = CountIn(A, B, types)
           /\ CountDue(types)' = CountIn(A', B', types)
BY DEF CountDue, CountIn, A, B

Issuing == Count(I, {"issue_money"})

\* The withdrawals that count: issued, on the way to the interface, granted.
LEMMA WithdrawalsAre ==
    ASSUME TypeOK
    PROVE  /\ Withdrawals = issued + Issuing + Granted(A)
           /\ Withdrawals' = issued' + Issuing' + Granted(A')
           /\ Withdrawals \in Nat /\ Issuing \in Nat /\ Granted(A) \in Nat
<1>1. Withdrawals = issued + Issuing + Granted(A)
    BY DEF Withdrawals, Issuing, Granted, A, I
<1>2. Withdrawals' = issued' + Issuing' + Granted(A')
    BY DEF Withdrawals, Issuing, Granted, A, I
<1>3. Issuing \in Nat /\ Granted(A) \in Nat
    BY QueuesTyped, CountTyped DEF Issuing, Granted
<1>4. issued \in Nat
    BY DEF TypeOK
<1>5. QED
    BY <1>1, <1>2, <1>3, <1>4

\* The interface is told to issue money, or takes that.
LEMMA IssuingSent ==
    ASSUME TypeOK, NEW m \in Messages, I' = Append(I, m)
    PROVE  Issuing' = Issuing + One(m, {"issue_money"}) /\ Issuing \in Nat
<1>1. I \in Seq(Messages)
    BY QueuesTyped
<1>2. Count(Append(I, m), {"issue_money"}) = Count(I, {"issue_money"}) + One(m, {"issue_money"})
    BY <1>1, CountAppend
<1>3. Count(I, {"issue_money"}) \in Nat
    BY <1>1, CountTyped
<1>4. QED
    BY <1>2, <1>3 DEF Issuing

\* The interface takes its next message.
LEMMA IssuingTaken ==
    ASSUME TypeOK, I # <<>>, I' = Tail(I)
    PROVE  Issuing = Issuing' + One(Head(I), {"issue_money"}) /\ Issuing \in Nat /\ Issuing' \in Nat
<1>1. I \in Seq(Messages) /\ Tail(I) \in Seq(Messages)
    BY QueuesTyped
<1>2. Count(I, {"issue_money"}) = Count(Tail(I), {"issue_money"}) + One(Head(I), {"issue_money"})
    BY <1>1, CountTail
<1>3. Count(I, {"issue_money"}) \in Nat /\ Count(Tail(I), {"issue_money"}) \in Nat
    BY <1>1, CountTyped
<1>4. QED
    BY <1>2, <1>3 DEF Issuing

\* What one withdrawal more, or less, is.
LEMMA OneWithdrawal ==
    ASSUME NEW n \in Int
    PROVE  /\ Amount * n \in Int /\ Amount * (n + 1) = Amount * n + Amount
           /\ Amount * (n - 1) = Amount * n - Amount
BY AtmAssumption

\* The questions are to the bank, the answers to the atm.
LEMMA Kinds ==
    /\ PinMsgs \cap Questions = {"verify_pin"}
    /\ PinMsgs \cap Answers = {"pin_verified", "pin_incorrect"}
    /\ MoneyMsgs \cap Questions = {"withdraw"}
    /\ MoneyMsgs \cap Answers = {"withdraw_ok", "withdraw_denied"}
BY DEF PinMsgs, MoneyMsgs, Questions, Answers

\* A message is of the kind that its type says.
LEMMA MessageIs ==
    /\ \A t \in (Keys \cup Questions \cup Answers \cup News) \ {"digit_pressed", "verify_pin"},
          s \in Nat : Message(t, s) \in Messages
    /\ \A d \in Digits : Digit(d) \in Messages
    /\ session \in Nat => \A p \in Seq(Digits) : VerifyPin(p) \in Messages
BY DEF Messages, Message, Digit, VerifyPin

\* The fields of a message.
LEMMA MessageHas ==
    ASSUME NEW m \in Messages
    PROVE  /\ m.session \in Nat /\ m.type \in Keys \cup Questions \cup Answers \cup News
           /\ m.type = "digit_pressed" => m.digit \in Digits
           /\ m.type = "verify_pin" => m.pin \in Seq(Digits)
<1>1. CASE m \in [type : (Keys \cup Questions \cup Answers \cup News)
                         \ {"digit_pressed", "verify_pin"}, session : Nat]
    BY <1>1
<1>2. CASE m \in [type : {"digit_pressed"}, session : {0}, digit : Digits]
    BY <1>2 DEF Keys
<1>3. CASE m \in [type : {"verify_pin"}, session : Nat, pin : Seq(Digits)]
    BY <1>3 DEF Questions
<1>4. QED
    BY <1>1, <1>2, <1>3 DEF Messages

\* Not everything is a question or an answer.
LEMMA SomeNews == \E m \in Messages : m.type \notin Questions \cup Answers
<1>1. "eject_card" \in News /\ "eject_card" \notin Questions \cup Answers
    BY DEF News, Questions, Answers
<1>2. Message("eject_card", 0) \in Messages
    BY <1>1, MessageIs
<1>3. QED
    BY <1>1, <1>2 DEF Message

-----------------------------------------------------------------------------
(* What the dispatching does to the queues *)

\* What Takes appends to a queue: nothing, or one message.
LEMMA Concatenate ==
    ASSUME NEW q \in Seq(Messages), NEW m \in Messages
    PROVE  q \o <<>> = q /\ q \o <<m>> = Append(q, m)
OBVIOUS

\* An actor takes a message and sends none.
LEMMA TakesNothing ==
    ASSUME TypeOK, NEW a \in Actors, queue[a] # <<>>, Takes(a, Nothing)
    PROVE  /\ queue' \in [Actors -> Seq(Messages)]
           /\ \A b \in Actors : queue'[b] = IF b = a THEN Tail(queue[b]) ELSE queue[b]
<1>1. \A b \in Actors : queue[b] \in Seq(Messages)
    BY DEF TypeOK
<1>2. Tail(queue[a]) \in Seq(Messages)
    BY <1>1
<1>3. \A q \in Seq(Messages) : q \o <<>> = q
    OBVIOUS
<1>4. queue' = [b \in Actors |-> (IF b = a THEN Tail(queue[b]) ELSE queue[b]) \o <<>>]
    BY DEF Takes, Nothing
<1>5. \A b \in Actors : queue'[b] = IF b = a THEN Tail(queue[b]) ELSE queue[b]
    BY <1>1, <1>2, <1>3, <1>4
<1>6. QED
    BY <1>1, <1>2, <1>4, <1>5

\* An actor takes a message and sends one.
LEMMA TakesTo ==
    ASSUME TypeOK, NEW a \in Actors, queue[a] # <<>>, NEW c \in Actors \ {a},
           NEW m \in Messages, Takes(a, To(c, m))
    PROVE  /\ queue' \in [Actors -> Seq(Messages)]
           /\ queue'[a] = Tail(queue[a]) /\ queue'[c] = Append(queue[c], m)
           /\ \A b \in Actors \ {a, c} : queue'[b] = queue[b]
<1>1. \A b \in Actors : queue[b] \in Seq(Messages)
    BY DEF TypeOK
<1>2. Tail(queue[a]) \in Seq(Messages)
    BY <1>1
<1>3. \A q \in Seq(Messages) : q \o <<>> = q /\ q \o <<m>> = Append(q, m)
    BY Concatenate
<1>4. queue' = [b \in Actors |-> (IF b = a THEN Tail(queue[b]) ELSE queue[b])
                                 \o (IF b = c THEN <<m>> ELSE <<>>)]
    BY DEF Takes, To, Nothing
<1>5. queue'[a] = Tail(queue[a]) \o <<>> /\ queue'[c] = queue[c] \o <<m>>
    BY <1>4
<1>6. \A b \in Actors \ {a, c} : queue'[b] = queue[b] \o <<>>
    BY <1>4
<1>7. /\ queue'[a] = Tail(queue[a]) /\ queue'[c] = Append(queue[c], m)
      /\ \A b \in Actors \ {a, c} : queue'[b] = queue[b]
    BY <1>1, <1>2, <1>3, <1>5, <1>6
<1>8. Append(queue[c], m) \in Seq(Messages)
    BY <1>1
<1>9. \A b \in Actors : queue'[b] \in Seq(Messages)
    BY <1>1, <1>2, <1>7, <1>8
<1>10. queue' \in [Actors -> Seq(Messages)]
    BY <1>4, <1>9
<1>11. QED
    BY <1>7, <1>10

\* main, or the atm that ejects the card, sends a message.
LEMMA Sends ==
    ASSUME TypeOK, NEW a \in Actors, NEW m \in Messages, send(a, m)
    PROVE  /\ queue' \in [Actors -> Seq(Messages)]
           /\ queue'[a] = Append(queue[a], m)
           /\ \A b \in Actors \ {a} : queue'[b] = queue[b]
<1>1. \A b \in Actors : queue[b] \in Seq(Messages)
    BY DEF TypeOK
<1>2. Append(queue[a], m) \in Seq(Messages)
    BY <1>1
<1>3. queue' = [queue EXCEPT ![a] = Append(queue[a], m)] /\ queue \in [Actors -> Seq(Messages)]
    BY DEF TypeOK, send
<1>4. QED
    BY <1>2, <1>3

-----------------------------------------------------------------------------
(* The types *)

\* The next message of an actor.
LEMMA HeadTyped ==
    ASSUME TypeOK, NEW a \in Actors, HasMessage(a)
    PROVE  queue[a] # <<>> /\ Next_(a) \in Messages
<1>1. queue[a] \in Seq(Messages) /\ queue[a] # <<>>
    BY DEF TypeOK, HasMessage
<1>2. QED
    BY <1>1 DEF Next_

-----------------------------------------------------------------------------
(* What a step does to what is on its way *)

\* The numbers of the invariant are numbers.
LEMMA DueTyped ==
    ASSUME TypeOK
    PROVE  /\ CountDue(PinMsgs) \in Nat /\ CountDue(MoneyMsgs) \in Nat
           /\ \A m \in Due : m \in Messages /\ m.session \in Nat
<1>1. \A m \in Due : m \in Messages /\ m.session \in Nat
    BY QueuesTyped, Sessions, OnTheirWay DEF DueIn
<1>2. QED
    BY <1>1, QueuesTyped, InTyped, CountsOnTheirWay

\* The atm takes a message, and may tell the bank something that is no question.
LEMMA AfterTake ==
    ASSUME TypeOK, InOrder, A # <<>>, A' = Tail(A), session' \in Nat, session <= session',
           \/ B' = B
           \/ \E m \in Messages : m.type \notin Questions /\ B' = Append(B, m)
    PROVE  /\ InOrder' /\ Due' \subseteq Due
           /\ Head(A).type \in Answers =>
                Head(A) \in Due /\ \A m \in Due' : Head(A).session <= m.session
           /\ CountDue(PinMsgs)' =
                  CountDue(PinMsgs) - One(Head(A), {"pin_verified", "pin_incorrect"})
           /\ CountDue(MoneyMsgs)' = CountDue(MoneyMsgs)
                                     - One(Head(A), {"withdraw_ok", "withdraw_denied"})
           /\ Granted(A') = Granted(A) - One(Head(A), {"withdraw_ok"})
<1> DEFINE a == Tail(A)
<1>1. A \in Seq(Messages) /\ B \in Seq(Messages) /\ a \in Seq(Messages)
    BY QueuesTyped
<1>2. /\ OrderIn(a, B, session) /\ DueIn(a, B) \subseteq Due
      /\ Head(A).type \in Answers =>
            Head(A) \in Due /\ \A m \in DueIn(a, B) : Head(A).session <= m.session
      /\ Granted(a) = Granted(A) - One(Head(A), {"withdraw_ok"})
    BY <1>1, AtmTakes, OnTheirWay
<1>3. CountIn(a, B, PinMsgs)
        = CountDue(PinMsgs) - One(Head(A), {"pin_verified", "pin_incorrect"})
    BY <1>1, AtmTakes, OnTheirWay, CountsOnTheirWay, Kinds DEF One
<1>4. CountIn(a, B, MoneyMsgs)
        = CountDue(MoneyMsgs) - One(Head(A), {"withdraw_ok", "withdraw_denied"})
    BY <1>1, AtmTakes, OnTheirWay, CountsOnTheirWay, Kinds DEF One
<1>5. /\ OrderIn(a, B', session) /\ DueIn(a, B') = DueIn(a, B)
      /\ CountIn(a, B', PinMsgs) = CountIn(a, B, PinMsgs)
      /\ CountIn(a, B', MoneyMsgs) = CountIn(a, B, MoneyMsgs)
    <2> HIDE DEF a
    <2>1. CASE B' = B
        BY <1>2, <2>1
    <2>2. CASE \E m \in Messages : m.type \notin Questions /\ B' = Append(B, m)
        BY <1>1, <1>2, <2>2, SendBankNews
    <2>3. QED
        BY <2>1, <2>2
<1>6. \A m \in DueIn(a, B') : m.session <= session'
    <2>1. session \in Nat /\ \A m \in DueIn(a, B') : m.session \in Nat
        BY <1>2, <1>5, DueTyped DEF TypeOK
    <2>2. QED
        BY <1>5, <2>1 DEF OrderIn
<1>7. OrderIn(a, B', session')
    BY <1>5, <1>6 DEF OrderIn
<1>8. Due' = DueIn(a, B') /\ InOrder'
    BY <1>7, OnTheirWay
<1>9. QED
    BY <1>2, <1>3, <1>4, <1>5, <1>8, CountsOnTheirWay

\* The atm takes a key, and asks the bank about its card.
LEMMA AfterAsk ==
    ASSUME TypeOK, InOrder, A # <<>>, A' = Tail(A), session' = session,
           Head(A).type \notin Answers,
           NEW m \in Messages, m.type \in Questions, m.session = session, B' = Append(B, m)
    PROVE  /\ InOrder' /\ Due' \subseteq Due \cup {m}
           /\ CountDue(PinMsgs)' = CountDue(PinMsgs) + One(m, PinMsgs)
           /\ CountDue(MoneyMsgs)' = CountDue(MoneyMsgs) + One(m, MoneyMsgs)
           /\ Granted(A') = Granted(A)
<1> DEFINE a == Tail(A)
<1>1. A \in Seq(Messages) /\ B \in Seq(Messages) /\ a \in Seq(Messages)
    BY QueuesTyped
<1>2. /\ OrderIn(a, B, session) /\ DueIn(a, B) \subseteq Due
      /\ Granted(a) = Granted(A) - One(Head(A), {"withdraw_ok"})
    BY <1>1, AtmTakes, OnTheirWay
<1>3. One(Head(A), PinMsgs \cap Answers) = 0 /\ One(Head(A), MoneyMsgs \cap Answers) = 0
    BY DEF One
<1>4. \A types : CountIn(a, B, types) = CountIn(A, B, types) - One(Head(A), types \cap Answers)
    BY <1>1, AtmTakes, OnTheirWay
<1>5. CountIn(a, B, PinMsgs) = CountDue(PinMsgs) /\ CountIn(a, B, MoneyMsgs) = CountDue(MoneyMsgs)
    BY <1>3, <1>4, CountsOnTheirWay, DueTyped
<1>6. One(Head(A), {"withdraw_ok"}) = 0 /\ Granted(A) \in Nat
    BY WithdrawalsAre DEF One, Answers
<1> HIDE DEF a
<1>7. /\ OrderIn(a, B', session') /\ DueIn(a, B') = DueIn(a, B) \cup {m}
      /\ CountIn(a, B', PinMsgs) = CountIn(a, B, PinMsgs) + One(m, PinMsgs)
      /\ CountIn(a, B', MoneyMsgs) = CountIn(a, B, MoneyMsgs) + One(m, MoneyMsgs)
    <2>1. /\ OrderIn(a, Append(B, m), session) /\ DueIn(a, Append(B, m)) = DueIn(a, B) \cup {m}
          /\ CountIn(a, Append(B, m), PinMsgs) = CountIn(a, B, PinMsgs) + One(m, PinMsgs)
        BY <1>1, <1>2, Ask
    <2>2. CountIn(a, Append(B, m), MoneyMsgs) = CountIn(a, B, MoneyMsgs) + One(m, MoneyMsgs)
        BY <1>1, <1>2, Ask
    <2>3. QED
        BY <2>1, <2>2
<1>8. A' = a
    BY DEF a
<1>9. InOrder' /\ Due' \subseteq Due \cup {m}
    BY <1>2, <1>7, <1>8, OnTheirWay
<1>10. /\ CountDue(PinMsgs)' = CountDue(PinMsgs) + One(m, PinMsgs)
       /\ CountDue(MoneyMsgs)' = CountDue(MoneyMsgs) + One(m, MoneyMsgs)
    BY <1>5, <1>7, <1>8, CountsOnTheirWay
<1>11. Granted(A') = Granted(A)
    <2>1. Granted(a) = Granted(A)
        BY <1>2, <1>6
    <2>2. QED
        BY <1>8, <2>1, Zenon
<1>12. QED
    BY <1>9, <1>10, <1>11

\* The bank takes what is no question.
LEMMA AfterHear ==
    ASSUME TypeOK, InOrder, B # <<>>, B' = Tail(B), A' = A, session' = session,
           Head(B).type \notin Questions
    PROVE  /\ InOrder' /\ Due' \subseteq Due
           /\ CountDue(PinMsgs)' = CountDue(PinMsgs) /\ CountDue(MoneyMsgs)' = CountDue(MoneyMsgs)
           /\ Granted(A') = Granted(A)
<1>1. A \in Seq(Messages) /\ B \in Seq(Messages)
    BY QueuesTyped
<1>2. One(Head(B), PinMsgs \cap Questions) = 0 /\ One(Head(B), MoneyMsgs \cap Questions) = 0
    BY DEF One
<1>3. /\ OrderIn(A, Tail(B), session) /\ DueIn(A, Tail(B)) \subseteq Due
      /\ \A types : CountIn(A, Tail(B), types)
                       = CountIn(A, B, types) - One(Head(B), types \cap Questions)
    BY <1>1, BankTakes, OnTheirWay
<1>4. /\ CountIn(A, Tail(B), PinMsgs) = CountDue(PinMsgs)
      /\ CountIn(A, Tail(B), MoneyMsgs) = CountDue(MoneyMsgs)
    BY <1>2, <1>3, CountsOnTheirWay, DueTyped
<1>5. QED
    BY <1>3, <1>4, OnTheirWay, CountsOnTheirWay

\* The bank answers a question.
LEMMA AfterReply ==
    ASSUME TypeOK, InOrder, B # <<>>, B' = Tail(B), session' = session,
           Head(B).type \in Questions,
           NEW m \in Messages, m.type \in Answers, m.session = Head(B).session,
           A' = Append(A, m)
    PROVE  /\ InOrder' /\ Head(B) \in Due /\ Due' \subseteq Due \cup {m}
           /\ CountDue(PinMsgs)' = CountDue(PinMsgs) - One(Head(B), PinMsgs) + One(m, PinMsgs)
           /\ CountDue(MoneyMsgs)' = CountDue(MoneyMsgs) - One(Head(B), MoneyMsgs)
                                     + One(m, MoneyMsgs)
           /\ Granted(A') = Granted(A) + One(m, {"withdraw_ok"})
<1>1. A \in Seq(Messages) /\ B \in Seq(Messages)
    BY QueuesTyped
<1>2. /\ OrderIn(Append(A, m), Tail(B), session) /\ Head(B) \in Due
      /\ DueIn(Append(A, m), Tail(B)) \subseteq Due \cup {m}
      /\ CountIn(Append(A, m), Tail(B), PinMsgs)
            = CountDue(PinMsgs) - One(Head(B), PinMsgs) + One(m, PinMsgs)
      /\ Granted(A') = Granted(A) + One(m, {"withdraw_ok"})
    BY <1>1, Reply, OnTheirWay, CountsOnTheirWay
<1>3. CountIn(Append(A, m), Tail(B), MoneyMsgs)
        = CountDue(MoneyMsgs) - One(Head(B), MoneyMsgs) + One(m, MoneyMsgs)
    BY <1>1, Reply, OnTheirWay, CountsOnTheirWay
<1>4. QED
    BY <1>2, <1>3, OnTheirWay, CountsOnTheirWay

\* A key, or the news that the queue is closed, to whom it may concern.
LEMMA AfterNews ==
    ASSUME TypeOK, InOrder, session' = session,
           NEW m \in Messages, m.type \notin Questions \cup Answers,
           \/ A' = A /\ B' = B
           \/ A' = Append(A, m) /\ B' = B
           \/ A' = A /\ B' = Append(B, m)
    PROVE  /\ InOrder' /\ Due' \subseteq Due
           /\ CountDue(PinMsgs)' = CountDue(PinMsgs) /\ CountDue(MoneyMsgs)' = CountDue(MoneyMsgs)
           /\ Granted(A') = Granted(A)
<1>1. A \in Seq(Messages) /\ B \in Seq(Messages) /\ OrderIn(A, B, session)
    BY QueuesTyped, OnTheirWay
<1> DEFINE Same(a, b) ==
             /\ OrderIn(a, b, session) /\ DueIn(a, b) = DueIn(A, B) /\ Granted(a) = Granted(A)
             /\ CountIn(a, b, PinMsgs) = CountIn(A, B, PinMsgs)
             /\ CountIn(a, b, MoneyMsgs) = CountIn(A, B, MoneyMsgs)
<1>2. m.type \notin Questions /\ m.type \notin Answers
    OBVIOUS
<1>3. Same(Append(A, m), B)
    <2>1. CountIn(Append(A, m), B, MoneyMsgs) = CountIn(A, B, MoneyMsgs)
        BY <1>1, <1>2, SendAtmNews
    <2>2. QED
        BY <1>1, <1>2, <2>1, SendAtmNews
<1>4. Same(A, Append(B, m))
    <2>1. CountIn(A, Append(B, m), MoneyMsgs) = CountIn(A, B, MoneyMsgs)
        BY <1>1, <1>2, SendBankNews
    <2>2. QED
        BY <1>1, <1>2, <2>1, SendBankNews
<1>5. Same(A, B)
    BY <1>1
<1> HIDE DEF Same
<1>6. Same(A', B')
    BY <1>3, <1>4, <1>5
<1>7. QED
    BY <1>6, OnTheirWay, CountsOnTheirWay DEF Same

\* No question or answer about a PIN is due.
LEMMA NonePin ==
    ASSUME TypeOK, CountDue(PinMsgs) = 0
    PROVE  \A m \in Due : m.type \notin PinMsgs
<1>1. A \in Seq(Messages) /\ B \in Seq(Messages)
    BY QueuesTyped
<1>2. Count(B, PinMsgs \cap Questions) \in Nat /\ Count(A, PinMsgs \cap Answers) \in Nat
    BY <1>1, CountTyped
<1>3. Count(B, PinMsgs \cap Questions) = 0 /\ Count(A, PinMsgs \cap Answers) = 0
    BY <1>2 DEF CountDue, A, B
<1>4. Msgs(B, PinMsgs \cap Questions) = {} /\ Msgs(A, PinMsgs \cap Answers) = {}
    BY <1>1, <1>3, CountNone
<1>5. QED
    BY <1>4, OnTheirWay DEF DueIn, Msgs

-----------------------------------------------------------------------------
(* The invariant *)

\* The states of the atm.
LEMMA States ==
    DOMAIN Handles = {"waiting_for_card", "getting_pin", "verifying_pin", "wait_for_action",
                      "process_withdrawal", "process_balance", "done_processing"}
BY DEF Handles

\* The constructor establishes the invariant.
LEMMA InitIInv == Init => IInv
<1> SUFFICES ASSUME Init PROVE IInv
    OBVIOUS
<1>1. \A a \in Actors : queue[a] = <<>>
    BY DEF Init
<1>2. A = <<>> /\ B = <<>> /\ I = <<>>
    BY <1>1 DEF A, B, I, Actors
<1>3. \A types : Count(<<>>, types) = 0 /\ Msgs(<<>>, types) = {} /\ Ascending(<<>>, types)
    <2>1. DOMAIN <<>> = {}
        OBVIOUS
    <2>2. QED
        BY <2>1, FS_EmptySet DEF Count, Msgs, Ascending
<1>4. /\ CountDue(PinMsgs) = 0 /\ CountDue(MoneyMsgs) = 0 /\ Due = {}
      /\ Issuing = 0 /\ Granted(A) = 0 /\ InOrder
    <2>1. CountIn(A, B, PinMsgs) = 0 /\ CountIn(A, B, MoneyMsgs) = 0
        BY <1>2, <1>3 DEF CountIn
    <2>2. DueIn(A, B) = {}
        BY <1>2, <1>3 DEF DueIn
    <2>3. OrderIn(A, B, session)
        BY <1>2, <1>3, <2>2 DEF OrderIn
    <2>4. Issuing = 0 /\ Granted(A) = 0
        BY <1>2, <1>3 DEF Issuing, Granted
    <2>5. QED
        BY <2>1, <2>2, <2>3, <2>4, CountsOnTheirWay, OnTheirWay
<1>5. TypeOK
    BY <1>1, States, AtmAssumption DEF Init, TypeOK
<1>6. Withdrawals = 0
    BY <1>4, <1>5, WithdrawalsAre DEF Init
<1>7. balance + Out = Deposit
    BY <1>6, AtmAssumption DEF Init, Out
<1>8. QED
    BY <1>4, <1>5, <1>7, AtmAssumption
    DEF Init, IInv, AboutPin, InStep, PinInStep, MoneyInStep, Acting

\* A step that leaves the card, the money and what is on its way alone.
LEMMA Quiet ==
    ASSUME IInv, TypeOK', InOrder', Due' \subseteq Due,
           CountDue(PinMsgs)' = CountDue(PinMsgs), CountDue(MoneyMsgs)' = CountDue(MoneyMsgs),
           UNCHANGED <<session, pin, cancelled, stale, balance>>, Withdrawals' = Withdrawals,
           \/ state' = state
           \/ state = "done_processing" /\ state' = "waiting_for_card"
    PROVE  IInv'
<1>1. AboutPin'
    BY DEF IInv, AboutPin
<1>2. InStep'
    BY DEF IInv, InStep, Acting
<1>3. PinInStep'
    BY DEF IInv, PinInStep
<1>4. MoneyInStep'
    BY DEF IInv, MoneyInStep, Out
<1>5. QED
    BY <1>1, <1>2, <1>3, <1>4 DEF IInv

\* What a handler of the atm knows of the message it takes.
LEMMA OnIs ==
    ASSUME TypeOK, NEW s, NEW type, On(s, type)
    PROVE  /\ state = s /\ A # <<>> /\ Head(A) \in Messages /\ Head(A).type = type
           /\ Next_("atm") = Head(A) /\ "atm" \in Actors /\ queue["atm"] # <<>>
           /\ stale' = IF s \in Asked /\ type # "cancel_pressed" /\ Head(A).session # session
                       THEN stale \cup {s} ELSE stale
           /\ UNCHANGED <<running, balance, user, cards, issued>>
BY HeadTyped DEF On, A, Next_, Actors

\* The atm takes a message and tells nobody.
LEMMA AtmAlone ==
    ASSUME TypeOK, "atm" \in Actors, A # <<>>, Takes("atm", Nothing)
    PROVE  queue' \in [Actors -> Seq(Messages)] /\ A' = Tail(A) /\ B' = B /\ I' = I
BY TakesNothing DEF A, B, I, Actors

\* The atm takes a message and sends one to the bank.
LEMMA AtmToBank ==
    ASSUME TypeOK, A # <<>>, NEW m \in Messages, Takes("atm", To("bank", m))
    PROVE  queue' \in [Actors -> Seq(Messages)] /\ A' = Tail(A) /\ B' = Append(B, m) /\ I' = I
<1>1. "atm" \in Actors /\ "bank" \in Actors \ {"atm"} /\ "interface" \in Actors \ {"atm", "bank"}
    BY DEF Actors
<1>2. QED
    BY <1>1, TakesTo DEF A, B, I

\* close_queue ends the actor and changes nothing else.
LEMMA KeepClose ==
    ASSUME IInv, NEW a \in Actors, Close(a) PROVE IInv'
<1> USE DEF IInv
<1>1. /\ queue[a] # <<>> /\ Head(queue[a]).type = "close_queue"
      /\ queue' \in [Actors -> Seq(Messages)]
      /\ \A b \in Actors : queue'[b] = IF b = a THEN Tail(queue[b]) ELSE queue[b]
    BY HeadTyped, TakesNothing DEF Close, Next_
<1>2. TypeOK'
    BY <1>1 DEF Close, TypeOK
<1>3. "close_queue" \notin Questions \cup Answers \cup {"issue_money"}
    BY DEF Questions, Answers
<1>4. A \in Seq(Messages) /\ B \in Seq(Messages) /\ I \in Seq(Messages)
    BY QueuesTyped
<1>5. session' = session /\ session \in Nat /\ issued' = issued
    BY DEF Close, TypeOK
<1>6. /\ InOrder' /\ Due' \subseteq Due
      /\ CountDue(PinMsgs)' = CountDue(PinMsgs) /\ CountDue(MoneyMsgs)' = CountDue(MoneyMsgs)
      /\ Granted(A') = Granted(A) /\ Issuing' = Issuing
    <2>1. CASE a = "atm"
        <3>1. A # <<>> /\ A' = Tail(A) /\ B' = B /\ I' = I /\ Head(A).type = "close_queue"
            BY <1>1, <2>1 DEF A, B, I, Actors
        <3>2. One(Head(A), {"pin_verified", "pin_incorrect"}) = 0
              /\ One(Head(A), {"withdraw_ok", "withdraw_denied"}) = 0
              /\ One(Head(A), {"withdraw_ok"}) = 0
            BY <3>1 DEF One
        <3>3. QED
            BY <1>5, <3>1, <3>2, AfterTake, DueTyped, WithdrawalsAre DEF Issuing
    <2>2. CASE a = "bank"
        <3>1. B # <<>> /\ B' = Tail(B) /\ A' = A /\ I' = I /\ Head(B).type = "close_queue"
            BY <1>1, <2>2 DEF A, B, I, Actors
        <3>2. QED
            BY <1>3, <1>5, <3>1, AfterHear DEF Issuing
    <2>3. CASE a = "interface"
        <3>1. I # <<>> /\ A' = A /\ B' = B /\ I' = Tail(I) /\ Head(I).type = "close_queue"
            BY <1>1, <2>3 DEF A, B, I, Actors
        <3>2. PICK m \in Messages : m.type \notin Questions \cup Answers
            BY SomeNews
        <3>3. Issuing = Issuing'
            <4>1. One(Head(I), {"issue_money"}) = 0
                BY <3>1 DEF One
            <4>2. QED
                BY <3>1, <4>1, IssuingTaken
        <3>4. QED
            BY <1>5, <3>1, <3>2, <3>3, AfterNews
    <2>4. QED
        BY <2>1, <2>2, <2>3 DEF Actors
<1>7. Withdrawals' = Withdrawals
    BY <1>5, <1>6, WithdrawalsAre
<1>8. QED
    BY <1>2, <1>6, <1>7, Quiet DEF Close

\* A message without a handler is dropped: an answer, only after a cancellation.
LEMMA KeepDrop ==
    ASSUME IInv, Drop PROVE IInv'
<1> USE DEF IInv
<1> DEFINE h == Head(A)
<1>1. HasMessage("atm") /\ "atm" \in Actors /\ h = Next_("atm")
    BY DEF Drop, Actors, A, Next_
<1>2. A # <<>> /\ h \in Messages
    BY <1>1, HeadTyped DEF A
<1>3. /\ queue' \in [Actors -> Seq(Messages)] /\ A' = Tail(A) /\ B' = B /\ I' = I
    BY <1>1, <1>2, AtmAlone DEF Drop
<1>4. TypeOK'
    BY <1>3 DEF Drop, TypeOK
<1>5. /\ h.type \notin Handles[state] /\ state # "done_processing"
      /\ UNCHANGED <<session, state, pin, cancelled, stale, balance, issued>>
    BY <1>1 DEF Drop
<1>6. session \in Nat /\ issued \in Nat /\ balance \in Int
    BY DEF TypeOK
<1> HIDE DEF h
<1>7. /\ InOrder' /\ Due' \subseteq Due
      /\ CountDue(PinMsgs)' = CountDue(PinMsgs) - One(h, {"pin_verified", "pin_incorrect"})
      /\ CountDue(MoneyMsgs)' = CountDue(MoneyMsgs) - One(h, {"withdraw_ok", "withdraw_denied"})
      /\ Granted(A') = Granted(A) - One(h, {"withdraw_ok"})
    BY <1>2, <1>3, <1>5, <1>6, AfterTake DEF h
<1>8. /\ CountDue(PinMsgs) \in Nat /\ CountDue(MoneyMsgs) \in Nat
      /\ CountDue(PinMsgs)' \in Nat /\ CountDue(MoneyMsgs)' \in Nat
    <2>1. A' \in Seq(Messages) /\ B' \in Seq(Messages)
        BY <1>3 DEF A, B, Actors
    <2>2. QED
        BY <2>1, DueTyped, InTyped, CountsOnTheirWay
<1>9. Withdrawals' = Withdrawals - One(h, {"withdraw_ok"})
    BY <1>3, <1>5, <1>6, <1>7, WithdrawalsAre DEF Issuing, One
<1>10. AboutPin'
    BY <1>5, <1>7 DEF AboutPin
<1>11. InStep'
    BY <1>5, <1>7 DEF InStep
<1>12. PinInStep'
    <2> SUFFICES ASSUME "verifying_pin" \notin cancelled PROVE PinInStep'
        BY <1>5 DEF PinInStep
    <2>1. h.type \notin {"pin_verified", "pin_incorrect"}
        <3>1. CASE state = "verifying_pin"
            BY <1>5, <3>1 DEF Handles
        <3>2. CASE state # "verifying_pin"
            BY <1>7, <1>8, <3>2 DEF PinInStep, One
        <3>3. QED
            BY <3>1, <3>2
    <2>2. CountDue(PinMsgs)' = CountDue(PinMsgs)
        BY <1>7, <1>8, <2>1 DEF One
    <2>3. QED
        BY <1>5, <1>7, <2>2 DEF PinInStep
<1>13. MoneyInStep'
    <2>1. CASE "process_withdrawal" \notin cancelled
        <3>1. h.type \notin {"withdraw_ok", "withdraw_denied"}
            <4>1. CASE state = "process_withdrawal"
                BY <1>5, <4>1 DEF Handles
            <4>2. CASE state # "process_withdrawal"
                BY <1>7, <1>8, <2>1, <4>2 DEF MoneyInStep, One
            <4>3. QED
                BY <4>1, <4>2
        <3>2. CountDue(MoneyMsgs)' = CountDue(MoneyMsgs) /\ Withdrawals' = Withdrawals
            BY <1>7, <1>8, <1>9, <3>1, WithdrawalsAre DEF One
        <3>3. QED
            BY <1>5, <3>2 DEF MoneyInStep, Out
    <2>2. CASE "process_withdrawal" \in cancelled
        <3>1. Out' <= Out /\ Out \in Int /\ Out' \in Int
            <4>1. Withdrawals \in Nat
                BY WithdrawalsAre
            <4>2. CASE Withdrawals' = Withdrawals
                BY <4>1, <4>2, OneWithdrawal DEF Out
            <4>3. CASE Withdrawals' = Withdrawals - 1
                BY <4>1, <4>3, OneWithdrawal, AtmAssumption DEF Out
            <4>4. One(h, {"withdraw_ok"}) \in {0, 1}
                BY DEF One
            <4>5. QED
                BY <1>9, <4>1, <4>2, <4>3, <4>4
        <3>2. balance' = balance /\ balance \in Int /\ Deposit \in Int /\ balance + Out <= Deposit
            BY <1>5, <1>6, AtmAssumption DEF MoneyInStep
        <3>3. balance' + Out' <= Deposit
            <4>1. \A b, o, p, d \in Int : p <= o /\ b + o <= d => b + p <= d
                OBVIOUS
            <4>2. QED
                BY <3>1, <3>2, <4>1
        <3>4. QED
            BY <1>5, <2>2, <3>3 DEF MoneyInStep
    <2>3. QED
        BY <2>1, <2>2
<1>14. QED
    BY <1>4, <1>7, <1>10, <1>11, <1>12, <1>13

\* The next card: all that is on its way is about an earlier one.
LEMMA KeepCard ==
    ASSUME IInv, waiting_for_card PROVE IInv'
<1> USE DEF IInv
<1>1. /\ state = "waiting_for_card" /\ A # <<>> /\ Head(A).type = "card_inserted"
      /\ "atm" \in Actors /\ stale' = stale
      /\ UNCHANGED <<running, balance, user, cards, issued>>
    BY OnIs DEF waiting_for_card, Asked
<1>2. /\ queue' \in [Actors -> Seq(Messages)] /\ A' = Tail(A) /\ B' = B /\ I' = I
    BY <1>1, AtmAlone DEF waiting_for_card
<1>3. /\ pin' = <<>> /\ session' = session + 1 /\ state' = "getting_pin"
      /\ cancelled' = cancelled /\ session \in Nat /\ session' \in Nat /\ issued \in Nat
    BY DEF waiting_for_card, TypeOK
<1>4. TypeOK'
    BY <1>1, <1>2, <1>3, States DEF TypeOK
<1>5. /\ One(Head(A), {"pin_verified", "pin_incorrect"}) = 0
      /\ One(Head(A), {"withdraw_ok", "withdraw_denied"}) = 0
      /\ One(Head(A), {"withdraw_ok"}) = 0
    BY <1>1 DEF One
<1>6. /\ InOrder' /\ Due' \subseteq Due
      /\ CountDue(PinMsgs)' = CountDue(PinMsgs) /\ CountDue(MoneyMsgs)' = CountDue(MoneyMsgs)
      /\ Granted(A') = Granted(A)
    BY <1>1, <1>2, <1>3, <1>5, AfterTake, DueTyped, WithdrawalsAre
<1>7. Withdrawals' = Withdrawals
    BY <1>1, <1>2, <1>6, WithdrawalsAre DEF Issuing
<1>8. \A m \in Due : m.session # session'
    BY <1>3, DueTyped DEF InOrder
<1>9. AboutPin'
    BY <1>6, <1>8 DEF AboutPin
<1>10. InStep'
    BY <1>1, <1>3 DEF InStep, Acting
<1>11. PinInStep'
    <2> SUFFICES ASSUME "verifying_pin" \notin cancelled PROVE PinInStep'
        BY <1>3 DEF PinInStep
    <2>1. CountDue(PinMsgs) = 0
        BY <1>1 DEF PinInStep
    <2>2. \A m \in Due : m.type \notin PinMsgs
        BY <2>1, NonePin
    <2>3. QED
        BY <1>1, <1>3, <1>6, <2>1, <2>2 DEF PinInStep
<1>12. MoneyInStep'
    BY <1>1, <1>3, <1>6, <1>7 DEF MoneyInStep, Out
<1>13. QED
    BY <1>4, <1>6, <1>9, <1>10, <1>11, <1>12

\* A digit; the last one has the PIN verified.
LEMMA KeepDigit ==
    ASSUME IInv, getting_pin PROVE IInv'
<1> USE DEF IInv
<1>1. /\ state = "getting_pin" /\ A # <<>> /\ Head(A).type = "digit_pressed"
      /\ Next_("atm") = Head(A) /\ Head(A) \in Messages
      /\ "atm" \in Actors /\ stale' = stale
      /\ UNCHANGED <<running, balance, user, cards, issued>>
    BY OnIs DEF getting_pin, Asked
<1>2. /\ pin' \in Seq(Digits) /\ session' = session /\ cancelled' = cancelled
      /\ session \in Nat /\ issued \in Nat
    <2>1. Head(A).digit \in Digits /\ pin \in Seq(Digits)
        BY <1>1, MessageHas DEF TypeOK
    <2>2. QED
        BY <1>1, <2>1 DEF getting_pin, TypeOK
<1>3. /\ One(Head(A), {"pin_verified", "pin_incorrect"}) = 0
      /\ One(Head(A), {"withdraw_ok", "withdraw_denied"}) = 0
      /\ One(Head(A), {"withdraw_ok"}) = 0
      /\ Head(A).type \notin Answers
    BY <1>1 DEF One, Answers
<1>4. CASE Takes("atm", Nothing) /\ UNCHANGED state
    <2>1. /\ queue' \in [Actors -> Seq(Messages)] /\ A' = Tail(A) /\ B' = B /\ I' = I
        BY <1>1, <1>4, AtmAlone
    <2>2. TypeOK'
        BY <1>1, <1>2, <1>4, <2>1 DEF TypeOK
    <2>3. /\ InOrder' /\ Due' \subseteq Due
          /\ CountDue(PinMsgs)' = CountDue(PinMsgs) /\ CountDue(MoneyMsgs)' = CountDue(MoneyMsgs)
          /\ Granted(A') = Granted(A)
        BY <1>1, <1>2, <1>3, <2>1, AfterTake, DueTyped, WithdrawalsAre
    <2>4. Withdrawals' = Withdrawals
        BY <1>1, <2>1, <2>3, WithdrawalsAre DEF Issuing
    <2>5. AboutPin'
        BY <1>1, <1>2, <2>3 DEF AboutPin
    <2>6. InStep' /\ PinInStep' /\ MoneyInStep'
        BY <1>1, <1>2, <1>4, <2>3, <2>4 DEF InStep, Acting, PinInStep, MoneyInStep, Out
    <2>7. QED
        BY <2>2, <2>3, <2>5, <2>6
<1>5. CASE Takes("atm", To("bank", VerifyPin(pin'))) /\ state' = "verifying_pin"
    <2>1. PICK m : m = VerifyPin(pin')
        OBVIOUS
    <2>2. /\ m \in Messages /\ m.type = "verify_pin" /\ m.session = session /\ m.pin = pin'
          /\ Takes("atm", To("bank", m))
        BY <1>2, <1>5, <2>1, MessageIs DEF VerifyPin
    <2>3. /\ queue' \in [Actors -> Seq(Messages)]
          /\ A' = Tail(A) /\ B' = Append(B, m) /\ I' = I
        BY <1>1, <2>2, AtmToBank
    <2>4. TypeOK'
        BY <1>1, <1>2, <1>5, <2>3, States DEF TypeOK
    <2>5. m.type \in Questions /\ One(m, PinMsgs) = 1 /\ One(m, MoneyMsgs) = 0
        BY <2>2 DEF One, Questions, PinMsgs, MoneyMsgs
    <2>6. /\ InOrder' /\ Due' \subseteq Due \cup {m}
          /\ CountDue(PinMsgs)' = CountDue(PinMsgs) + 1
          /\ CountDue(MoneyMsgs)' = CountDue(MoneyMsgs)
          /\ Granted(A') = Granted(A)
        BY <1>1, <1>2, <1>3, <2>2, <2>3, <2>5, AfterAsk, DueTyped
    <2>7. Withdrawals' = Withdrawals
        BY <1>1, <2>3, <2>6, WithdrawalsAre DEF Issuing
    <2>8. AboutPin'
        BY <1>1, <1>2, <1>5, <2>2, <2>6 DEF AboutPin
    <2>9. InStep' /\ MoneyInStep'
        BY <1>1, <1>2, <1>5, <2>6, <2>7 DEF InStep, Acting, MoneyInStep, Out
    <2>10. PinInStep'
        BY <1>1, <1>2, <1>5, <2>2, <2>6 DEF PinInStep
    <2>11. QED
        BY <2>4, <2>6, <2>8, <2>9, <2>10
<1>6. QED
    BY <1>4, <1>5 DEF getting_pin

\* The answer about the PIN: unless it is stale, it is about the PIN that was entered.
LEMMA KeepVerified ==
    ASSUME IInv, verifying_pin PROVE IInv'
<1> USE DEF IInv
<1> DEFINE h == Head(A)
<1>1. /\ state = "verifying_pin" /\ A # <<>> /\ h \in Messages /\ "atm" \in Actors
      /\ \/ h.type = "pin_verified" /\ state' = "wait_for_action"
         \/ h.type = "pin_incorrect" /\ state' = "done_processing"
      /\ stale' = IF h.session # session THEN stale \cup {"verifying_pin"} ELSE stale
      /\ UNCHANGED <<running, balance, user, cards, issued>>
    <2>1. PICK t \in {"pin_verified", "pin_incorrect"} :
            /\ On("verifying_pin", t)
            /\ state' = IF t = "pin_verified" THEN "wait_for_action" ELSE "done_processing"
        BY DEF verifying_pin
    <2>2. "verifying_pin" \in Asked /\ t # "cancel_pressed"
        BY DEF Asked
    <2>3. QED
        BY <2>1, <2>2, OnIs
<1>2. /\ queue' \in [Actors -> Seq(Messages)] /\ A' = Tail(A) /\ B' = B /\ I' = I
    BY <1>1, AtmAlone DEF verifying_pin
<1>3. /\ session' = session /\ cancelled' = cancelled /\ pin' = pin
      /\ session \in Nat /\ issued \in Nat
    BY DEF verifying_pin, TypeOK
<1>4. TypeOK'
    BY <1>1, <1>2, <1>3, States DEF TypeOK, Asked
<1> HIDE DEF h
<1>5. /\ One(h, {"pin_verified", "pin_incorrect"}) = 1 /\ One(h, {"withdraw_ok"}) = 0
      /\ One(h, {"withdraw_ok", "withdraw_denied"}) = 0
      /\ h.type \in Answers
    BY <1>1 DEF One, Answers
<1>6. /\ InOrder' /\ Due' \subseteq Due
      /\ h \in Due /\ \A m \in Due' : h.session <= m.session
      /\ CountDue(PinMsgs)' = CountDue(PinMsgs) - 1
      /\ CountDue(MoneyMsgs)' = CountDue(MoneyMsgs)
      /\ Granted(A') = Granted(A)
    BY <1>1, <1>2, <1>3, <1>5, AfterTake, DueTyped, WithdrawalsAre DEF h
<1>7. Withdrawals' = Withdrawals
    BY <1>1, <1>2, <1>6, WithdrawalsAre DEF Issuing
<1>8. AboutPin'
    BY <1>1, <1>3, <1>6 DEF AboutPin
<1>9. InStep'
    <2> SUFFICES ASSUME "verifying_pin" \notin stale' PROVE InStep'
        BY DEF InStep
    <2>1. h.session = session /\ stale' = stale /\ stale = {}
        BY <1>1 DEF InStep
    <2>2. ASSUME state' \in Acting PROVE pin' = Pin
        BY <1>1, <1>3, <1>6, <2>1, <2>2 DEF AboutPin, Acting
    <2>3. ASSUME NEW m \in Due' PROVE m.session = session'
        <3>1. m.session \in Nat /\ m.session <= session /\ session <= m.session
            BY <1>6, <2>1, DueTyped DEF InOrder
        <3>2. QED
            BY <1>3, <3>1
    <2>4. QED
        BY <2>1, <2>2, <2>3 DEF InStep
<1>10. PinInStep'
    <2> SUFFICES ASSUME "verifying_pin" \notin cancelled PROVE PinInStep'
        BY <1>3 DEF PinInStep
    <2>1. CountDue(PinMsgs) = 1 /\ "verifying_pin" \notin stale
        BY <1>1 DEF PinInStep
    <2>2. h.session = session
        BY <1>1, <1>6 DEF PinInStep, PinMsgs
    <2>3. QED
        BY <1>1, <1>3, <1>6, <2>1, <2>2 DEF PinInStep
<1>11. MoneyInStep'
    BY <1>1, <1>3, <1>6, <1>7 DEF MoneyInStep, Out
<1>12. QED
    BY <1>4, <1>6, <1>8, <1>9, <1>10, <1>11

\* The atm asks for money, or for the balance.
LEMMA KeepAction ==
    ASSUME IInv, wait_for_action PROVE IInv'
<1> USE DEF IInv
<1>1. PICK k \in {"withdraw_pressed", "balance_pressed"} :
        /\ On("wait_for_action", k)
        /\ Takes("atm", To("bank", Question(IF k = "withdraw_pressed" THEN "withdraw"
                                            ELSE "get_balance")))
        /\ state' = IF k = "withdraw_pressed" THEN "process_withdrawal" ELSE "process_balance"
    BY DEF wait_for_action
<1>2. /\ state = "wait_for_action" /\ A # <<>> /\ Head(A).type = k
      /\ stale' = stale /\ UNCHANGED <<running, balance, user, cards, issued>>
    BY <1>1, OnIs DEF Asked
<1>3. /\ session' = session /\ cancelled' = cancelled /\ pin' = pin
      /\ session \in Nat /\ issued \in Nat
    BY DEF wait_for_action, TypeOK
<1>4. PICK m : m = Question(IF k = "withdraw_pressed" THEN "withdraw" ELSE "get_balance")
    OBVIOUS
<1>5. /\ m \in Messages /\ m.session = session /\ Takes("atm", To("bank", m))
      /\ m.type = IF k = "withdraw_pressed" THEN "withdraw" ELSE "get_balance"
    <2>1. "withdraw" \in Questions \ {"verify_pin"} /\ "get_balance" \in Questions \ {"verify_pin"}
          /\ "digit_pressed" \notin Questions
        BY DEF Questions
    <2>2. QED
        BY <1>1, <1>3, <1>4, <2>1, MessageIs DEF Question, Message
<1>6. queue' \in [Actors -> Seq(Messages)] /\ A' = Tail(A) /\ B' = Append(B, m) /\ I' = I
    BY <1>2, <1>5, AtmToBank
<1>7. TypeOK'
    BY <1>1, <1>2, <1>3, <1>6, States DEF TypeOK
<1>8. /\ m.type \in Questions /\ Head(A).type \notin Answers
      /\ One(m, PinMsgs) = 0
      /\ One(m, MoneyMsgs) = IF state' = "process_withdrawal" THEN 1 ELSE 0
    BY <1>1, <1>2, <1>5 DEF One, Questions, Answers, PinMsgs, MoneyMsgs
<1>9. /\ InOrder' /\ Due' \subseteq Due \cup {m}
      /\ CountDue(PinMsgs)' = CountDue(PinMsgs)
      /\ CountDue(MoneyMsgs)' = CountDue(MoneyMsgs)
                                + (IF state' = "process_withdrawal" THEN 1 ELSE 0)
      /\ Granted(A') = Granted(A)
    BY <1>2, <1>3, <1>5, <1>6, <1>8, AfterAsk, DueTyped
<1>10. Withdrawals' = Withdrawals
    BY <1>2, <1>6, <1>9, WithdrawalsAre DEF Issuing
<1>11. m.type \notin PinMsgs
    BY <1>5 DEF PinMsgs
<1>12. AboutPin'
    BY <1>1, <1>3, <1>9, <1>11 DEF AboutPin, PinMsgs
<1>13. InStep'
    BY <1>2, <1>3, <1>5, <1>9 DEF InStep, Acting
<1>14. PinInStep'
    BY <1>1, <1>2, <1>3, <1>9, <1>11 DEF PinInStep
<1>15. MoneyInStep'
    BY <1>2, <1>3, <1>9, <1>10 DEF MoneyInStep, Out
<1>16. QED
    BY <1>7, <1>9, <1>12, <1>13, <1>14, <1>15

\* The answer about the balance.
LEMMA KeepBalance ==
    ASSUME IInv, process_balance PROVE IInv'
<1> USE DEF IInv
<1> DEFINE h == Head(A)
<1>1. /\ state = "process_balance" /\ A # <<>> /\ h.type = "balance" /\ "atm" \in Actors
      /\ stale' = IF h.session # session THEN stale \cup {"process_balance"} ELSE stale
      /\ state' = "wait_for_action"
      /\ UNCHANGED <<running, balance, user, cards, issued>>
    <2>1. "process_balance" \in Asked
        BY DEF Asked
    <2>2. QED
        BY <2>1, OnIs DEF process_balance
<1>2. /\ queue' \in [Actors -> Seq(Messages)] /\ A' = Tail(A) /\ B' = B /\ I' = I
    BY <1>1, AtmAlone DEF process_balance
<1>3. /\ session' = session /\ cancelled' = cancelled /\ pin' = pin
      /\ session \in Nat /\ issued \in Nat
    BY DEF process_balance, TypeOK
<1>4. TypeOK'
    BY <1>1, <1>2, <1>3, States DEF TypeOK, Asked
<1> HIDE DEF h
<1>5. /\ One(h, {"pin_verified", "pin_incorrect"}) = 0 /\ One(h, {"withdraw_ok"}) = 0
      /\ One(h, {"withdraw_ok", "withdraw_denied"}) = 0
      /\ h.type \in Answers
    BY <1>1 DEF One, Answers
<1>6. /\ InOrder' /\ Due' \subseteq Due /\ h \in Due
      /\ CountDue(PinMsgs)' = CountDue(PinMsgs)
      /\ CountDue(MoneyMsgs)' = CountDue(MoneyMsgs)
      /\ Granted(A') = Granted(A)
    BY <1>1, <1>2, <1>3, <1>5, AfterTake, DueTyped, WithdrawalsAre DEF h
<1>7. Withdrawals' = Withdrawals
    BY <1>1, <1>2, <1>6, WithdrawalsAre DEF Issuing
<1>8. AboutPin'
    BY <1>1, <1>3, <1>6 DEF AboutPin
<1>9. InStep'
    BY <1>1, <1>3, <1>6 DEF InStep, Acting
<1>10. PinInStep' /\ MoneyInStep'
    BY <1>1, <1>3, <1>6, <1>7 DEF PinInStep, MoneyInStep, Out
<1>11. QED
    BY <1>4, <1>6, <1>8, <1>9, <1>10

\* The answer about the money: what is granted is issued.
LEMMA KeepWithdrawal ==
    ASSUME IInv, process_withdrawal PROVE IInv'
<1> USE DEF IInv
<1> DEFINE h == Head(A)
<1>1. PICK t \in {"withdraw_ok", "withdraw_denied"} :
        /\ On("process_withdrawal", t)
        /\ IF t = "withdraw_ok"
           THEN Takes("atm", [To("interface", Question("issue_money"))
                              EXCEPT !["bank"] = <<Question("withdrawal_processed")>>])
           ELSE Takes("atm", Nothing)
    BY DEF process_withdrawal
<1>2. /\ state = "process_withdrawal" /\ A # <<>> /\ h.type = t /\ h \in Messages
      /\ "atm" \in Actors /\ queue["atm"] # <<>>
      /\ stale' = IF h.session # session THEN stale \cup {"process_withdrawal"} ELSE stale
      /\ state' = "done_processing"
      /\ UNCHANGED <<running, balance, user, cards, issued>>
    <2>1. "process_withdrawal" \in Asked /\ t # "cancel_pressed"
        BY DEF Asked
    <2>2. QED
        BY <1>1, <2>1, OnIs DEF process_withdrawal
<1>3. /\ session' = session /\ cancelled' = cancelled /\ pin' = pin
      /\ session \in Nat /\ issued \in Nat
    BY DEF process_withdrawal, TypeOK
<1>4. PICK n : n = Question("withdrawal_processed")
    OBVIOUS
<1>5. PICK money : money = Question("issue_money")
    OBVIOUS
<1>6. /\ n \in Messages /\ n.type \notin Questions /\ money \in Messages
      /\ money.type = "issue_money"
    <2>1. {"withdrawal_processed", "issue_money"} \subseteq News \ {"digit_pressed", "verify_pin"}
        BY DEF News
    <2>2. n \in Messages /\ money \in Messages
        BY <1>3, <1>4, <1>5, <2>1, MessageIs DEF Question
    <2>3. n.type = "withdrawal_processed" /\ money.type = "issue_money"
        BY <1>4, <1>5 DEF Question, Message
    <2>4. QED
        BY <2>2, <2>3 DEF Questions
<1>7. A \in Seq(Messages) /\ B \in Seq(Messages) /\ I \in Seq(Messages)
    BY QueuesTyped
<1>8. /\ queue' \in [Actors -> Seq(Messages)] /\ A' = Tail(A)
      /\ IF t = "withdraw_ok" THEN B' = Append(B, n) /\ I' = Append(I, money)
         ELSE B' = B /\ I' = I
    <2>1. CASE t = "withdraw_denied"
        BY <1>1, <1>2, <2>1, AtmAlone
    <2>2. CASE t = "withdraw_ok"
        <3>1. queue' = [b \in Actors |-> (IF b = "atm" THEN Tail(queue[b]) ELSE queue[b])
                                         \o (IF b = "bank" THEN <<n>>
                                             ELSE IF b = "interface" THEN <<money>> ELSE <<>>)]
            BY <1>1, <1>4, <1>5, <2>2 DEF Takes, To, Nothing, Actors
        <3>2. Actors = {"atm", "bank", "interface"}
            BY DEF Actors
        <3>3. A' = Tail(A) \o <<>> /\ B' = B \o <<n>> /\ I' = I \o <<money>>
            BY <3>1, <3>2 DEF A, B, I
        <3>4. A' = Tail(A) /\ B' = Append(B, n) /\ I' = Append(I, money)
            BY <1>2, <1>6, <1>7, <3>3, Concatenate
        <3>5. A' \in Seq(Messages) /\ B' \in Seq(Messages) /\ I' \in Seq(Messages)
            BY <1>2, <1>6, <1>7, <3>4
        <3>6. \A b \in Actors : queue'[b] \in Seq(Messages)
            BY <3>2, <3>5 DEF A, B, I
        <3>7. \E f : queue' = [b \in Actors |-> f[b]]
            BY <1>1, <2>2 DEF Takes
        <3>8. QED
            BY <2>2, <3>4, <3>6, <3>7
    <2>3. QED
        BY <2>1, <2>2
<1>9. TypeOK'
    BY <1>2, <1>3, <1>8, States DEF TypeOK, Asked
<1> HIDE DEF h
<1>10. /\ One(h, {"pin_verified", "pin_incorrect"}) = 0
       /\ One(h, {"withdraw_ok"}) = IF t = "withdraw_ok" THEN 1 ELSE 0
       /\ One(h, {"withdraw_ok", "withdraw_denied"}) = 1
       /\ h.type \in Answers
    BY <1>2 DEF One, Answers
<1>11. /\ InOrder' /\ Due' \subseteq Due /\ h \in Due
       /\ CountDue(PinMsgs)' = CountDue(PinMsgs)
       /\ CountDue(MoneyMsgs)' = CountDue(MoneyMsgs) - 1
       /\ Granted(A') = Granted(A) - (IF t = "withdraw_ok" THEN 1 ELSE 0)
    BY <1>2, <1>3, <1>6, <1>8, <1>10, AfterTake, DueTyped DEF h
<1>12. Issuing' = Issuing + (IF t = "withdraw_ok" THEN 1 ELSE 0) /\ Issuing \in Nat
    <2>1. CASE t = "withdraw_ok"
        <3>1. One(money, {"issue_money"}) = 1 /\ I' = Append(I, money)
            BY <1>6, <1>8, <2>1 DEF One
        <3>2. QED
            BY <1>6, <2>1, <3>1, IssuingSent
    <2>2. CASE t # "withdraw_ok"
        <3>1. I' = I
            BY <1>8, <2>2
        <3>2. QED
            BY <2>2, <3>1, WithdrawalsAre DEF Issuing
    <2>3. QED
        BY <2>1, <2>2
<1>13. Withdrawals' = Withdrawals
    BY <1>2, <1>3, <1>11, <1>12, WithdrawalsAre
<1>14. AboutPin'
    BY <1>2, <1>3, <1>11 DEF AboutPin
<1>15. InStep'
    BY <1>2, <1>3, <1>11 DEF InStep, Acting
<1>16. PinInStep'
    BY <1>2, <1>3, <1>11 DEF PinInStep
<1>17. MoneyInStep'
    <2>1. CountDue(MoneyMsgs) \in Nat
        BY DueTyped
    <2>2. QED
        BY <1>2, <1>3, <1>11, <1>13, <2>1 DEF MoneyInStep, Out
<1>18. QED
    BY <1>9, <1>11, <1>14, <1>15, <1>16, <1>17

\* cancel_pressed: the state that it leaves is one where an answer may still come.
LEMMA KeepCancel ==
    ASSUME IInv, cancel PROVE IInv'
<1> USE DEF IInv
<1>1. PICK s \in DOMAIN Handles : On(s, "cancel_pressed")
    BY DEF cancel
<1>2. /\ state = s /\ A # <<>> /\ Head(A).type = "cancel_pressed" /\ "atm" \in Actors
      /\ stale' = stale /\ UNCHANGED <<running, balance, user, cards, issued>>
    BY <1>1, OnIs
<1>3. /\ session' = session /\ pin' = pin /\ session \in Nat /\ issued \in Nat
      /\ cancelled' = cancelled \cup ({state} \cap Asked) /\ state' = "done_processing"
    BY DEF cancel, TypeOK
<1>4. PICK n : n = Question("cancel_withdrawal")
    OBVIOUS
<1>5. n \in Messages /\ n.type \notin Questions
    <2>1. "cancel_withdrawal" \in News \ {"digit_pressed", "verify_pin"}
        BY DEF News
    <2>2. n \in Messages /\ n.type = "cancel_withdrawal"
        BY <1>3, <1>4, <2>1, MessageIs DEF Question, Message
    <2>3. QED
        BY <2>2 DEF Questions
<1>6. /\ queue' \in [Actors -> Seq(Messages)] /\ A' = Tail(A) /\ B' \in {B, Append(B, n)} /\ I' = I
    <2>1. CASE state = "process_withdrawal"
        BY <1>2, <1>4, <1>5, <2>1, AtmToBank DEF cancel
    <2>2. CASE state # "process_withdrawal"
        BY <1>2, <2>2, AtmAlone DEF cancel
    <2>3. QED
        BY <2>1, <2>2
<1>7. TypeOK'
    BY <1>2, <1>3, <1>6, States DEF TypeOK, Asked
<1>8. /\ One(Head(A), {"pin_verified", "pin_incorrect"}) = 0
      /\ One(Head(A), {"withdraw_ok", "withdraw_denied"}) = 0
      /\ One(Head(A), {"withdraw_ok"}) = 0
    BY <1>2 DEF One
<1>9. /\ InOrder' /\ Due' \subseteq Due
      /\ CountDue(PinMsgs)' = CountDue(PinMsgs) /\ CountDue(MoneyMsgs)' = CountDue(MoneyMsgs)
      /\ Granted(A') = Granted(A)
    BY <1>2, <1>3, <1>5, <1>6, <1>8, AfterTake, DueTyped, WithdrawalsAre
<1>10. Withdrawals' = Withdrawals
    BY <1>2, <1>6, <1>9, WithdrawalsAre DEF Issuing
<1>11. AboutPin'
    BY <1>3, <1>9 DEF AboutPin
<1>12. InStep'
    BY <1>2, <1>3, <1>9 DEF InStep, Acting
<1>13. PinInStep' /\ MoneyInStep'
    BY <1>2, <1>3, <1>9, <1>10 DEF PinInStep, MoneyInStep, Out, Asked
<1>14. QED
    BY <1>7, <1>9, <1>11, <1>12, <1>13

\* The card is given back.
LEMMA KeepDone ==
    ASSUME IInv, done_processing PROVE IInv'
<1> USE DEF IInv
<1>1. PICK m : m = Message("eject_card", session)
    OBVIOUS
<1>2. /\ send("interface", m) /\ session' = session /\ session \in Nat /\ issued' = issued
      /\ state = "done_processing" /\ state' = "waiting_for_card"
      /\ UNCHANGED <<session, pin, cancelled, stale, balance>>
    BY <1>1 DEF done_processing, TypeOK
<1>3. m \in Messages /\ m.type = "eject_card"
    <2>1. "eject_card" \in News \ {"digit_pressed", "verify_pin"}
        BY DEF News
    <2>2. QED
        BY <1>1, <1>2, <2>1, MessageIs DEF Message
<1>4. /\ "interface" \in Actors
      /\ "atm" \in Actors \ {"interface"} /\ "bank" \in Actors \ {"interface"}
    BY DEF Actors
<1>5. /\ queue' \in [Actors -> Seq(Messages)] /\ A' = A /\ B' = B /\ I' = Append(I, m)
    BY <1>2, <1>3, <1>4, Sends DEF A, B, I
<1>6. TypeOK'
    BY <1>2, <1>5, States DEF done_processing, TypeOK
<1>7. m.type \notin Questions \cup Answers /\ m.type \notin {"issue_money"}
    BY <1>3 DEF Questions, Answers
<1>8. /\ InOrder' /\ Due' \subseteq Due
      /\ CountDue(PinMsgs)' = CountDue(PinMsgs) /\ CountDue(MoneyMsgs)' = CountDue(MoneyMsgs)
      /\ Granted(A') = Granted(A)
    BY <1>2, <1>3, <1>5, <1>7, AfterNews
<1>9. Issuing' = Issuing
    <2>1. One(m, {"issue_money"}) = 0
        BY <1>7 DEF One
    <2>2. QED
        BY <1>3, <1>5, <2>1, IssuingSent
<1>10. Withdrawals' = Withdrawals
    BY <1>2, <1>8, <1>9, WithdrawalsAre
<1>11. QED
    BY <1>2, <1>6, <1>8, <1>10, Quiet

\* What the bank takes, and what it answers.
LEMMA BankOnIs ==
    ASSUME TypeOK, NEW type, BankOn(type)
    PROVE  /\ B # <<>> /\ Head(B) \in Messages /\ Head(B).type = type
           /\ Next_("bank") = Head(B) /\ "bank" \in Actors /\ queue["bank"] # <<>>
           /\ UNCHANGED <<running, state, pin, user, cards, session, issued, cancelled, stale>>
           /\ session \in Nat /\ issued \in Nat
BY HeadTyped DEF BankOn, B, Next_, Actors, TypeOK

\* The bank answers: the answer has the session of the question.
LEMMA Answered ==
    ASSUME TypeOK, B # <<>>, Head(B) \in Messages, NEW type \in Answers,
           Takes("bank", Answer(type)), Next_("bank") = Head(B)
    PROVE  \E m \in Messages :
             /\ m.type = type /\ m.session = Head(B).session
             /\ queue' \in [Actors -> Seq(Messages)]
             /\ A' = Append(A, m) /\ B' = Tail(B) /\ I' = I
<1>1. PICK m : m = Message(type, Head(B).session)
    OBVIOUS
<1>2. type \notin {"digit_pressed", "verify_pin"}
    BY DEF Answers
<1>3. m \in Messages /\ m.type = type /\ m.session = Head(B).session
    BY <1>1, <1>2, MessageHas, MessageIs DEF Message
<1>4. Takes("bank", To("atm", m))
    BY <1>1 DEF Answer
<1>5. "bank" \in Actors /\ "atm" \in Actors \ {"bank"} /\ "interface" \in Actors \ {"bank", "atm"}
    BY DEF Actors
<1>6. /\ queue' \in [Actors -> Seq(Messages)]
      /\ A' = Append(A, m) /\ B' = Tail(B) /\ I' = I
    BY <1>3, <1>4, <1>5, TakesTo DEF A, B, I
<1>7. QED
    BY <1>3, <1>6

\* The bank compares the PIN of the question; the answer is about the same card.
LEMMA KeepBankVerify ==
    ASSUME IInv, BankVerify PROVE IInv'
<1> USE DEF IInv
<1> DEFINE h == Head(B)
<1>1. PICK type \in {"pin_verified", "pin_incorrect"} :
        Takes("bank", Answer(type)) /\ (type = "pin_verified" <=> Next_("bank").pin = Pin)
    BY DEF BankVerify
<1>2. /\ B # <<>> /\ h \in Messages /\ h.type = "verify_pin" /\ Next_("bank") = h
      /\ UNCHANGED <<running, state, pin, user, cards, session, issued, cancelled, stale>>
      /\ session \in Nat /\ issued \in Nat /\ balance' = balance
    BY BankOnIs DEF BankVerify
<1>3. type \in Answers
    BY DEF Answers
<1>4. PICK m \in Messages :
        /\ m.type = type /\ m.session = h.session
        /\ queue' \in [Actors -> Seq(Messages)]
        /\ A' = Append(A, m) /\ B' = Tail(B) /\ I' = I
    BY <1>1, <1>2, <1>3, Answered
<1>5. TypeOK'
    BY <1>2, <1>4 DEF TypeOK
<1>6. /\ h.type \in Questions /\ One(h, PinMsgs) = 1 /\ One(h, MoneyMsgs) = 0
      /\ m.type \in Answers /\ One(m, PinMsgs) = 1 /\ One(m, MoneyMsgs) = 0
      /\ One(m, {"withdraw_ok"}) = 0
    BY <1>2, <1>4 DEF One, Questions, Answers, PinMsgs, MoneyMsgs
<1> HIDE DEF h
<1>7. /\ InOrder' /\ h \in Due /\ Due' \subseteq Due \cup {m}
      /\ CountDue(PinMsgs)' = CountDue(PinMsgs) /\ CountDue(MoneyMsgs)' = CountDue(MoneyMsgs)
      /\ Granted(A') = Granted(A)
    BY <1>2, <1>4, <1>6, AfterReply, DueTyped, WithdrawalsAre DEF h
<1>8. Withdrawals' = Withdrawals
    BY <1>2, <1>4, <1>7, WithdrawalsAre DEF Issuing
<1>9. AboutPin'
    <2>1. ASSUME m.session = session, m.type = "pin_verified"
          PROVE  state # "getting_pin" /\ pin = Pin
        BY <1>1, <1>2, <1>4, <1>7, <2>1 DEF AboutPin
    <2>2. m.type # "verify_pin"
        BY <1>4
    <2>3. QED
        BY <1>2, <1>7, <2>1, <2>2 DEF AboutPin
<1>10. InStep'
    BY <1>2, <1>4, <1>7 DEF InStep
<1>11. PinInStep'
    <2>1. h.type \in PinMsgs
        BY <1>2 DEF PinMsgs
    <2>2. QED
        BY <1>2, <1>4, <1>7, <2>1 DEF PinInStep
<1>12. MoneyInStep'
    BY <1>2, <1>7, <1>8 DEF MoneyInStep, Out
<1>13. QED
    BY <1>5, <1>7, <1>9, <1>10, <1>11, <1>12

\* The bank takes from the balance what it grants.
LEMMA KeepBankWithdraw ==
    ASSUME IInv, BankWithdraw PROVE IInv'
<1> USE DEF IInv
<1> DEFINE h == Head(B)
<1>1. PICK type \in {"withdraw_ok", "withdraw_denied"} :
        /\ Takes("bank", Answer(type))
        /\ balance' = IF type = "withdraw_ok" THEN balance - Amount ELSE balance
    BY DEF BankWithdraw
<1>2. /\ B # <<>> /\ h \in Messages /\ h.type = "withdraw" /\ Next_("bank") = h
      /\ UNCHANGED <<running, state, pin, user, cards, session, issued, cancelled, stale>>
      /\ session \in Nat /\ issued \in Nat /\ balance \in Int /\ Amount \in Nat
    BY BankOnIs, AtmAssumption DEF BankWithdraw, TypeOK
<1>3. type \in Answers
    BY DEF Answers
<1>4. PICK m \in Messages :
        /\ m.type = type /\ m.session = h.session
        /\ queue' \in [Actors -> Seq(Messages)]
        /\ A' = Append(A, m) /\ B' = Tail(B) /\ I' = I
    BY <1>1, <1>2, <1>3, Answered
<1>5. TypeOK'
    BY <1>1, <1>2, <1>4 DEF TypeOK
<1>6. /\ h.type \in Questions /\ One(h, PinMsgs) = 0 /\ One(h, MoneyMsgs) = 1
      /\ m.type \in Answers /\ One(m, PinMsgs) = 0 /\ One(m, MoneyMsgs) = 1
      /\ One(m, {"withdraw_ok"}) = IF type = "withdraw_ok" THEN 1 ELSE 0
    BY <1>2, <1>4 DEF One, Questions, Answers, PinMsgs, MoneyMsgs
<1> HIDE DEF h
<1>7. /\ InOrder' /\ h \in Due /\ Due' \subseteq Due \cup {m}
      /\ CountDue(PinMsgs)' = CountDue(PinMsgs) /\ CountDue(MoneyMsgs)' = CountDue(MoneyMsgs)
      /\ Granted(A') = Granted(A) + (IF type = "withdraw_ok" THEN 1 ELSE 0)
    BY <1>2, <1>4, <1>6, AfterReply, DueTyped, WithdrawalsAre DEF h
<1>8. Withdrawals' = Withdrawals + (IF type = "withdraw_ok" THEN 1 ELSE 0)
    BY <1>2, <1>4, <1>7, WithdrawalsAre DEF Issuing
<1>9. balance' + Out' = balance + Out
    <2>1. Withdrawals \in Nat
        BY WithdrawalsAre
    <2>2. CASE type = "withdraw_ok"
        BY <1>1, <1>2, <1>8, <2>1, <2>2, OneWithdrawal DEF Out
    <2>3. CASE type # "withdraw_ok"
        BY <1>1, <1>8, <2>1, <2>3 DEF Out
    <2>4. QED
        BY <2>2, <2>3
<1>10. m.type \notin PinMsgs /\ m.type # "verify_pin" /\ m.type # "pin_verified"
    BY <1>4 DEF PinMsgs
<1>11. AboutPin'
    BY <1>2, <1>7, <1>10 DEF AboutPin
<1>12. InStep'
    BY <1>2, <1>4, <1>7 DEF InStep
<1>13. PinInStep'
    BY <1>2, <1>7, <1>10 DEF PinInStep
<1>14. MoneyInStep'
    BY <1>2, <1>7, <1>9 DEF MoneyInStep
<1>15. QED
    BY <1>5, <1>7, <1>11, <1>12, <1>13, <1>14

\* The bank answers what the balance is.
LEMMA KeepBankBalance ==
    ASSUME IInv, BankBalance PROVE IInv'
<1> USE DEF IInv
<1> DEFINE h == Head(B)
<1>1. /\ B # <<>> /\ h \in Messages /\ h.type = "get_balance" /\ Next_("bank") = h
      /\ Takes("bank", Answer("balance"))
      /\ UNCHANGED <<running, state, pin, user, cards, session, issued, cancelled, stale>>
      /\ session \in Nat /\ issued \in Nat /\ balance' = balance
    BY BankOnIs DEF BankBalance
<1>2. "balance" \in Answers
    BY DEF Answers
<1>3. PICK m \in Messages :
        /\ m.type = "balance" /\ m.session = h.session
        /\ queue' \in [Actors -> Seq(Messages)]
        /\ A' = Append(A, m) /\ B' = Tail(B) /\ I' = I
    BY <1>1, <1>2, Answered
<1>4. TypeOK'
    BY <1>1, <1>3 DEF TypeOK
<1>5. /\ h.type \in Questions /\ One(h, PinMsgs) = 0 /\ One(h, MoneyMsgs) = 0
      /\ m.type \in Answers /\ One(m, PinMsgs) = 0 /\ One(m, MoneyMsgs) = 0
      /\ One(m, {"withdraw_ok"}) = 0
    BY <1>1, <1>3 DEF One, Questions, Answers, PinMsgs, MoneyMsgs
<1> HIDE DEF h
<1>6. /\ InOrder' /\ h \in Due /\ Due' \subseteq Due \cup {m}
      /\ CountDue(PinMsgs)' = CountDue(PinMsgs) /\ CountDue(MoneyMsgs)' = CountDue(MoneyMsgs)
      /\ Granted(A') = Granted(A)
    BY <1>1, <1>3, <1>5, AfterReply, DueTyped, WithdrawalsAre DEF h
<1>7. Withdrawals' = Withdrawals
    BY <1>1, <1>3, <1>6, WithdrawalsAre DEF Issuing
<1>8. m.type \notin PinMsgs /\ m.type # "verify_pin" /\ m.type # "pin_verified"
    BY <1>3 DEF PinMsgs
<1>9. AboutPin'
    BY <1>1, <1>6, <1>8 DEF AboutPin
<1>10. InStep'
    BY <1>1, <1>3, <1>6 DEF InStep
<1>11. PinInStep' /\ MoneyInStep'
    BY <1>1, <1>6, <1>7, <1>8 DEF PinInStep, MoneyInStep, Out
<1>12. QED
    BY <1>4, <1>6, <1>9, <1>10, <1>11

\* What the bank is only told.
LEMMA KeepBankHears ==
    ASSUME IInv, BankHears PROVE IInv'
<1> USE DEF IInv
<1>1. PICK type \in {"withdrawal_processed", "cancel_withdrawal"} : BankOn(type)
    BY DEF BankHears
<1>2. /\ B # <<>> /\ Head(B).type = type /\ "bank" \in Actors /\ queue["bank"] # <<>>
      /\ UNCHANGED <<running, state, pin, user, cards, session, issued, cancelled, stale>>
    BY <1>1, BankOnIs
<1>3. balance' = balance /\ Takes("bank", Nothing)
    BY DEF BankHears
<1>4. queue' \in [Actors -> Seq(Messages)] /\ A' = A /\ B' = Tail(B) /\ I' = I
    BY <1>2, <1>3, TakesNothing DEF A, B, I, Actors
<1>5. TypeOK'
    BY <1>2, <1>3, <1>4 DEF TypeOK
<1>6. Head(B).type \notin Questions
    BY <1>2 DEF Questions
<1>7. /\ InOrder' /\ Due' \subseteq Due
      /\ CountDue(PinMsgs)' = CountDue(PinMsgs) /\ CountDue(MoneyMsgs)' = CountDue(MoneyMsgs)
      /\ Granted(A') = Granted(A)
    BY <1>2, <1>4, <1>6, AfterHear
<1>8. Withdrawals' = Withdrawals
    BY <1>2, <1>4, <1>7, WithdrawalsAre DEF Issuing
<1>9. QED
    BY <1>2, <1>3, <1>5, <1>7, <1>8, Quiet

\* The interface issues what the atm has told it to.
LEMMA KeepInterface ==
    ASSUME IInv, Interface PROVE IInv'
<1> USE DEF IInv
<1>1. "interface" \in Actors
    BY DEF Actors
<1>2. CASE Close("interface")
    BY <1>1, <1>2, KeepClose
<1>3. CASE ~Close("interface")
    <2>1. /\ HasMessage("interface") /\ Takes("interface", Nothing)
          /\ issued' = issued + (IF Next_("interface").type = "issue_money" THEN 1 ELSE 0)
          /\ UNCHANGED <<running, state, pin, balance, user, cards, session, cancelled, stale>>
        BY <1>3 DEF Interface
    <2>2. I # <<>> /\ Next_("interface") = Head(I) /\ queue["interface"] # <<>>
        BY <2>1 DEF HasMessage, Next_, I
    <2>3. queue' \in [Actors -> Seq(Messages)] /\ A' = A /\ B' = B /\ I' = Tail(I)
        BY <1>1, <2>1, <2>2, TakesNothing DEF A, B, I, Actors
    <2>4. issued \in Nat /\ session \in Nat
        BY DEF TypeOK
    <2>5. TypeOK'
        BY <2>1, <2>3, <2>4 DEF TypeOK
    <2>6. PICK m \in Messages : m.type \notin Questions \cup Answers
        BY SomeNews
    <2>7. /\ InOrder' /\ Due' \subseteq Due
          /\ CountDue(PinMsgs)' = CountDue(PinMsgs) /\ CountDue(MoneyMsgs)' = CountDue(MoneyMsgs)
          /\ Granted(A') = Granted(A)
        BY <2>1, <2>3, <2>6, AfterNews
    <2>8. /\ Issuing = Issuing' + One(Head(I), {"issue_money"})
          /\ Issuing \in Nat /\ Issuing' \in Nat
        BY <2>2, <2>3, IssuingTaken
    <2>9. issued' = issued + One(Head(I), {"issue_money"}) /\ One(Head(I), {"issue_money"}) \in Nat
        BY <2>1, <2>2 DEF One
    <2>10. issued' + Issuing' = issued + Issuing
        BY <2>4, <2>8, <2>9
    <2>11. Withdrawals' = Withdrawals
        BY <2>7, <2>10, WithdrawalsAre
    <2>12. QED
        BY <2>1, <2>5, <2>7, <2>11, Quiet
<1>4. QED
    BY <1>2, <1>3

\* A message of main's, a key or close_queue, changes none of this.
LEMMA KeepSend ==
    ASSUME IInv, NEW a \in Actors, NEW m \in Messages, m.type \in Keys \cup {"close_queue"},
           send(a, m), TypeOK',
           UNCHANGED <<running, state, pin, balance, session, issued, cancelled, stale>>
    PROVE  IInv'
<1> USE DEF IInv
<1>1. /\ queue'[a] = Append(queue[a], m) /\ \A b \in Actors \ {a} : queue'[b] = queue[b]
    BY Sends
<1>2. m.type \notin Questions \cup Answers /\ m.type \notin {"issue_money"}
    BY DEF Keys, Questions, Answers
<1>3. \/ A' = A /\ B' = B /\ I' = Append(I, m)
      \/ A' = Append(A, m) /\ B' = B /\ I' = I
      \/ A' = A /\ B' = Append(B, m) /\ I' = I
    BY <1>1 DEF A, B, I, Actors
<1>4. /\ InOrder' /\ Due' \subseteq Due
      /\ CountDue(PinMsgs)' = CountDue(PinMsgs) /\ CountDue(MoneyMsgs)' = CountDue(MoneyMsgs)
      /\ Granted(A') = Granted(A)
    BY <1>2, <1>3, AfterNews
<1>5. Issuing' = Issuing
    <2>1. One(m, {"issue_money"}) = 0
        BY <1>2 DEF One
    <2>2. CASE I' = Append(I, m)
        BY <2>1, <2>2, IssuingSent
    <2>3. CASE I' = I
        BY <2>3 DEF Issuing
    <2>4. QED
        BY <1>3, <2>2, <2>3
<1>6. Withdrawals' = Withdrawals
    BY <1>4, <1>5, WithdrawalsAre
<1>7. QED
    BY <1>4, <1>6, Quiet

\* A key, or a card, is no question and no answer.
LEMMA KeepPress ==
    ASSUME IInv, Press PROVE IInv'
<1> USE DEF IInv
<1>1. /\ UNCHANGED <<running, state, pin, balance, user, session, issued, cancelled, stale>>
      /\ cards \in Nat /\ "atm" \in Actors
    BY DEF Press, TypeOK, Actors
<1>2. PICK m \in Messages :
        m.type \in Keys /\ send("atm", m) /\ (cards' = cards \/ cards' = cards + 1)
    <2>1. CASE \E d \in Digits : send("atm", Digit(d)) /\ UNCHANGED cards
        <3>1. PICK d \in Digits : send("atm", Digit(d)) /\ UNCHANGED cards
            BY <2>1
        <3>2. Digit(d) \in Messages /\ Digit(d).type = "digit_pressed"
            BY MessageIs DEF Digit
        <3>3. QED
            BY <3>1, <3>2 DEF Keys
    <2>2. ASSUME NEW k \in Keys \ {"digit_pressed"} PROVE Key(k) \in Messages /\ Key(k).type = k
        BY MessageIs DEF Key, Message, Keys
    <2>3. CASE \E k \in {"balance_pressed", "withdraw_pressed", "cancel_pressed"} :
                 send("atm", Key(k)) /\ UNCHANGED cards
        <3>1. {"balance_pressed", "withdraw_pressed", "cancel_pressed"} \subseteq Keys \ {"digit_pressed"}
            BY DEF Keys
        <3>2. QED
            BY <2>2, <2>3, <3>1
    <2>4. CASE send("atm", Key("card_inserted")) /\ cards' = cards + 1
        <3>1. "card_inserted" \in Keys \ {"digit_pressed"}
            BY DEF Keys
        <3>2. QED
            BY <2>2, <2>4, <3>1
    <2>5. QED
        BY <2>1, <2>3, <2>4 DEF Press
<1>3. queue' \in [Actors -> Seq(Messages)]
    BY <1>1, <1>2, Sends
<1>4. TypeOK'
    BY <1>1, <1>2, <1>3 DEF TypeOK
<1>5. QED
    BY <1>1, <1>2, <1>4, KeepSend

\* Nor is close_queue.
LEMMA KeepQuit ==
    ASSUME IInv, Quit PROVE IInv'
<1> USE DEF IInv
<1>1. /\ UNCHANGED <<running, state, pin, balance, cards, session, issued, cancelled, stale>>
      /\ user' \in {"reading", "bank", "atm", "interface", "joining", "ended"}
    BY DEF Quit, TypeOK
<1>2. CASE queue' = queue
    <2>1. TypeOK'
        BY <1>1, <1>2 DEF TypeOK
    <2>2. A' = A /\ B' = B /\ I' = I
        BY <1>2 DEF A, B, I
    <2>3. PICK m \in Messages : m.type \notin Questions \cup Answers
        BY SomeNews
    <2>4. /\ InOrder' /\ Due' \subseteq Due
          /\ CountDue(PinMsgs)' = CountDue(PinMsgs) /\ CountDue(MoneyMsgs)' = CountDue(MoneyMsgs)
          /\ Granted(A') = Granted(A)
        BY <1>1, <2>2, <2>3, AfterNews
    <2>5. Withdrawals' = Withdrawals
        BY <1>1, <2>2, <2>4, WithdrawalsAre DEF Issuing
    <2>6. QED
        BY <1>1, <2>1, <2>4, <2>5, Quiet
<1>3. CASE \E a \in Actors : send(a, Key("close_queue"))
    <2>1. PICK a \in Actors : send(a, Key("close_queue"))
        BY <1>3
    <2>2. PICK m : m = Key("close_queue")
        OBVIOUS
    <2>3. m \in Messages /\ m.type = "close_queue"
        BY <2>2, MessageIs DEF Key, Message, News
    <2>4. send(a, m)
        BY <2>1, <2>2
    <2>5. queue' \in [Actors -> Seq(Messages)]
        BY <2>3, <2>4, Sends
    <2>6. TypeOK'
        BY <1>1, <2>5 DEF TypeOK
    <2>7. QED
        BY <1>1, <2>3, <2>4, <2>6, KeepSend
<1>4. QED
    BY <1>2, <1>3 DEF Quit, Actors

\* Every step preserves the invariant.
LEMMA StepIInv == IInv /\ [Next]_vars => IInv'
<1> SUFFICES ASSUME IInv, [Next]_vars PROVE IInv'
    OBVIOUS
<1>1. CASE Atm
    <2>1. "atm" \in Actors
        BY DEF Actors
    <2>2. QED
        BY <1>1, <2>1, KeepCard, KeepDigit, KeepVerified, KeepAction, KeepWithdrawal, KeepBalance,
           KeepCancel, KeepDone, KeepDrop, KeepClose DEF Atm
<1>2. CASE Bank
    <2>1. "bank" \in Actors
        BY DEF Actors
    <2>2. QED
        BY <1>2, <2>1, KeepBankVerify, KeepBankWithdraw, KeepBankBalance, KeepBankHears, KeepClose
        DEF Bank
<1>3. CASE Interface
    BY <1>3, KeepInterface
<1>4. CASE Press
    BY <1>4, KeepPress
<1>5. CASE Quit
    BY <1>5, KeepQuit
<1>6. CASE UNCHANGED vars
    BY <1>6
    DEF vars, IInv, TypeOK, InOrder, Due, AboutPin, InStep, PinInStep, CountDue, MoneyInStep, Out,
        Withdrawals
<1>7. QED
    BY <1>1, <1>2, <1>3, <1>4, <1>5, <1>6 DEF Next

-----------------------------------------------------------------------------
\* The bank answers in the order of the questions; until a cancellation overtakes an
\* answer, the atm and the bank are in step about the PIN and about the money.
THEOREM InStepUntilCancelled == Spec => []IInv
BY InitIInv, StepIInv, PTL DEF Spec

\* Of the deposit nothing is gained, and nothing is lost unless cancel_pressed is
\* handled in process_withdrawal (withdraw, bank.h).
THEOREM MoneySafe == Spec => []MoneyLostOnlyByCancel
<1>1. IInv => MoneyLostOnlyByCancel
    <2> SUFFICES ASSUME IInv PROVE MoneyLostOnlyByCancel
        OBVIOUS
    <2>1. balance + Out <= Deposit
        BY DEF IInv, MoneyInStep
    <2>2. "process_withdrawal" \notin cancelled => balance + Out = Deposit
        BY DEF IInv, MoneyInStep
    <2>3. balance + Out \in Int /\ Deposit \in Int
        BY WithdrawalsAre, AtmAssumption DEF IInv, TypeOK, Out
    <2>4. QED
        BY <2>1, <2>2, <2>3 DEF MoneyLostOnlyByCancel
<1>2. QED
    BY <1>1, InStepUntilCancelled, PTL

\* The atm acts on a wrong PIN only after the answer about an earlier card's PIN was
\* taken for an answer about this one's, and never without a cancellation.
THEOREM RightPin == Spec => []ActionNeedsPin
<1>1. IInv => ActionNeedsPin
    BY DEF IInv, InStep, PinInStep, ActionNeedsPin, Acting
<1>2. QED
    BY <1>1, InStepUntilCancelled, PTL

\* No other answer is taken for another card's before one about a PIN is.
THEOREM AnswersInStep == Spec => []OnlyPinGoesAstray
<1>1. IInv => OnlyPinGoesAstray
    BY DEF IInv, InStep, OnlyPinGoesAstray
<1>2. QED
    BY <1>1, InStepUntilCancelled, PTL
=============================================================================
