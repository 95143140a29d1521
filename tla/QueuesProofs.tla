---------------------------- MODULE QueuesProofs ----------------------------
(* What leaving and joining a queue do to it, for queues of any length. *)
EXTENDS Queues, TLAPS

(* Without takes r out, leaves the others and keeps them different. *)
LEMMA WithoutOne ==
    ASSUME NEW S, NEW q \in Seq(S), NoRepeat(q), NEW r
    PROVE  /\ Without(q, r) \in Seq(S)
           /\ Waiting(Without(q, r)) = Waiting(q) \ {r}
           /\ NoRepeat(Without(q, r))
<1>1. CASE ~\E i \in DOMAIN q : q[i] = r
  BY <1>1 DEF Without, Waiting
<1>2. CASE \E i \in DOMAIN q : q[i] = r
  <2> DEFINE place == CHOOSE i \in DOMAIN q : q[i] = r
             w == [i \in 1 .. Len(q) - 1 |-> IF i < place THEN q[i] ELSE q[i + 1]]
  <2>1. place \in 1 .. Len(q) /\ q[place] = r
    BY <1>2
  <2>2. Without(q, r) = w
    BY <1>2 DEF Without
  <2>3. Len(q) \in Nat /\ Len(q) - 1 \in Nat /\ DOMAIN q = 1 .. Len(q)
    BY <2>1
  <2> HIDE DEF place
  <2>4. w \in Seq(S) /\ Len(w) = Len(q) - 1 /\ DOMAIN w = 1 .. Len(q) - 1
    BY <2>1, <2>3
  <2>5. \A i \in DOMAIN w : \E j \in DOMAIN q : w[i] = q[j] /\ j # place
    BY <2>1, <2>3, <2>4
  <2>6. \A j \in DOMAIN q : j # place => \E i \in DOMAIN w : w[i] = q[j]
    <3> SUFFICES ASSUME NEW j \in DOMAIN q, j # place
                 PROVE  \E i \in DOMAIN w : w[i] = q[j]
      OBVIOUS
    <3>1. CASE j < place
      <4>1. j \in DOMAIN w /\ w[j] = q[j]
        BY <3>1, <2>1, <2>3, <2>4
      <4> QED
        BY <4>1
    <3>2. CASE j > place
      <4>1. j - 1 \in DOMAIN w /\ w[j - 1] = q[j]
        BY <3>2, <2>1, <2>3, <2>4
      <4> QED
        BY <4>1
    <3> QED
      BY <3>1, <3>2, <2>1, <2>3
  <2>7. Waiting(w) = Waiting(q) \ {r}
    <3>1. ASSUME NEW x \in Waiting(w) PROVE x \in Waiting(q) /\ x # r
      <4>1. PICK i \in DOMAIN w : x = w[i]
        BY <3>1 DEF Waiting
      <4>2. PICK j \in DOMAIN q : x = q[j] /\ j # place
        BY <4>1, <2>5
      <4> QED
        BY <4>2, <2>1, <2>3 DEF Waiting, NoRepeat
    <3>2. ASSUME NEW x \in Waiting(q), x # r PROVE x \in Waiting(w)
      <4>1. PICK j \in DOMAIN q : x = q[j]
        BY <3>2 DEF Waiting
      <4>2. j # place
        BY <4>1, <3>2, <2>1
      <4>3. PICK i \in DOMAIN w : w[i] = x
        BY <4>1, <4>2, <2>6
      <4> HIDE DEF w
      <4> QED
        BY <4>3 DEF Waiting
    <3> QED
      BY <3>1, <3>2
  <2>8. NoRepeat(w)
    BY <2>1, <2>3, <2>4 DEF NoRepeat
  <2> QED
    BY <2>2, <2>4, <2>7, <2>8
<1> QED
  BY <1>1, <1>2

(* Joining at the end. *)
LEMMA AppendOne ==
    ASSUME NEW S, NEW q \in Seq(S), NoRepeat(q), NEW r \in S, r \notin Waiting(q)
    PROVE  /\ Append(q, r) \in Seq(S)
           /\ Waiting(Append(q, r)) = Waiting(q) \cup {r}
           /\ NoRepeat(Append(q, r))
<1> DEFINE a == Append(q, r)
<1>1. /\ a \in Seq(S) /\ Len(a) = Len(q) + 1 /\ DOMAIN a = 1 .. Len(q) + 1
      /\ DOMAIN q = 1 .. Len(q) /\ Len(q) \in Nat
      /\ a[Len(q) + 1] = r
  OBVIOUS
<1>2. \A i \in DOMAIN q : a[i] = q[i]
  OBVIOUS
<1> HIDE DEF a
<1>3. Waiting(a) = Waiting(q) \cup {r}
  BY <1>1, <1>2 DEF Waiting
<1>4. NoRepeat(a)
  BY <1>1, <1>2 DEF NoRepeat, Waiting
<1> QED
  BY <1>1, <1>3, <1>4 DEF a

(* Leaving at the head. *)
LEMMA TailOne ==
    ASSUME NEW S, NEW q \in Seq(S), NoRepeat(q), q # <<>>
    PROVE  /\ Head(q) \in S /\ Head(q) \in Waiting(q)
           /\ Tail(q) \in Seq(S)
           /\ Waiting(Tail(q)) = Waiting(q) \ {Head(q)}
           /\ NoRepeat(Tail(q))
<1> DEFINE t == Tail(q)
           h == Head(q)
<1>1. /\ Len(q) \in Nat \ {0} /\ DOMAIN q = 1 .. Len(q)
      /\ t \in Seq(S) /\ DOMAIN t = 1 .. Len(q) - 1
      /\ h = q[1] /\ h \in S
  OBVIOUS
<1>2. \A i \in 1 .. Len(q) - 1 : t[i] = q[i + 1]
  OBVIOUS
<1> HIDE DEF t, h
<1>3. Waiting(t) = Waiting(q) \ {h}
  <2>1. \A i \in DOMAIN t : t[i] \in Waiting(q) /\ t[i] # h
    BY <1>1, <1>2, SMTT(30) DEF Waiting, NoRepeat
  <2>2. \A i \in DOMAIN q : i # 1 => i - 1 \in DOMAIN t /\ t[i - 1] = q[i]
    BY <1>1, <1>2
  <2> QED
    BY <1>1, <2>1, <2>2 DEF Waiting
<1>4. NoRepeat(t)
  <2> SUFFICES ASSUME NEW i \in 1 .. Len(q) - 1, NEW j \in 1 .. Len(q) - 1, t[i] = t[j]
               PROVE  i = j
    BY <1>1 DEF NoRepeat
  <2>1. q[i + 1] = q[j + 1] /\ i + 1 \in DOMAIN q /\ j + 1 \in DOMAIN q
    BY <1>1, <1>2
  <2>2. i + 1 = j + 1
    BY <2>1 DEF NoRepeat
  <2> QED
    BY <2>2
<1>5. h \in Waiting(q)
  BY <1>1 DEF Waiting
<1> QED
  BY <1>1, <1>3, <1>4, <1>5 DEF t, h

(* Two join. *)
LEMMA AppendTwo ==
    ASSUME NEW S, NEW q \in Seq(S), NoRepeat(q),
           NEW r \in S, NEW t \in S, r # t, r \notin Waiting(q), t \notin Waiting(q)
    PROVE  /\ q \o <<r, t>> \in Seq(S)
           /\ Waiting(q \o <<r, t>>) = Waiting(q) \cup {r, t}
           /\ NoRepeat(q \o <<r, t>>)
<1> DEFINE a == Append(q, r)
<1>1. a \in Seq(S) /\ Waiting(a) = Waiting(q) \cup {r} /\ NoRepeat(a)
  BY AppendOne
<1>2. q \o <<r, t>> = Append(a, t)
  OBVIOUS
<1> HIDE DEF a
<1>3. /\ Append(a, t) \in Seq(S)
      /\ Waiting(Append(a, t)) = Waiting(a) \cup {t}
      /\ NoRepeat(Append(a, t))
  BY <1>1, AppendOne
<1> QED
  BY <1>1, <1>2, <1>3
=============================================================================
