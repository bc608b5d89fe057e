--------------------------- MODULE StreamLoopProofs ---------------------------
(***************************************************************************)
(* Proofs about StreamHost: a script that is an endless loop and can only  *)
(* fail in a TRY runs until it is disposed, whatever the other statements  *)
(* and scripts are.                                                        *)
(***************************************************************************)
EXTENDS StreamHostProofs

LEMMA LongEnough ==
    ASSUME NEW q \in Seq(Frames), Len(q) > 1
    PROVE  Len(q) \in Nat /\ Len(q) # 0 /\ Len(q) # 1 /\ q # <<>>
  OBVIOUS

(* The frames below another one.                                            *)
LEMMA BelowIs ==
    ASSUME NEW q \in Seq(Frames), NEW i \in 1..Len(q)
    PROVE  /\ Below(q, i) \in Seq(Frames) /\ Len(Below(q, i)) = Len(q) - i
           /\ \A k \in 1..(Len(q)-i) : Below(q, i)[k] = q[i+k]
<1> DEFINE n == Len(q)
<1>1. n \in Nat /\ \A k \in 1..n : q[k] \in Frames
  OBVIOUS
<1> HIDE DEF n
<1>2. /\ i + 1 \in Int /\ n \in Int /\ i \in 1..n
      /\ \A k \in (i+1)..n : q[k] \in Frames
  BY <1>1 DEF n
<1>3. /\ SubSeq(q, i+1, n) \in Seq(Frames)
      /\ Len(SubSeq(q, i+1, n)) = IF i+1 <= n THEN n-(i+1)+1 ELSE 0
      /\ \A k \in 1 .. n-(i+1)+1 : SubSeq(q, i+1, n)[k] = q[(i+1)+k-1]
  BY <1>2, SubSeqProperties
<1>4. (IF i+1 <= n THEN n-(i+1)+1 ELSE 0) = n - i
  BY <1>1, <1>2
<1>5. ASSUME NEW k \in 1..(n-i)
      PROVE  SubSeq(q, i+1, n)[k] = q[i+k]
  <2>1. k \in 1..(n-(i+1)+1) /\ (i+1)+k-1 = i+k
    BY <1>1, <1>2
  <2>2. QED
    BY <1>3, <2>1
<1>6. QED
  BY <1>3, <1>4, <1>5 DEF Below, n

(* The frame f on top of q.                                                 *)
LEMMA OnTop ==
    ASSUME NEW f \in Frames, NEW q \in Seq(Frames)
    PROVE  /\ <<f>> \o q \in Seq(Frames)
           /\ Len(<<f>> \o q) = Len(q) + 1 /\ Len(q) \in Nat
           /\ (<<f>> \o q)[1] = f
           /\ \A i \in 1..Len(q) : (<<f>> \o q)[i+1] = q[i]
           /\ \A i \in 1..(Len(q)+1) :
                 i # 1 => i - 1 \in 1..Len(q) /\ (<<f>> \o q)[i] = q[i-1]
           /\ Below(<<f>> \o q, 1) = q
           /\ \A i \in 1..Len(q) : Below(<<f>> \o q, i + 1) = Below(q, i)
<1> DEFINE r == <<f>> \o q
<1>1. /\ r \in Seq(Frames) /\ Len(r) = Len(q) + 1 /\ Len(q) \in Nat
      /\ r[1] = f
      /\ \A i \in 1..Len(q) : r[i+1] = q[i]
  OBVIOUS
<1> HIDE DEF r
<1>2. ASSUME NEW i \in 1..(Len(q)+1), i # 1
      PROVE  i - 1 \in 1..Len(q) /\ r[i] = q[i-1]
  <2>1. i - 1 \in 1..Len(q) /\ (i - 1) + 1 = i
    BY <1>1, <1>2
  <2>2. r[(i - 1) + 1] = q[i - 1]
    BY <1>1, <2>1
  <2>3. QED
    BY <2>1, <2>2
<1>5. Below(r, 1) = q
  <2>1. 1 \in 1..Len(r) /\ Len(r) - 1 = Len(q)
    BY <1>1
  <2>2. /\ Below(r, 1) \in Seq(Frames) /\ Len(Below(r, 1)) = Len(r) - 1
        /\ \A k \in 1..(Len(r)-1) : Below(r, 1)[k] = r[1+k]
    BY <1>1, <2>1, BelowIs
  <2>3. \A k \in 1..Len(q) : r[1+k] = q[k]
    BY <1>1
  <2>4. \A k \in 1..Len(Below(r, 1)) : Below(r, 1)[k] = q[k]
    BY <2>1, <2>2, <2>3
  <2>5. QED
    BY <2>1, <2>2, <2>4, SeqEqual
<1>6. ASSUME NEW i \in 1..Len(q)
      PROVE  Below(r, i + 1) = Below(q, i)
  <2>1. i + 1 \in 1..Len(r) /\ Len(r) - (i + 1) = Len(q) - i
    BY <1>1
  <2>2. /\ Below(r, i+1) \in Seq(Frames) /\ Len(Below(r, i+1)) = Len(q) - i
        /\ \A k \in 1..(Len(q)-i) : Below(r, i+1)[k] = r[(i+1)+k]
    <3> DEFINE m == i + 1
    <3>1. m \in 1..Len(r) /\ Len(r) - m = Len(q) - i
      BY <2>1
    <3> HIDE DEF m
    <3>2. /\ Below(r, m) \in Seq(Frames) /\ Len(Below(r, m)) = Len(r) - m
          /\ \A k \in 1..(Len(r)-m) : Below(r, m)[k] = r[m+k]
      BY <1>1, <3>1, BelowIs
    <3>3. QED
      BY <3>1, <3>2 DEF m
  <2>3. ASSUME NEW k \in 1..(Len(q)-i)
        PROVE  r[(i+1)+k] = q[i+k]
    <3>1. i + k \in 1..Len(q) /\ (i + k) + 1 = (i + 1) + k
      BY <1>1
    <3>2. QED
      BY <1>1, <3>1
  <2>4. /\ Below(q, i) \in Seq(Frames) /\ Len(Below(q, i)) = Len(q) - i
        /\ \A k \in 1..(Len(q)-i) : Below(q, i)[k] = q[i+k]
    BY BelowIs
  <2>5. \A k \in 1..Len(Below(r, i+1)) : Below(r, i+1)[k] = Below(q, i)[k]
    BY <2>2, <2>3, <2>4
  <2>6. QED
    BY <2>2, <2>4, <2>5, SeqEqual
<1>7. \A i \in 1..(Len(q)+1) :
          i # 1 => i - 1 \in 1..Len(q) /\ r[i] = q[i-1]
  BY <1>2
<1>8. QED
  BY <1>1, <1>5, <1>6, <1>7 DEF r

(* Whether there is a TRY or an EXECUTE below.                              *)
LEMMA CaughtOnTop ==
    ASSUME NEW f \in Frames, NEW q \in Seq(Frames)
    PROVE  /\ Caught(<<f>> \o q) <=> IsTried(f) \/ Caught(q)
           /\ Contained(<<f>> \o q) <=> (IsCalled(f) /\ Caught(q)) \/ Contained(q)
<1> DEFINE r == <<f>> \o q
<1>0. /\ DOMAIN r = 1..(Len(q)+1) /\ DOMAIN q = 1..Len(q)
      /\ Len(q) \in Nat /\ r[1] = f /\ Below(r, 1) = q
      /\ \A i \in 1..Len(q) : r[i+1] = q[i] /\ Below(r, i+1) = Below(q, i)
  BY OnTop
<1> HIDE DEF r
<1>1. /\ r[1] = f /\ 1 \in DOMAIN r /\ Below(r, 1) = q
      /\ \A i \in DOMAIN q : i + 1 \in DOMAIN r /\ r[i+1] = q[i]
                             /\ Below(r, i+1) = Below(q, i)
      /\ \A i \in DOMAIN r : i # 1 => i - 1 \in DOMAIN q /\ r[i] = q[i-1]
                                       /\ Below(r, i) = Below(q, i-1)
  <2>1. 1 \in DOMAIN r /\ \A i \in DOMAIN q : i + 1 \in DOMAIN r
    BY <1>0
  <2>2. ASSUME NEW i \in DOMAIN r, i # 1
        PROVE  /\ i - 1 \in DOMAIN q /\ r[i] = q[i-1]
               /\ Below(r, i) = Below(q, i-1)
    <3>1. i - 1 \in DOMAIN q /\ i = (i - 1) + 1
      BY <1>0, <2>2
    <3>2. /\ r[(i - 1) + 1] = q[i-1]
          /\ Below(r, (i - 1) + 1) = Below(q, i-1)
      BY <1>0, <3>1
    <3>3. QED
      BY <3>1, <3>2
  <2>3. QED
    BY <1>0, <2>1, <2>2
<1>2. Caught(r) <=> IsTried(f) \/ Caught(q)
  BY <1>1 DEF Caught
<1>3. Contained(r) <=> (IsCalled(f) /\ Caught(q)) \/ Contained(q)
  <2>1. ASSUME NEW i \in DOMAIN r, IsCalled(r[i]), Caught(Below(r, i))
        PROVE  (IsCalled(f) /\ Caught(q)) \/ Contained(q)
    BY <1>1, <2>1 DEF Contained
  <2>2. Contained(q) => Contained(r)
    BY <1>1 DEF Contained
  <2>3. IsCalled(f) /\ Caught(q) => Contained(r)
    BY <1>1 DEF Contained
  <2>4. QED
    BY <2>1, <2>2, <2>3 DEF Contained
<1>4. QED
  BY <1>2, <1>3 DEF r

(* A call in the block of a TRY is in the block of the TRY.                 *)
LEMMA ContainedIsCaught ==
    ASSUME NEW q \in Seq(Frames), Contained(q)
    PROVE  Caught(q)
<1>1. PICK i \in 1..Len(q) : Caught(Below(q, i))
  BY DEF Contained
<1>2. /\ Len(Below(q, i)) = Len(q) - i /\ Below(q, i) \in Seq(Frames)
      /\ \A k \in 1..(Len(q)-i) : Below(q, i)[k] = q[i+k]
  BY BelowIs
<1>3. PICK k \in 1..(Len(q)-i) : IsTried(Below(q, i)[k])
  BY <1>1, <1>2 DEF Caught
<1>4. i + k \in 1..Len(q) /\ IsTried(q[i+k])
  BY <1>2, <1>3
<1>5. QED
  BY <1>4 DEF Caught

(* All frames of q are where a protected script may have them.              *)
Chain(q, n) == \A i \in DOMAIN q : Fits(q[i], Below(q, i), n)

LEMMA ChainOnTop ==
    ASSUME NEW f \in Frames, NEW q \in Seq(Frames), NEW n
    PROVE  Chain(<<f>> \o q, n) <=> Fits(f, q, n) /\ Chain(q, n)
<1> DEFINE r == <<f>> \o q
<1>0. /\ DOMAIN r = 1..(Len(q)+1) /\ DOMAIN q = 1..Len(q)
      /\ Len(q) \in Nat /\ r[1] = f /\ Below(r, 1) = q
      /\ \A i \in 1..Len(q) : r[i+1] = q[i] /\ Below(r, i+1) = Below(q, i)
  BY OnTop
<1> HIDE DEF r
<1>1. ASSUME Chain(r, n)
      PROVE  Fits(f, q, n) /\ Chain(q, n)
  <2>1. 1 \in DOMAIN r /\ \A i \in DOMAIN q : i + 1 \in DOMAIN r
    BY <1>0
  <2>2. QED
    BY <1>0, <1>1, <2>1 DEF Chain
<1>2. ASSUME Fits(f, q, n), Chain(q, n)
      PROVE  Chain(r, n)
  <2> SUFFICES ASSUME NEW i \in DOMAIN r
               PROVE  Fits(r[i], Below(r, i), n)
    BY DEF Chain
  <2>1. CASE i = 1
    BY <1>0, <1>2, <2>1
  <2>2. CASE i # 1
    <3>1. i - 1 \in DOMAIN q /\ i = (i - 1) + 1
      BY <1>0, <2>2
    <3>2. r[(i-1)+1] = q[i-1] /\ Below(r, (i-1)+1) = Below(q, i-1)
      BY <1>0, <3>1
    <3>3. Fits(q[i-1], Below(q, i-1), n)
      BY <1>2, <3>1 DEF Chain
    <3>4. QED
      BY <3>1, <3>2, <3>3
  <2>3. QED
    BY <2>1, <2>2
<1>3. QED
  BY <1>1, <1>2 DEF r

(* The statements that may be entered on top of q.                          *)
Suits(m, q) == m # Null => \/ Contained(q)
                           \/ Caught(q) /\ m \in Covered
                           \/ ~Caught(q) /\ m \in Outside

LEMMA CallFits ==
    ASSUME NEW q \in Seq(Frames), Len(q) > 1, NEW n, Chain(q, n),
           NEW m \in Nodes \cup {Null}, Suits(m, q),
           NEW e, Stays(q, e)
    PROVE  InLoop(Begin(m) \o q, e, n)
<1>1. CASE m = Null
  <2>1. Begin(m) \o q = q
    BY <1>1 DEF Begin
  <2>2. Len(q) \in Nat /\ Len(<<>>) = 0
    OBVIOUS
  <2>3. QED
    BY <2>1, <2>2 DEF InLoop, Chain
<1>2. CASE m # Null
  <2> DEFINE f == Frame(m)
             r == <<f>> \o q
  <2>1. f \in Frames /\ f.node = m /\ f.keep = "no" /\ f.at = "enter"
    BY <1>2 DEF Frame, Frames, Places, Raised
  <2>2. Begin(m) \o q = r
    BY <1>2 DEF Begin
  <2>3. Fits(f, q, n)
    BY <1>2, <2>1 DEF Suits, Fits
  <2>4. Chain(r, n)
    BY <2>1, <2>3, ChainOnTop
  <2>5. /\ r \in Seq(Frames) /\ Len(r) = Len(q) + 1 /\ Len(q) \in Nat
    BY <2>1, OnTop
  <2>6. Caught(q) => Caught(r)
    BY <2>1, CaughtOnTop
  <2>7. Contained(q) => Contained(r)
    BY <2>1, CaughtOnTop
  <2> HIDE DEF r, f
  <2>8. Stays(r, e) /\ r # <<>> /\ Len(r) # 1
    BY <2>5, <2>6, <2>7 DEF Stays
  <2>9. QED
    BY <2>2, <2>4, <2>8 DEF InLoop, Chain
<1>3. QED
  BY <1>1, <1>2

(* Above a call everything fits.                                            *)
LEMMA ContainedUnder ==
    ASSUME NEW p \in Seq(Frames), NEW q \in Seq(Frames), Contained(q)
    PROVE  Contained(p \o q)
<1> DEFINE r == p \o q
<1>1. /\ r \in Seq(Frames) /\ Len(r) = Len(p) + Len(q)
      /\ Len(p) \in Nat /\ Len(q) \in Nat
      /\ \A i \in 1..Len(q) : r[i + Len(p)] = q[i]
  OBVIOUS
<1> HIDE DEF r
<1>2. PICK i \in 1..Len(q) : IsCalled(q[i]) /\ Caught(Below(q, i))
  BY DEF Contained
<1>3. i + Len(p) \in 1..Len(r) /\ r[i + Len(p)] = q[i]
  BY <1>1
<1>4. Below(r, i + Len(p)) = Below(q, i)
  <2> DEFINE k == i + Len(p)
  <2>1. k \in 1..Len(r) /\ Len(r) - k = Len(q) - i
    BY <1>1
  <2>2. /\ Below(r, k) \in Seq(Frames) /\ Len(Below(r, k)) = Len(q) - i
        /\ \A j \in 1..(Len(q)-i) : Below(r, k)[j] = r[k+j]
    BY <1>1, <2>1, BelowIs
  <2>3. /\ Below(q, i) \in Seq(Frames) /\ Len(Below(q, i)) = Len(q) - i
        /\ \A j \in 1..(Len(q)-i) : Below(q, i)[j] = q[i+j]
    BY BelowIs
  <2>4. ASSUME NEW j \in 1..(Len(q)-i)
        PROVE  r[k+j] = q[i+j]
    <3>1. i + j \in 1..Len(q) /\ (i + j) + Len(p) = k + j
      BY <1>1
    <3>2. QED
      BY <1>1, <3>1
  <2> HIDE DEF k
  <2>5. \A j \in 1..Len(Below(r, k)) : Below(r, k)[j] = Below(q, i)[j]
    BY <2>2, <2>3, <2>4
  <2>6. Below(r, k) = Below(q, i)
    BY <2>2, <2>3, <2>5, SeqEqual
  <2>7. QED
    BY <2>6 DEF k
<1>5. QED
  BY <1>2, <1>3, <1>4 DEF Contained, r

LEMMA AboveCall ==
    ASSUME NEW p \in Seq(Frames), NEW q \in Seq(Frames), Contained(q),
           Len(q) > 1, NEW n, Chain(q, n), NEW e
    PROVE  InLoop(p \o q, e, n)
<1> DEFINE r == p \o q
<1>1. /\ r \in Seq(Frames) /\ Len(r) = Len(p) + Len(q)
      /\ Len(p) \in Nat /\ Len(q) \in Nat
      /\ \A i \in 1..Len(p) : r[i] = p[i]
      /\ \A i \in 1..Len(q) : r[i + Len(p)] = q[i]
  OBVIOUS
<1>2. Contained(r)
  BY ContainedUnder
<1> HIDE DEF r
<1>3. ASSUME NEW i \in 1..Len(r), i > Len(p)
      PROVE  Fits(r[i], Below(r, i), n)
  <2> DEFINE k == i - Len(p)
  <2>1. k \in 1..Len(q) /\ k + Len(p) = i /\ Len(r) - i = Len(q) - k
    BY <1>1, <1>3
  <2>2. r[i] = q[k]
    BY <1>1, <2>1
  <2>3. /\ Below(r, i) \in Seq(Frames) /\ Len(Below(r, i)) = Len(q) - k
        /\ \A j \in 1..(Len(q)-k) : Below(r, i)[j] = r[i+j]
    <3>1. /\ Below(r, i) \in Seq(Frames) /\ Len(Below(r, i)) = Len(r) - i
          /\ \A j \in 1..(Len(r)-i) : Below(r, i)[j] = r[i+j]
      BY <1>1, BelowIs
    <3>2. QED
      BY <2>1, <3>1
  <2>4. /\ Below(q, k) \in Seq(Frames) /\ Len(Below(q, k)) = Len(q) - k
        /\ \A j \in 1..(Len(q)-k) : Below(q, k)[j] = q[k+j]
    BY <2>1, BelowIs
  <2>5. ASSUME NEW j \in 1..(Len(q)-k)
        PROVE  r[i+j] = q[k+j]
    <3>1. k + j \in 1..Len(q) /\ (k + j) + Len(p) = i + j
      BY <1>1, <2>1
    <3>2. QED
      BY <1>1, <3>1
  <2> HIDE DEF k
  <2>6. \A j \in 1..Len(Below(r, i)) : Below(r, i)[j] = Below(q, k)[j]
    BY <2>3, <2>4, <2>5
  <2>7. Below(r, i) = Below(q, k)
    BY <2>3, <2>4, <2>6, SeqEqual
  <2>8. Fits(q[k], Below(q, k), n)
    BY <2>1 DEF Chain
  <2>9. QED
    BY <2>2, <2>7, <2>8
<1>4. ASSUME NEW i \in 1..Len(r), ~(i > Len(p))
      PROVE  Fits(r[i], Below(r, i), n)
  <2>1. /\ Below(r, i) \in Seq(Frames) /\ Len(Below(r, i)) = Len(r) - i
        /\ \A j \in 1..(Len(r)-i) : Below(r, i)[j] = r[i+j]
    BY <1>1, BelowIs
  <2> DEFINE x == SubSeq(p, i + 1, Len(p))
  <2>2. /\ x \in Seq(Frames) /\ Len(x) = Len(p) - i
        /\ \A j \in 1..(Len(p)-i) : x[j] = p[i+j]
    <3>1. i \in 1..Len(p)
      BY <1>1, <1>4
    <3>2. QED
      BY <3>1, BelowIs DEF Below
  <2> HIDE DEF x
  <2>3. /\ x \o q \in Seq(Frames) /\ Len(x \o q) = Len(r) - i
        /\ \A j \in 1..(Len(r)-i) : (x \o q)[j] =
              IF j <= Len(x) THEN x[j] ELSE q[j - Len(x)]
    <3>1. Len(x) + Len(q) = Len(r) - i
      BY <1>1, <2>2
    <3>2. /\ x \o q \in Seq(Frames) /\ Len(x \o q) = Len(x) + Len(q)
          /\ \A j \in 1..(Len(x)+Len(q)) : (x \o q)[j] =
                IF j <= Len(x) THEN x[j] ELSE q[j - Len(x)]
      BY <2>2, ConcatProperties
    <3>3. QED
      BY <3>1, <3>2
  <2>4. ASSUME NEW j \in 1..(Len(r)-i)
        PROVE  (x \o q)[j] = r[i+j]
    <3>1. CASE j <= Len(x)
      <4>1. j \in 1..(Len(p)-i) /\ i + j \in 1..Len(p)
        BY <1>1, <2>2, <3>1
      <4>2. QED
        BY <1>1, <2>2, <2>3, <3>1, <4>1
    <3>2. CASE ~(j <= Len(x))
      <4>1. j - Len(x) \in 1..Len(q) /\ (j - Len(x)) + Len(p) = i + j
        BY <1>1, <2>2, <3>2
      <4>2. QED
        BY <1>1, <2>3, <3>2, <4>1
    <3>3. QED
      BY <3>1, <3>2
  <2>5. \A j \in 1..Len(Below(r, i)) : Below(r, i)[j] = (x \o q)[j]
    BY <2>1, <2>4
  <2>6. Below(r, i) = x \o q
    BY <2>1, <2>3, <2>5, SeqEqual
  <2>7. Contained(Below(r, i))
    BY <2>2, <2>6, ContainedUnder
  <2>8. Len(Below(r, i)) # 0 /\ Len(Below(r, i)) # 1
    BY <1>1, <1>4, <2>1
  <2>9. QED
    BY <2>7, <2>8 DEF Fits
<1>5. \A i \in DOMAIN r : Fits(r[i], Below(r, i), n)
  BY <1>1, <1>3, <1>4
<1>6. r # <<>> /\ Len(r) # 1
  BY <1>1
<1>7. QED
  BY <1>2, <1>5, <1>6 DEF InLoop, Stays, r

-----------------------------------------------------------------------------
(* A thread goes on at m, above the frames that are below its inner one ... *)
Goes(s, m) == stack'[s] = Begin(m) \o Tail(stack[s])

(* ... or above a frame of the inner processor.                             *)
Stacks(s, m, g) == stack'[s] = Begin(m) \o (<<g>> \o Tail(stack[s]))

LEMMA Shapes ==
    ASSUME StackOK, NEW s \in Streams, stack[s] # <<>>
    PROVE  /\ Return(s) => Goes(s, Null)
           /\ GoNext(s) => Goes(s, Code(s).next)
           /\ \A g \in Frames : Resume(s, g) => Stacks(s, Null, g)
           /\ \A g \in Frames, m \in Nodes \cup {Null} :
                 Push(s, m, g) => Stacks(s, m, g)
<1> DEFINE t == Tail(stack[s])
<1>0. t \in Seq(Frames)
  BY TopType
<1>1. Begin(Null) = <<>> /\ <<>> \o t = t
  BY <1>0, ConcatEmptySeq DEF Begin
<1>2. ASSUME NEW g \in Frames
      PROVE  /\ <<g>> \o t \in Seq(Frames) /\ <<g>> \in Seq(Frames)
             /\ <<>> \o (<<g>> \o t) = <<g>> \o t
  <2>1. <<g>> \o t \in Seq(Frames) /\ <<g>> \in Seq(Frames)
    BY <1>0
  <2>2. QED
    BY <2>1, ConcatEmptySeq
<1>3. Return(s) => Goes(s, Null)
  BY <1>1 DEF Return, Goes, StackOK
<1>4. GoNext(s) => Goes(s, Code(s).next)
  BY DEF GoNext, Goes, StackOK
<1>5. ASSUME NEW g \in Frames, Resume(s, g)
      PROVE  Stacks(s, Null, g)
  BY <1>1, <1>2, <1>5 DEF Resume, Stacks, StackOK
<1>6. ASSUME NEW g \in Frames, NEW m \in Nodes \cup {Null}, Push(s, m, g)
      PROVE  Stacks(s, m, g)
  <2>1. stack'[s] = Begin(m) \o <<g>> \o t
    BY <1>6 DEF Push, StackOK
  <2>2. Begin(m) \in Seq(Frames)
    BY BeginType
  <2>3. (Begin(m) \o <<g>>) \o t = Begin(m) \o (<<g>> \o t)
    <3> DEFINE c == <<g>>
               b == Begin(m)
    <3>1. c \in Seq(Frames) /\ b \in Seq(Frames)
      BY <1>2, <2>2
    <3> HIDE DEF b, c, t
    <3>2. (b \o c) \o t = b \o (c \o t)
      BY <1>0, <3>1, ConcatAssociative
    <3>3. QED
      BY <3>2 DEF b, c
  <2>4. QED
    BY <2>1, <2>3 DEF Stacks
<1>7. QED
  BY <1>3, <1>4, <1>5, <1>6

(* What is known of the frames of a thread that is deeper than its loop.    *)
Deep(s, n) == /\ StackOK /\ FrameInv /\ RaisedOK
              /\ stack[s] # <<>> /\ Len(Tail(stack[s])) > 1
              /\ Chain(Tail(stack[s]), n)
              /\ Fits(Top(s), Tail(stack[s]), n)
              /\ Stays(<<Top(s)>> \o Tail(stack[s]), raised[s])

LEMMA DeepFrames ==
    ASSUME StackOK, FrameInv, RaisedOK, NEW s \in Streams, NEW n,
           InLoop(stack[s], raised[s], n), Len(stack[s]) > 2
    PROVE  Deep(s, n)
<1> DEFINE t == Tail(stack[s])
<1>0. stack[s] # <<>>
  BY DEF InLoop
<1>1. /\ t \in Seq(Frames) /\ Len(t) = Len(stack[s]) - 1 /\ Len(stack[s]) \in Nat
      /\ Top(s) \in Frames /\ stack[s] \in Seq(Frames)
      /\ Top(s) = Head(stack[s])
  BY <1>0, TopType DEF StackOK, Top
<1>2. stack[s] = <<Top(s)>> \o t
  BY <1>0, <1>1
<1>3. Fits(Top(s), t, n) /\ Chain(t, n)
  <2>1. Chain(stack[s], n)
    BY DEF InLoop, Chain
  <2>2. QED
    BY <1>1, <1>2, <2>1, ChainOnTop
<1>4. Stays(<<Top(s)>> \o t, raised[s])
  BY <1>2 DEF InLoop
<1>5. QED
  BY <1>0, <1>1, <1>3, <1>4 DEF Deep

(* The thread is in the block of a TRY.                                     *)
LEMMA CoveredSteps ==
    ASSUME NEW s \in Streams, NEW n, Deep(s, n),
           Caught(Tail(stack[s])), ~Contained(Tail(stack[s])),
           status[s] = "Running",
           IF raised[s] = "no" THEN Processes(s) ELSE Unwinds(s)
    PROVE  InLoop(stack'[s], raised'[s], n)
<1> DEFINE t == Tail(stack[s])
           f == Top(s)
<1>0. /\ StackOK /\ RaisedOK /\ stack[s] # <<>> /\ Len(t) > 1 /\ Chain(t, n)
      /\ t \in Seq(Frames) /\ f \in Frames /\ f.node \in Nodes
      /\ Fits(f, t, n) /\ Caught(t) /\ ~Contained(t)
  BY TopType DEF Deep
<1>a. Len(t) \in Nat /\ Len(t) # 0 /\ Len(t) # 1
  <2> HIDE DEF t, f
  <2>1. t \in Seq(Frames) /\ Len(t) > 1
    BY <1>0
  <2>2. QED
    BY <2>1, LongEnough
<1>1. f.node \in Covered /\ f.keep # "return"
  <2> HIDE DEF t, f
  <2>1. QED
    BY <1>0, <1>a DEF Fits
<1>2. raised[s] # "return" \/ IsCalled(f)
  <2>1. Contained(<<f>> \o t) => IsCalled(f)
    BY <1>0, CaughtOnTop
  <2>2. QED
    BY <2>1 DEF Deep, Stays
<1>3. /\ Kind(f) = Code(s).kind /\ Code(s).kind # "return"
      /\ Code(s).next \in Covered \cup {Null}
      /\ Code(s).other \in Covered \cup {Null}
      /\ Code(s).last \in Covered \cup {Null}
      /\ Code(s).kind \notin {"execute", "task"} =>
            Code(s).body \in Covered \cup {Null}
      /\ Code(s).body \in Nodes \cup {Null} /\ Covered \subseteq Nodes
  BY <1>0, <1>1, Statements, ProtectedAssumption DEF Kind, Code
<1> HIDE DEF t, f
<1>4. ASSUME NEW m \in Covered \cup {Null}, Goes(s, m), raised'[s] # "return"
      PROVE  InLoop(stack'[s], raised'[s], n)
  <2>1. Suits(m, t) /\ Stays(t, raised'[s])
    BY <1>4 DEF Suits, Stays, t
  <2>2. QED
    BY <1>0, <1>3, <1>4, <2>1, CallFits DEF Goes, t
<1>5. ASSUME NEW g \in Frames, g.node = f.node, g.keep # "return",
             NEW m \in Nodes \cup {Null}, m \in Covered \cup {Null} \/ IsCalled(g),
             Stacks(s, m, g), raised'[s] = "no"
      PROVE  InLoop(stack'[s], raised'[s], n)
  <2> DEFINE q == <<g>> \o t
  <2>1. /\ q \in Seq(Frames) /\ Len(q) > 1 /\ Caught(q)
        /\ IsCalled(g) => Contained(q)
    <3>1. Len(q) = Len(t) + 1 /\ q \in Seq(Frames)
      BY <1>0, OnTop
    <3>2. /\ Caught(q) <=> IsTried(g) \/ Caught(t)
          /\ Contained(q) <=> (IsCalled(g) /\ Caught(t)) \/ Contained(t)
      BY <1>0, CaughtOnTop
    <3> HIDE DEF q
    <3>3. QED
      BY <1>0, <1>a, <3>1, <3>2
  <2>2. Chain(q, n)
    <3>1. Fits(g, t, n)
      BY <1>0, <1>a, <1>1, <1>5 DEF Fits
    <3>2. QED
      BY <1>0, <3>1, ChainOnTop
  <2> HIDE DEF q
  <2>3. Suits(m, q) /\ Stays(q, "no")
    BY <1>5, <2>1 DEF Suits, Stays
  <2>4. InLoop(Begin(m) \o q, "no", n)
    BY <2>1, <2>2, <2>3, CallFits
  <2>5. QED
    BY <1>5, <2>4 DEF Stacks, q, t
<1>6. ASSUME NEW l \in Places
      PROVE  LET g == [f EXCEPT !.at = l]
             IN  /\ g \in Frames /\ g.node = f.node /\ g.keep = f.keep
                 /\ g.at = l
  BY <1>0 DEF Frames
<1>7. \A m : m \in Covered \cup {Null} => m \in Nodes \cup {Null}
  BY <1>3
<1>r. Return(s) /\ raised'[s] # "return" => InLoop(stack'[s], raised'[s], n)
  BY <1>0, <1>4, Shapes
<1>g. GoNext(s) /\ raised'[s] # "return" => InLoop(stack'[s], raised'[s], n)
  BY <1>0, <1>3, <1>4, Shapes
<1>e. ASSUME NEW l \in Places, NEW m \in Covered \cup {Null}, Enter(s, m, l),
             raised'[s] = "no"
      PROVE  InLoop(stack'[s], raised'[s], n)
  <2> DEFINE g == [f EXCEPT !.at = l]
  <2>1. Push(s, m, g)
    BY <1>e DEF Enter, f
  <2>2. Stacks(s, m, g)
    BY <1>0, <1>6, <1>7, <2>1, Shapes
  <2>3. QED
    BY <1>1, <1>5, <1>6, <1>7, <1>e, <2>2
<1>s. ASSUME NEW g \in Frames, g.node = f.node, g.keep # "return", Resume(s, g),
             raised'[s] = "no"
      PROVE  InLoop(stack'[s], raised'[s], n)
  BY <1>0, <1>5, <1>s, Shapes
<1>f. ASSUME NEW e \in Raised \ {"return"}, Finally(s, e), raised'[s] = "no"
      PROVE  InLoop(stack'[s], raised'[s], n)
  <2> DEFINE g == [f EXCEPT !.at = "finally", !.keep = e]
  <2>1. g \in Frames /\ g.node = f.node /\ g.keep = e
    BY <1>0 DEF Frames, Places
  <2>2. Push(s, Code(s).last, g)
    BY <1>f DEF Finally, f
  <2>3. Stacks(s, Code(s).last, g)
    BY <1>0, <1>3, <1>7, <2>1, <2>2, Shapes
  <2>4. QED
    BY <1>3, <1>5, <1>7, <1>f, <2>1, <2>3
<1>q. /\ Quiet => raised'[s] = raised[s]
      /\ Handled(s) => raised'[s] = "no"
      /\ \A e : Throw(s, e) => Return(s) /\ raised'[s] = e
  BY <1>0 DEF Quiet, Handled, Throw, RaisedOK
<1>p. /\ "after" \in Places /\ "test" \in Places /\ "leave" \in Places
      /\ "token" \in Places /\ "wait" \in Places /\ "items" \in Places
      /\ "tried" \in Places /\ "caught" \in Places /\ "called" \in Places
      /\ "store" \in Places /\ "answer" \in Places
      /\ \A l \in Updating : l \in Places
  BY DEF Places
<1> USE DEF IsAt
<1>7a. CASE raised[s] = "no" /\ Blocks(s)
  <2>1. CASE Root(s) \/ Branch(s)
    <3>1. \/ Throw(s, "error")
          \/ \E m \in {Code(s).body, Code(s).other} :
                 Enter(s, m, "after") /\ Quiet
      BY <2>1 DEF Root, Branch
    <3>2. Code(s).body \in Covered \cup {Null}
      BY <1>3, <2>1 DEF Root, Branch
    <3>3. QED
      BY <1>3, <1>e, <1>q, <1>r, <1>p, <1>7a, <3>1, <3>2
  <2>2. CASE Work(s) \/ AfterBlock(s)
    BY <1>1, <1>3, <1>g, <1>q, <1>r, <1>7a, <2>2 DEF Work, AfterBlock
  <2>3. CASE Raise(s)
    BY <1>1, <1>3, <1>q, <1>r, <1>7a, <2>3 DEF Raise, Exception
  <2>4. QED
    BY <1>7a, <2>1, <2>2, <2>3 DEF Blocks
<1>7b. CASE raised[s] = "no" /\ (Whiles(s) \/ Sleeps(s))
  <2>1. CASE WhileEnter(s) \/ SleepEnter(s)
    BY <1>1, <1>6, <1>s, <1>q, <1>p, <1>7b, <2>1 DEF WhileEnter, SleepEnter, f
  <2>2. CASE WhileTest(s)
    <3>1. CASE Enter(s, Code(s).body, "test") /\ Quiet
      BY <1>3, <1>e, <1>q, <1>p, <1>7b, <2>2, <3>1 DEF WhileTest
    <3>2. CASE Resume(s, [f EXCEPT !.at = "leave"]) /\ Quiet
      BY <1>1, <1>6, <1>s, <1>q, <1>p, <1>7b, <3>2
    <3>3. CASE Throw(s, "error")
      BY <1>r, <1>q, <3>3
    <3>4. QED
      BY <2>2, <3>1, <3>2, <3>3 DEF WhileTest, f
  <2>3. CASE WhileLeave(s) \/ SleepElapses(s) \/ SleepCancelled(s)
    BY <1>g, <1>r, <1>q, <1>7b, <2>3
    DEF WhileLeave, SleepElapses, SleepCancelled
  <2>4. CASE SleepToken(s)
    <3>1. CASE Resume(s, [f EXCEPT !.at = "wait"]) /\ Quiet
      BY <1>1, <1>6, <1>s, <1>q, <1>p, <1>7b, <3>1
    <3>2. CASE Throw(s, "error")
      BY <1>r, <1>q, <3>2
    <3>3. QED
      BY <2>4, <3>1, <3>2 DEF SleepToken, f
  <2>5. QED
    BY <1>7b, <2>1, <2>2, <2>3, <2>4 DEF Whiles, Sleeps
<1>7c. CASE raised[s] = "no" /\ Fors(s)
  <2>1. CASE ForEnter(s)
    <3>1. ASSUME NEW k \in 1..MaxItems
          PROVE  LET g == [f EXCEPT !.at = "items", !.arg = k]
                 IN  g \in Frames /\ g.node = f.node /\ g.keep = f.keep
      <4>1. k \in Nat
        BY ScriptAssumption
      <4>2. QED
        BY <1>0, <1>p, <4>1 DEF Frames
    <3>2. CASE Throw(s, "error")
      BY <1>r, <1>q, <3>2
    <3>3. CASE Return(s) /\ Quiet
      BY <1>r, <1>q, <1>7c, <3>3
    <3>4. ASSUME NEW k \in 1..MaxItems,
                 Resume(s, [f EXCEPT !.at = "items", !.arg = k]), Quiet
          PROVE  InLoop(stack'[s], raised'[s], n)
      BY <1>1, <1>s, <1>q, <1>7c, <3>1, <3>4
    <3>5. QED
      BY <2>1, <3>2, <3>3, <3>4 DEF ForEnter, f
  <2>2. CASE ForItem(s)
    <3> DEFINE g == [f EXCEPT !.arg = f.arg - 1]
    <3>1. CASE f.arg = 0
      BY <1>g, <1>q, <1>7c, <2>2, <3>1 DEF ForItem, f
    <3>2. CASE f.arg # 0
      <4>1. g \in Frames /\ g.node = f.node /\ g.keep = f.keep
        BY <1>0, <3>2 DEF Frames
      <4>2. Push(s, Code(s).body, g) /\ Quiet /\ Code(s).kind = "for"
        BY <2>2, <3>2 DEF ForItem, f
      <4>3. Code(s).body \in Covered \cup {Null}
        BY <1>3, <4>2
      <4>4. Stacks(s, Code(s).body, g)
        BY <1>0, <1>3, <4>1, <4>2, Shapes
      <4>5. QED
        BY <1>1, <1>3, <1>5, <1>q, <1>7c, <4>1, <4>2, <4>3, <4>4
    <3>3. QED
      BY <3>1, <3>2
  <2>3. QED
    BY <1>7c, <2>1, <2>2 DEF Fors
<1>7d. CASE raised[s] = "no" /\ Tries(s)
  <2>1. CASE Try(s)
    BY <1>3, <1>e, <1>q, <1>p, <1>7d, <2>1 DEF Try
  <2>2. CASE TryFinally(s)
    BY <1>f, <1>q, <1>7d, <2>2 DEF TryFinally, Raised
  <2>3. CASE TryLeave(s)
    BY <1>1, <1>g, <1>r, <1>q, <1>7d, <2>3 DEF TryLeave, f
  <2>4. QED
    BY <1>7d, <2>1, <2>2, <2>3 DEF Tries
<1>7e. CASE raised[s] = "no" /\ Calls(s)
  <2>1. CASE CallTarget(s)
    <3>1. CASE Enter(s, Code(s).body, "called") /\ Quiet
      <4> DEFINE g == [f EXCEPT !.at = "called"]
      <4>1. /\ g \in Frames /\ g.node = f.node /\ g.keep = f.keep
            /\ g.at = "called"
        BY <1>6, <1>p
      <4>2. Push(s, Code(s).body, g)
        BY <3>1 DEF Enter, f
      <4>3. IsCalled(g)
        BY <1>1, <1>3, <2>1, <4>1 DEF IsCalled, CallTarget, Kind
      <4>4. Stacks(s, Code(s).body, g)
        BY <1>0, <1>3, <4>1, <4>2, Shapes
      <4>5. QED
        BY <1>1, <1>3, <1>5, <1>q, <1>7e, <3>1, <4>1, <4>3, <4>4
    <3>2. CASE Throw(s, "error")
      BY <1>r, <1>q, <3>2
    <3>3. QED
      BY <2>1, <3>1, <3>2 DEF CallTarget
  <2>2. CASE CallReturns(s)
    BY <1>g, <1>q, <1>7e, <2>2 DEF CallReturns
  <2>3. QED
    BY <1>7e, <2>1, <2>2 DEF Calls
<1>7f. CASE raised[s] = "no" /\ Starts(s)
  <2>1. CASE StartTask(s)
    <3> DEFINE c == Fresh
               g == [f EXCEPT !.at = "store", !.arg = c]
    <3>1. c \in Streams /\ c \in Unused
      BY <2>1, FreshIsUnused DEF StartTask, Unused
    <3>2. c # s
      BY <3>1 DEF Unused
    <3>3. g \in Frames /\ g.node = f.node /\ g.keep = f.keep
      <4>1. c \in Nat
        BY <3>1, ScriptAssumption DEF Streams
      <4> HIDE DEF c
      <4>2. QED
        BY <1>0, <1>p, <4>1 DEF Frames
    <3>4. Stacks(s, Null, g)
      <4>1. stack'[s] = <<[Head(stack[s]) EXCEPT !.at = "store", !.arg = c]>>
                            \o Tail(stack[s])
        BY <1>0, <2>1, <3>1, <3>2 DEF StartTask, StackOK
      <4>2. <<g>> \o Tail(stack[s]) \in Seq(Frames)
        BY <1>0, <3>3, OnTop DEF t
      <4>3. Begin(Null) \o (<<g>> \o Tail(stack[s])) = <<g>> \o Tail(stack[s])
        BY <4>2, ConcatEmptySeq DEF Begin
      <4>4. QED
        BY <4>1, <4>3 DEF Stacks, f, Top
    <3>5. QED
      BY <1>1, <1>5, <1>q, <1>7f, <2>1, <3>3, <3>4 DEF StartTask
  <2>2. CASE StartTaskFails(s)
    BY <1>r, <1>q, <2>2 DEF StartTaskFails
  <2>3. CASE StoreTaskToWait(s)
    BY <1>g, <1>q, <1>7f, <2>3 DEF StoreTaskToWait
  <2>4. QED
    BY <1>7f, <2>1, <2>2, <2>3 DEF Starts
<1>7g. CASE raised[s] = "no" /\ Waits(s)
  <2>0. Quiet /\ raised'[s] = "no"
    BY <1>q, <1>7g DEF Waits, WaitEnter, WaitForAll, WaitForAny, UpdateProperty,
       Reads, UpdateResult, Answer
  <2>1. ASSUME NEW l \in Places, Resume(s, [f EXCEPT !.at = l])
        PROVE  InLoop(stack'[s], raised'[s], n)
    BY <1>1, <1>6, <1>s, <2>0, <2>1
  <2>2. ASSUME NEW keep \in {"no", "timeout"}, NEW q, Update(s, q, keep)
        PROVE  InLoop(stack'[s], raised'[s], n)
    <3>1. LET g == [f EXCEPT !.at = "Status", !.keep = keep]
          IN  g \in Frames /\ g.node = f.node /\ g.keep = keep
      <4>1. "Status" \in Places
        BY DEF Places, Updating
      <4>2. keep \in Raised \cup {"timeout"}
        BY DEF Raised
      <4>3. QED
        BY <1>0, <4>1, <4>2 DEF Frames
    <3>2. QED
      BY <1>s, <2>0, <2>2, <3>1 DEF Update, f
  <2>3. CASE WaitEnter(s) \/ UpdateResult(s) \/ Answer(s)
    <3>1. \/ GoNext(s) \/ Resume(s, [f EXCEPT !.at = "wait"])
          \/ Resume(s, [f EXCEPT !.at = "Status"])
          \/ Resume(s, [f EXCEPT !.at = "answer"])
      BY <2>3 DEF WaitEnter, UpdateResult, Answer, f
    <3>2. QED
      BY <1>g, <1>p, <2>0, <2>1, <3>1 DEF Updating
  <2>4. CASE WaitForAll(s) \/ WaitForAny(s)
    <3>1. \/ GoNext(s)
          \/ \E keep \in {"no", "timeout"} : \E q : Update(s, q, keep)
      BY <2>4 DEF WaitForAll, WaitForAny
    <3>2. QED
      BY <1>g, <2>0, <2>2, <3>1
  <2>5. CASE UpdateProperty(s)
    <3>1. \E m \in Updating : Resume(s, [f EXCEPT !.at = m])
      BY <2>5 DEF UpdateProperty, Reads, Updating, f
    <3>2. QED
      BY <1>p, <2>1, <3>1
  <2>6. QED
    BY <1>7g, <2>3, <2>4, <2>5 DEF Waits
<1>7h. CASE raised[s] # "no" /\ Unwinds(s)
  <2>0. raised[s] \in Raised
    BY <1>0 DEF RaisedOK
  <2>1. raised[s] = "return" => Code(s).kind = "execute" /\ f.at = "called"
    BY <1>2, <1>3 DEF IsCalled
  <2> USE DEF Unwinding
  <2>2. CASE WhileCatch(s)
    <3>1. \E l \in {"leave", "test"} : Resume(s, [f EXCEPT !.at = l])
      BY <2>2 DEF WhileCatch, f
    <3>2. raised'[s] = "no"
      BY <1>q, <2>2 DEF WhileCatch
    <3>3. QED
      BY <1>1, <1>6, <1>s, <1>p, <3>1, <3>2
  <2>3. CASE TryCatch(s)
    <3>1. Enter(s, Code(s).other, "caught") /\ Handled(s)
      BY <2>1, <2>3 DEF TryCatch
    <3>2. QED
      BY <1>3, <1>e, <1>q, <1>p, <3>1
  <2>4. CASE CatchFails(s)
    BY <1>f, <1>q, <2>0, <2>1, <2>4 DEF CatchFails
  <2>5. CASE RootCatch(s)
    BY <2>1, <2>5 DEF RootCatch
  <2>6. CASE ExecuteReturn(s)
    BY <1>g, <1>r, <1>q, <2>6 DEF ExecuteReturn
  <2>7. CASE Unwind(s)
    BY <1>r, <1>q, <2>1, <2>7 DEF Unwind, Catches
  <2>8. QED
    BY <1>7h, <2>2, <2>3, <2>4, <2>5, <2>6, <2>7 DEF Unwinds
<1>10. QED
  BY <1>7a, <1>7b, <1>7c, <1>7d, <1>7e, <1>7f, <1>7g, <1>7h DEF Processes

(* A SLEEP that is not in the block of a TRY has its token after the step.  *)
LEMMA TokenKept ==
    ASSUME StackOK, FrameInv, NEW s \in Streams, stack[s] # <<>>,
           NEW m \in Nodes \cup {Null},
           \/ Goes(s, m)
           \/ \E g \in Frames :
                 /\ Stacks(s, m, g)
                 /\ g.at = "token" /\ Kind(g) = "sleep" => g.node \in marks'[s]
    PROVE  stack'[s] # <<>> => HasToken(s)'
<1> DEFINE t == Tail(stack[s])
<1>0. t \in Seq(Frames)
  BY TopType
<1> HIDE DEF t
<1>1. m # Null => Begin(m) = <<Frame(m)>>
  BY DEF Begin
<1>2. CASE m # Null
  <2>1. \E q \in Seq(Frames) : stack'[s] = <<Frame(m)>> \o q
    <3>1. ASSUME NEW g \in Frames
          PROVE  <<g>> \o t \in Seq(Frames)
      BY <1>0, OnTop
    <3>2. QED
      BY <1>0, <1>1, <1>2, <3>1 DEF Goes, Stacks, t
  <2>2. Top(s)' = Frame(m)
    <3>1. PICK q \in Seq(Frames) : stack'[s] = <<Frame(m)>> \o q
      BY <2>1
    <3>2. Frame(m) \in Frames
      BY <1>2 DEF Frame, Frames, Places, Raised
    <3>3. Head(<<Frame(m)>> \o q) = Frame(m)
      BY <3>2
    <3>4. QED
      BY <3>1, <3>3 DEF Top
  <2>3. QED
    BY <2>2 DEF HasToken, Frame
<1>3. CASE m = Null /\ Goes(s, m)
  <2>1. stack'[s] = t
    BY <1>0, <1>3, ConcatEmptySeq DEF Goes, Begin, t
  <2>2. stack'[s] # <<>> => Top(s)' = stack[s][2] /\ 2 \in DOMAIN stack[s]
    <3>1. /\ Len(t) = Len(stack[s]) - 1 /\ Len(stack[s]) \in Nat
          /\ \A i \in 1..Len(t) : t[i] = stack[s][i+1]
          /\ DOMAIN stack[s] = 1..Len(stack[s])
      BY TopType DEF t, StackOK
    <3>2. t # <<>> => Len(t) > 0 /\ Head(t) = t[1]
      BY <1>0
    <3>3. QED
      BY <2>1, <3>1, <3>2 DEF Top
  <2>3. QED
    BY <2>2 DEF FrameInv, HasToken, Kind
<1>4. ASSUME m = Null, NEW g \in Frames, Stacks(s, m, g),
             g.at = "token" /\ Kind(g) = "sleep" => g.node \in marks'[s]
      PROVE  HasToken(s)'
  <2>1. <<g>> \o t \in Seq(Frames) /\ Head(<<g>> \o t) = g
    BY <1>0
  <2>2. stack'[s] = <<g>> \o t
    BY <1>4, <2>1, ConcatEmptySeq DEF Stacks, Begin, t
  <2>3. Top(s)' = g
    BY <2>1, <2>2 DEF Top
  <2>4. QED
    BY <1>4, <2>3 DEF HasToken, Marked, Kind
<1>5. QED
  BY <1>2, <1>3, <1>4

(* Above the block of a TRY nothing is asked of a SLEEP.                    *)
LEMMA CaughtUnder ==
    ASSUME NEW p \in Seq(Frames), NEW q \in Seq(Frames), Caught(q)
    PROVE  Caught(p \o q)
<1> DEFINE r == p \o q
<1>1. /\ r \in Seq(Frames) /\ Len(r) = Len(p) + Len(q)
      /\ Len(p) \in Nat /\ Len(q) \in Nat
      /\ \A i \in 1..Len(q) : r[i + Len(p)] = q[i]
  OBVIOUS
<1> HIDE DEF r
<1>2. PICK i \in 1..Len(q) : IsTried(q[i])
  BY DEF Caught
<1>3. i + Len(p) \in 1..Len(r) /\ r[i + Len(p)] = q[i]
  BY <1>1
<1>4. QED
  BY <1>1, <1>2, <1>3 DEF Caught, r

LEMMA TokenInBlock ==
    ASSUME StackOK, FrameInv, NEW s \in Streams, stack[s] # <<>>,
           Caught(Tail(stack[s])),
           NEW p \in Seq(Frames), stack'[s] = p \o Tail(stack[s])
    PROVE  stack'[s] # <<>> => HasToken(s)'
<1> DEFINE t == Tail(stack[s])
<1>0. t \in Seq(Frames) /\ stack'[s] = p \o t /\ Caught(t)
  BY TopType
<1>1. CASE p = <<>>
  <2>1. Goes(s, Null)
    BY <1>1 DEF Goes, Begin
  <2>2. QED
    BY <2>1, TokenKept
<1>2. CASE p # <<>>
  <2>1. p = <<Head(p)>> \o Tail(p) /\ Tail(p) \in Seq(Frames)
        /\ Head(p) \in Frames
    BY <1>2
  <2> HIDE DEF t
  <2>2. Tail(p \o t) = Tail(p) \o t
    BY <1>0, <1>2
  <2>3. Caught(Tail(p) \o t)
    BY <1>0, <2>1, CaughtUnder
  <2>4. QED
    BY <1>0, <2>2, <2>3 DEF HasToken
<1>3. QED
  BY <1>1, <1>2

(* What a step of the thread has to keep.                                   *)
StaysIn(s, n) == InLoop(stack'[s], raised'[s], n) /\ HasToken(s)'

(* The thread is in the loop and not in the block of a TRY.                 *)
LEMMA OutsideSteps ==
    ASSUME NEW s \in Streams, NEW n, Deep(s, n), ~Caught(Tail(stack[s])),
           HasToken(s), MarksOK,
           IF raised[s] = "no" THEN Processes(s) ELSE Unwinds(s)
    PROVE  StaysIn(s, n)
<1> DEFINE t == Tail(stack[s])
           f == Top(s)
<1>0. /\ StackOK /\ FrameInv /\ RaisedOK /\ stack[s] # <<>> /\ Len(t) > 1 /\ Chain(t, n)
      /\ t \in Seq(Frames) /\ f \in Frames /\ f.node \in Nodes
      /\ Fits(f, t, n) /\ ~Caught(t)
  BY TopType DEF Deep
<1>a. Len(t) \in Nat /\ Len(t) # 0 /\ Len(t) # 1 /\ ~Contained(t)
  <2> HIDE DEF t, f
  <2>1. t \in Seq(Frames) /\ Len(t) > 1 /\ ~Caught(t)
    BY <1>0
  <2>2. QED
    BY <2>1, LongEnough, ContainedIsCaught
<1>1. f.node \in Outside /\ f.keep \in {"no", "continue"}
  <2> HIDE DEF t, f
  <2>1. QED
    BY <1>0, <1>a DEF Fits
<1>2. raised[s] \in {"no", "continue"} \/ (IsTried(f) /\ raised[s] # "return")
  <2>1. /\ Contained(<<f>> \o t) <=> (IsCalled(f) /\ Caught(t)) \/ Contained(t)
        /\ Caught(<<f>> \o t) <=> IsTried(f) \/ Caught(t)
    BY <1>0, CaughtOnTop
  <2>2. ~Contained(<<f>> \o t) /\ (Caught(<<f>> \o t) => IsTried(f))
    BY <1>0, <1>a, <2>1
  <2>3. Stays(<<f>> \o t, raised[s])
    BY DEF Deep
  <2> HIDE DEF f, t
  <2>4. QED
    BY <2>2, <2>3 DEF Stays
<1>3. /\ Kind(f) = Code(s).kind
      /\ Code(s).kind \in {"work", "if", "case", "sleep", "continue", "try"}
      /\ Code(s).kind \in {"work", "if", "case"} => ~Code(s).flag
      /\ Code(s).next \in Outside \cup {Null}
      /\ Code(s).other \in Outside \cup {Null}
      /\ Code(s).last \in Outside \cup {Null}
      /\ Code(s).kind = "try" => Code(s).body \in Covered \cup {Null}
      /\ Code(s).kind # "try" => Code(s).body \in Outside \cup {Null}
      /\ \A m \in Outside \cup Covered : m \in Nodes
  BY <1>0, <1>1, Statements, ProtectedAssumption DEF Kind, Code
<1>m. f.at = "token" /\ Code(s).kind = "sleep" => Marked(s, f.node)
  BY <1>0, <1>3 DEF HasToken
<1>z. ASSUME NEW e, InLoop(stack'[s], e, n)
      PROVE  stack'[s] # <<>>
  BY <1>z DEF InLoop
<1> HIDE DEF t, f
<1>4. ASSUME NEW m \in Outside \cup {Null}, Goes(s, m),
             raised'[s] \in {"no", "continue"}
      PROVE  StaysIn(s, n)
  <2>1. Suits(m, t) /\ Stays(t, raised'[s])
    BY <1>0, <1>4 DEF Suits, Stays
  <2>2. InLoop(stack'[s], raised'[s], n)
    BY <1>0, <1>3, <1>4, <2>1, CallFits DEF Goes, t
  <2>3. QED
    BY <1>0, <1>3, <1>4, <1>z, <2>2, TokenKept DEF StaysIn
<1>5. ASSUME NEW g \in Frames, g.node = f.node, g.keep \in {"no", "continue"},
             NEW m,
             \/ IsTried(g) /\ m \in Covered \cup {Null}
             \/ ~IsTried(g) /\ m \in Outside \cup {Null},
             g.at = "token" => f.node \in marks'[s],
             Stacks(s, m, g), raised'[s] = "no"
      PROVE  StaysIn(s, n)
  <2> DEFINE q == <<g>> \o t
  <2>1. q \in Seq(Frames) /\ Len(q) > 1 /\ (Caught(q) <=> IsTried(g))
    <3>1. Len(q) = Len(t) + 1 /\ q \in Seq(Frames)
      BY <1>0, OnTop
    <3>2. Caught(q) <=> IsTried(g) \/ Caught(t)
      BY <1>0, CaughtOnTop
    <3> HIDE DEF q
    <3>3. QED
      BY <1>0, <1>a, <3>1, <3>2
  <2>2. Chain(q, n)
    <3>1. Fits(g, t, n)
      BY <1>0, <1>a, <1>1, <1>5 DEF Fits
    <3>2. QED
      BY <1>0, <3>1, ChainOnTop
  <2> HIDE DEF q
  <2>3. Suits(m, q) /\ Stays(q, "no") /\ m \in Nodes \cup {Null}
    BY <1>3, <1>5, <2>1 DEF Suits, Stays
  <2>4. InLoop(Begin(m) \o q, "no", n)
    BY <2>1, <2>2, <2>3, CallFits
  <2>5. InLoop(stack'[s], raised'[s], n)
    BY <1>5, <2>4 DEF Stacks, q, t
  <2>6. QED
    BY <1>0, <1>5, <1>z, <2>3, <2>5, TokenKept DEF StaysIn
<1>6. ASSUME NEW l \in Places
      PROVE  LET g == [f EXCEPT !.at = l]
             IN  /\ g \in Frames /\ g.node = f.node /\ g.keep = f.keep
                 /\ g.at = l
  BY <1>0 DEF Frames
<1>q. /\ Quiet => raised'[s] = raised[s]
      /\ Handled(s) => raised'[s] = "no"
      /\ \A e : Throw(s, e) => Return(s) /\ raised'[s] = e
  BY <1>0 DEF Quiet, Handled, Throw, RaisedOK
<1>p. /\ "after" \in Places /\ "token" \in Places /\ "wait" \in Places
      /\ "tried" \in Places /\ "caught" \in Places /\ "finally" \in Places
  BY DEF Places
<1>r. Return(s) /\ raised'[s] \in {"no", "continue"} =>
          StaysIn(s, n)
  BY <1>0, <1>4, Shapes
<1>g. GoNext(s) /\ raised'[s] = "no" => StaysIn(s, n)
  BY <1>0, <1>3, <1>4, Shapes
<1>e. ASSUME NEW l \in Places \ {"tried", "token"}, NEW m \in Outside \cup {Null},
             Enter(s, m, l), raised'[s] = "no"
      PROVE  StaysIn(s, n)
  <2> DEFINE g == [f EXCEPT !.at = l]
  <2>1. g \in Frames /\ g.node = f.node /\ g.keep = f.keep /\ ~IsTried(g)
        /\ g.at = l
    BY <1>6 DEF IsTried
  <2>2. Push(s, m, g) /\ m \in Nodes \cup {Null}
    BY <1>3, <1>e DEF Enter, f
  <2>3. Stacks(s, m, g)
    BY <1>0, <2>1, <2>2, Shapes
  <2>4. QED
    BY <1>1, <1>5, <1>e, <2>1, <2>3
<1>s. ASSUME NEW l \in Places \ {"tried"}, Resume(s, [f EXCEPT !.at = l]),
             raised'[s] = "no", l = "token" => f.node \in marks'[s]
      PROVE  StaysIn(s, n)
  <2> DEFINE g == [f EXCEPT !.at = l]
  <2>1. g \in Frames /\ g.node = f.node /\ g.keep = f.keep /\ ~IsTried(g)
        /\ g.at = l
    BY <1>6 DEF IsTried
  <2>2. Stacks(s, Null, g)
    BY <1>0, <1>s, <2>1, Shapes
  <2>3. QED
    BY <1>1, <1>5, <1>s, <2>1, <2>2
<1>f. ASSUME NEW e \in {"no", "continue"}, Finally(s, e), raised'[s] = "no"
      PROVE  StaysIn(s, n)
  <2> DEFINE g == [f EXCEPT !.at = "finally", !.keep = e]
  <2>1. g \in Frames /\ g.node = f.node /\ g.keep = e /\ ~IsTried(g)
        /\ g.at = "finally"
    <3>1. e \in Raised
      BY DEF Raised
    <3>2. QED
      BY <1>0, <1>p, <3>1 DEF Frames, IsTried
  <2>2. Push(s, Code(s).last, g) /\ Code(s).last \in Nodes \cup {Null}
    BY <1>3, <1>f DEF Finally, f
  <2>3. Stacks(s, Code(s).last, g)
    BY <1>0, <2>1, <2>2, Shapes
  <2>4. QED
    BY <1>3, <1>5, <1>f, <2>1, <2>3
<1> USE DEF IsAt
<1>7. CASE raised[s] = "no" /\ Blocks(s)
  <2>1. CASE Root(s)
    BY <1>3, <2>1 DEF Root
  <2>2. CASE Work(s) \/ AfterBlock(s)
    BY <1>3, <1>g, <1>q, <1>7, <2>2 DEF Work, AfterBlock
  <2>3. CASE Branch(s)
    <3>1. \E m \in {Code(s).body, Code(s).other} :
              Enter(s, m, "after") /\ Quiet
      BY <1>3, <2>3 DEF Branch
    <3>2. Code(s).body \in Outside \cup {Null}
      BY <1>3, <2>3 DEF Branch
    <3>3. QED
      BY <1>3, <1>e, <1>q, <1>p, <1>7, <3>1, <3>2
  <2>4. CASE Raise(s)
    <3>1. Throw(s, "continue")
      BY <1>3, <2>4 DEF Raise, Exception
    <3>2. QED
      BY <1>r, <1>q, <3>1
  <2>5. QED
    BY <1>7, <2>1, <2>2, <2>3, <2>4 DEF Blocks
<1>8. CASE raised[s] = "no" /\ Sleeps(s)
  <2>1. CASE SleepEnter(s)
    <3>1. f.node \in marks'[s]
      BY <2>1 DEF SleepEnter, Mark, MarksOK, f
    <3>2. QED
      BY <1>s, <1>q, <1>p, <1>8, <2>1, <3>1 DEF SleepEnter, f
  <2>2. CASE SleepToken(s)
    BY <1>m, <1>s, <1>q, <1>p, <1>8, <2>2 DEF SleepToken, f
  <2>3. CASE SleepElapses(s) \/ SleepCancelled(s)
    BY <1>g, <1>r, <1>q, <1>8, <2>3 DEF SleepElapses, SleepCancelled
  <2>4. QED
    BY <1>8, <2>1, <2>2, <2>3 DEF Sleeps
<1>9. CASE raised[s] = "no" /\ Tries(s)
  <2>1. CASE Try(s)
    <3> DEFINE g == [f EXCEPT !.at = "tried"]
    <3>1. g \in Frames /\ g.node = f.node /\ g.keep = f.keep /\ g.at = "tried"
      BY <1>6, <1>p
    <3>2. Kind(g) = "try" /\ IsTried(g) /\ Code(s).body \in Covered \cup {Null}
      BY <1>1, <1>3, <2>1, <3>1 DEF Try, IsTried, Kind
    <3>3. Push(s, Code(s).body, g) /\ Quiet
      BY <2>1 DEF Try, Enter, f
    <3>4. Stacks(s, Code(s).body, g)
      BY <1>0, <1>3, <3>1, <3>2, <3>3, Shapes
    <3>5. QED
      BY <1>1, <1>5, <1>q, <1>9, <3>1, <3>2, <3>3, <3>4
  <2>2. CASE TryFinally(s)
    BY <1>f, <1>q, <1>9, <2>2 DEF TryFinally
  <2>3. CASE TryLeave(s)
    BY <1>1, <1>g, <1>r, <1>q, <1>9, <2>3 DEF TryLeave, f
  <2>4. QED
    BY <1>9, <2>1, <2>2, <2>3 DEF Tries
<1>10. CASE raised[s] # "no" /\ Unwinds(s)
  <2> USE DEF Unwinding
  <2>1. raised[s] # "continue" => f.at = "tried" /\ Code(s).kind = "try"
                                   /\ raised[s] # "return"
    BY <1>2, <1>3, <1>10 DEF IsTried
  <2>2. CASE TryCatch(s)
    <3>1. Enter(s, Code(s).other, "caught") /\ Handled(s)
      BY <2>1, <2>2 DEF TryCatch
    <3>2. QED
      BY <1>3, <1>e, <1>q, <1>p, <3>1
  <2>3. CASE CatchFails(s)
    <3>1. raised[s] = "continue"
      BY <2>1, <2>3 DEF CatchFails, f
    <3>2. QED
      BY <1>f, <1>q, <2>3, <3>1 DEF CatchFails
  <2>4. CASE WhileCatch(s) \/ RootCatch(s) \/ ExecuteReturn(s)
    BY <1>3, <2>4 DEF WhileCatch, RootCatch, ExecuteReturn
  <2>5. CASE Unwind(s)
    <3>1. raised[s] = "continue"
      BY <2>1, <2>5 DEF Unwind, Catches, f
    <3>2. QED
      BY <1>r, <1>q, <2>5, <3>1 DEF Unwind
  <2>6. QED
    BY <1>10, <2>2, <2>3, <2>4, <2>5 DEF Unwinds
<1>11. QED
  BY <1>3, <1>7, <1>8, <1>9, <1>10 DEF Processes

(* What a step of a thread does to its marks, and to other threads.         *)
LEMMA NewMarks ==
    ASSUME StackOK, RaisedOK, MarksOK, NEW s \in Streams, stack[s] # <<>>,
           Processes(s) \/ Unwinds(s)
    PROVE  /\ \A t \in Streams \ {s} : /\ marks'[t] = marks[t]
                                        /\ raised'[t] = raised[t]
           /\ \A m \in marks'[s] : \/ m \in marks[s]
                                   \/ Script[m].kind # "while"
<1> USE DEF IsAt, Code
<1>1. CASE Blocks(s) \/ Tries(s) \/ Unwinds(s)
  BY <1>1 DEF MarksOK, RaisedOK, Blocks, Tries, Unwinds, Root, Work, Branch,
     AfterBlock, Raise, Try, TryFinally, TryLeave, WhileCatch, TryCatch,
     CatchFails, RootCatch, ExecuteReturn, Unwind, Throw, Quiet, Handled
<1>2. CASE Whiles(s) \/ Sleeps(s)
  BY <1>2 DEF MarksOK, RaisedOK, Whiles, WhileEnter, WhileTest, WhileLeave,
     Sleeps, SleepEnter, SleepToken, SleepElapses, SleepCancelled, Throw,
     Quiet, Mark, Unmark
<1>3. CASE Starts(s)
  BY <1>3 DEF MarksOK, RaisedOK, Starts, StartTask, StartTaskFails,
     StoreTaskToWait, Throw, Quiet, Mark
<1>4. CASE Fors(s)
  BY <1>4 DEF MarksOK, RaisedOK, Fors, ForEnter, ForItem, Throw, Quiet
<1>5. CASE Calls(s)
  BY <1>5 DEF MarksOK, RaisedOK, Calls, CallTarget, CallReturns, Throw, Quiet
<1>6. CASE Waits(s)
  BY <1>6 DEF MarksOK, RaisedOK, Waits, WaitEnter, WaitForAll, WaitForAny,
     UpdateProperty, UpdateResult, Answer, Reads, Quiet
<1>7. QED
  BY <1>1, <1>2, <1>3, <1>4, <1>5, <1>6 DEF Processes

(* A thread that has processors to return to goes on.                       *)
LEMMA AliveStays ==
    ASSUME StatusOK, NEW s \in Streams, status[s] = "Running",
           Processes(s) \/ Unwinds(s), NEW t \in Streams
    PROVE  status'[t] = status[t] \/ Alive(t)'
<1>1. CASE Blocks(s) \/ Whiles(s) \/ Sleeps(s) \/ Fors(s) \/ Tries(s)
           \/ Calls(s) \/ Unwinds(s) \/ StartTaskFails(s)
  BY <1>1, PlainUnchanged DEF ending
<1>2. CASE StartTask(s)
  BY <1>2, FreshIsUnused DEF StartTask, StatusOK, Alive, Unused
<1>3. CASE StoreTaskToWait(s) \/ Waits(s)
  BY <1>3 DEF StoreTaskToWait, Waits, WaitEnter, WaitForAll, WaitForAny,
     UpdateProperty, UpdateResult, Answer, Reads, ending
<1>4. QED
  BY <1>1, <1>2, <1>3 DEF Processes, Starts

-----------------------------------------------------------------------------
(* The thread is at the root or at the loop of the script n.                *)
Runner(s, n) ==
    /\ n \in Protected
    /\ Alive(s) /\ InLoop(stack[s], raised[s], n)
    /\ Unmarked(s, Script[n].body)

(* What is known of the script n.                                           *)
LEMMA LoopOf ==
    ASSUME NEW n \in Protected
    PROVE  LET w == Script[n].body
           IN  /\ n \in Nodes /\ w \in Nodes /\ w # Null
               /\ Script[n].kind = "root" /\ Script[w].kind = "while"
               /\ Script[w].flag /\ Script[w].body \in Outside \cup {Null}
               /\ \A m \in Outside : m \in Nodes
<1>1. /\ n \in Nodes /\ Script[n].body # Null /\ Script[n].kind = "root"
      /\ LET loop == Script[Script[n].body]
         IN  /\ loop.kind = "while" /\ loop.flag
             /\ loop.body \in Outside \cup {Null}
  BY ProtectedAssumption
<1>2. \A m \in Outside : m \in Nodes
  BY ProtectedAssumption
<1>3. QED
  BY <1>1, <1>2, Statements

(* The root enters the loop.                                                *)
LEMMA RootSteps ==
    ASSUME StackOK, FrameInv, RaisedOK, MarksOK, NEW s \in Streams,
           NEW n \in Protected, InLoop(stack[s], raised[s], n),
           Len(stack[s]) = 1,
           IF raised[s] = "no" THEN Processes(s) ELSE Unwinds(s)
    PROVE  /\ StaysIn(s, n)
           /\ Len(stack'[s]) = 2 /\ Top(s)'.at = "enter"
<1> DEFINE f == Top(s)
           w == Script[n].body
           g == [f EXCEPT !.at = "after"]
           b == Frame(w)
           q == <<b, g>>
<1>1. /\ stack[s] \in Seq(Frames) /\ f \in Frames /\ f = stack[s][1]
      /\ Tail(stack[s]) = <<>> /\ Below(stack[s], 1) = <<>>
      /\ 1 \in DOMAIN stack[s]
  <2>1. /\ stack[s] \in Seq(Frames) /\ stack[s] # <<>>
        /\ f \in Frames /\ f = stack[s][1] /\ 1 \in 1..Len(stack[s])
        /\ Tail(stack[s]) \in Seq(Frames) /\ Len(Tail(stack[s])) = 0
    BY TopType DEF InLoop, StackOK
  <2>2. Below(stack[s], 1) \in Seq(Frames) /\ Len(Below(stack[s], 1)) = 0
    BY <2>1, BelowIs
  <2>3. \A r \in Seq(Frames) : Len(r) = 0 => r = <<>>
    OBVIOUS
  <2>4. DOMAIN stack[s] = 1..Len(stack[s])
    BY <2>1
  <2>5. QED
    BY <2>1, <2>2, <2>3, <2>4
<1>2. /\ f.node = n /\ f.at = "enter" /\ raised[s] = "no"
  <2>1. Fits(f, <<>>, n)
    BY <1>1 DEF InLoop
  <2>2. QED
    BY <1>1, <2>1 DEF InLoop, Fits
<1>3. /\ n \in Nodes /\ Script[n].kind = "root" /\ w \in Nodes /\ w # Null
      /\ Script[w].kind = "while"
  BY LoopOf
<1>4. Root(s)
  <2>1. Code(s).kind = "root"
    BY <1>2, <1>3 DEF Code
  <2>2. Blocks(s)
    BY <1>2, <2>1 DEF Processes
  <2>3. QED
    BY <1>2, <2>1, <2>2
    DEF Blocks, Work, Branch, AfterBlock, Raise, IsAt
<1>5. g \in Frames /\ b \in Frames /\ g.node = n /\ g.at = "after"
      /\ b.node = w /\ b.at = "enter"
  BY <1>1, <1>2, <1>3 DEF Frames, Frame, Places, Raised
<1>6. stack'[s] = q
  <2>1. stack'[s] = Begin(w) \o <<g>> \o <<>>
    BY <1>1, <1>2, <1>4 DEF Root, Enter, Push, Code, StackOK
  <2>2. Begin(w) = <<b>>
    BY <1>3 DEF Begin
  <2> HIDE DEF b, g
  <2>3. <<b>> \o <<g>> = q /\ q \in Seq(Frames)
    <3>1. /\ q \in Seq(Frames) /\ Len(q) = 2 /\ q[1] = b /\ q[2] = g
          /\ <<g>> \in Seq(Frames) /\ Len(<<g>>) = 1 /\ <<g>>[1] = g
      BY <1>5
    <3>2. PICK c : c = <<g>>
      OBVIOUS
    <3>3. PICK r : r = <<b>> \o c
      OBVIOUS
    <3>4. /\ r \in Seq(Frames) /\ Len(r) = 2 /\ r[1] = b /\ r[2] = g
      <4>1. 1 \in 1..Len(c) /\ 1 + 1 = 2
        BY <3>1, <3>2
      <4>2. r[1 + 1] = c[1] /\ r[1] = b /\ Len(r) = Len(c) + 1
            /\ r \in Seq(Frames)
        BY <1>5, <3>1, <3>2, <3>3, <4>1, OnTop
      <4>3. QED
        BY <3>1, <3>2, <4>1, <4>2
    <3>5. r = q
      <4> HIDE DEF q
      <4>1. \A i \in 1..Len(r) : r[i] = q[i]
        BY <3>1, <3>4
      <4>2. QED
        BY <3>1, <3>4, <4>1, SeqEqual
    <3>6. QED
      BY <3>1, <3>2, <3>3, <3>5
  <2>4. q \o <<>> = q
    BY <2>3, ConcatEmptySeq
  <2>5. QED
    BY <2>1, <2>2, <2>3, <2>4
<1>7. raised'[s] = "no"
  BY <1>2, <1>4 DEF Root, Quiet
<1> HIDE DEF b, g
<1>8. q \in Seq(Frames) /\ Len(q) = 2 /\ q[1] = b /\ q[2] = g /\ Head(q) = b
      /\ DOMAIN q = {1, 2}
  BY <1>5
<1>9. Fits(q[1], Below(q, 1), n) /\ Fits(q[2], Below(q, 2), n)
  <2>1. Len(Below(q, 1)) = 1 /\ Len(Below(q, 2)) = 0
    <3> HIDE DEF q
    <3>1. 1 \in 1..Len(q) /\ 2 \in 1..Len(q) /\ Len(q) - 1 = 1
          /\ Len(q) - 2 = 0
      BY <1>8
    <3>2. QED
      BY <1>8, <3>1, BelowIs
  <2>2. QED
    BY <1>5, <1>8, <2>1 DEF Fits
<1>10. InLoop(q, "no", n)
  BY <1>8, <1>9 DEF InLoop, Stays
<1>11. Top(s)' = b
  BY <1>6, <1>8 DEF Top
<1>12. HasToken(s)'
  BY <1>5, <1>11 DEF HasToken
<1>13. QED
  BY <1>5, <1>6, <1>7, <1>8, <1>10, <1>11, <1>12 DEF StaysIn

(* The loop goes on as long as its flag is not set.                         *)
LEMMA LoopSteps ==
    ASSUME StackOK, FrameInv, RaisedOK, MarksOK, NEW s \in Streams,
           NEW n \in Protected, InLoop(stack[s], raised[s], n),
           Unmarked(s, Script[n].body), Len(stack[s]) = 2,
           IF raised[s] = "no" THEN Processes(s) ELSE Unwinds(s)
    PROVE  /\ StaysIn(s, n)
           /\ Top(s).at = "enter" => Script[n].body \notin marks'[s]
<1> DEFINE f == Top(s)
           t == Tail(stack[s])
           w == Script[n].body
<1>1. /\ stack[s] # <<>> /\ stack[s] \in Seq(Frames)
      /\ f \in Frames /\ f = stack[s][1]
      /\ t \in Seq(Frames) /\ Len(t) = 1
      /\ stack[s] = <<f>> \o t
  <2>1. stack[s] # <<>> /\ stack[s] \in Seq(Frames)
    BY DEF InLoop, StackOK
  <2>2. QED
    BY <2>1, TopType DEF Top
<1>2. Chain(stack[s], n)
  BY DEF InLoop, Chain
<1> HIDE DEF f, t
<1>3. Fits(f, t, n) /\ Chain(t, n)
  BY <1>1, <1>2, ChainOnTop
<1>4. f.node = w /\ f.at \in {"enter", "test"}
  BY <1>1, <1>3 DEF Fits
<1>5. /\ n \in Nodes /\ Script[n].kind = "root" /\ w \in Nodes /\ w # Null
      /\ Script[w].kind = "while" /\ Script[w].flag
      /\ Script[w].body \in Outside \cup {Null}
      /\ Script[w].body \in Nodes \cup {Null}
  BY LoopOf, Statements
<1>6. Code(s) = Script[w] /\ Kind(f) = "while"
  BY <1>4, <1>5 DEF Code, Kind, f
<1>7. ~Caught(t) /\ ~Contained(t)
  <2>1. 1 \in DOMAIN t /\ \A i \in DOMAIN t : i = 1
    BY <1>1
  <2>2. t[1].node = n
    <3>1. Fits(t[1], Below(t, 1), n)
      BY <1>3, <2>1 DEF Chain
    <3>2. Len(Below(t, 1)) = 0
      BY <1>1, BelowIs
    <3>3. QED
      BY <3>1, <3>2 DEF Fits
  <2>3. QED
    BY <1>5, <2>1, <2>2 DEF Caught, Contained, IsTried, IsCalled, Kind
<1>8. raised[s] \in {"no", "continue"}
  <2>1. ~Caught(stack[s]) /\ ~Contained(stack[s])
    BY <1>1, <1>6, <1>7, CaughtOnTop DEF IsTried, IsCalled
  <2>2. QED
    BY <2>1 DEF InLoop, Stays
<1>9. ASSUME NEW l \in Places \ {"token"}
      PROVE  LET g == [f EXCEPT !.at = l]
             IN  /\ g \in Frames /\ g.node = w /\ g.at = l
                 /\ ~IsTried(g) /\ ~IsCalled(g) /\ Kind(g) = "while"
  BY <1>1, <1>4, <1>5 DEF Frames, IsTried, IsCalled, Kind
<1>10. ASSUME NEW m \in Outside \cup {Null}, m \in Nodes \cup {Null},
              Stacks(s, m, [f EXCEPT !.at = "test"]), raised'[s] = "no"
       PROVE  StaysIn(s, n)
  <2> DEFINE g == [f EXCEPT !.at = "test"]
             q == <<g>> \o t
  <2>1. /\ g \in Frames /\ g.node = w /\ g.at = "test"
        /\ ~IsTried(g) /\ ~IsCalled(g)
    BY <1>9 DEF Places
  <2>2. q \in Seq(Frames) /\ Len(q) = 2
    <3> HIDE DEF g
    <3>1. QED
      BY <1>1, <2>1, OnTop
  <2>3. Chain(q, n)
    <3>1. Fits(g, t, n)
      BY <1>1, <2>1 DEF Fits
    <3> HIDE DEF g
    <3>2. QED
      BY <1>1, <1>3, <2>1, <3>1, ChainOnTop
  <2>4. ~Caught(q) /\ ~Contained(q)
    <3> HIDE DEF g
    <3>1. QED
      BY <1>1, <1>7, <2>1, CaughtOnTop
  <2>5. stack'[s] = Begin(m) \o q
    BY <1>10 DEF Stacks, t
  <2> HIDE DEF q
  <2>6. Suits(m, q) /\ Stays(q, "no")
    BY <1>10, <2>4 DEF Suits, Stays
  <2>7. InLoop(stack'[s], raised'[s], n)
    <3>1. Len(q) > 1
      BY <2>2
    <3>2. InLoop(Begin(m) \o q, "no", n)
      BY <1>10, <2>2, <2>3, <2>6, <3>1, CallFits
    <3>3. QED
      BY <1>10, <2>5, <3>2
  <2>8. HasToken(s)'
    <3>1. stack'[s] # <<>>
      BY <2>7 DEF InLoop
    <3> HIDE DEF g
    <3>2. Stacks(s, m, g)
      BY <1>10 DEF g
    <3>3. QED
      BY <1>1, <1>10, <2>1, <3>1, <3>2, TokenKept
  <2>9. QED
    BY <2>7, <2>8 DEF StaysIn
<1>11. ASSUME Resume(s, [f EXCEPT !.at = "test"])
       PROVE  Stacks(s, Null, [f EXCEPT !.at = "test"])
  BY <1>1, <1>9, <1>11, Shapes DEF Places
<1>12. /\ Quiet => raised'[s] = raised[s]
       /\ Handled(s) => raised'[s] = "no"
  BY DEF Quiet, Handled, RaisedOK
<1>13. CASE raised[s] = "no"
  <2>1. Whiles(s)
    BY <1>5, <1>6, <1>13 DEF Processes
  <2>2. CASE WhileEnter(s)
    <3>1. Resume(s, [f EXCEPT !.at = "test"]) /\ raised'[s] = "no"
      BY <1>12, <1>13, <2>2 DEF WhileEnter, f
    <3>2. w \notin marks'[s]
      BY <1>4, <2>2 DEF WhileEnter, Unmark, MarksOK, f
    <3>3. QED
      BY <1>10, <1>11, <3>1, <3>2
  <2>3. CASE WhileTest(s)
    <3>1. f.at = "test" /\ ~Marked(s, w)
      BY <2>3 DEF WhileTest, IsAt, Unmarked, f
    <3>2. Enter(s, Script[w].body, "test") /\ raised'[s] = "no"
      BY <1>4, <1>5, <1>6, <1>12, <1>13, <2>3, <3>1 DEF WhileTest, f
    <3>3. Push(s, Script[w].body, [f EXCEPT !.at = "test"])
      BY <3>2 DEF Enter, f
    <3>4. Stacks(s, Script[w].body, [f EXCEPT !.at = "test"])
      BY <1>1, <1>5, <1>9, <3>3, Shapes DEF Places
    <3>5. QED
      BY <1>5, <1>10, <3>1, <3>2, <3>4 DEF f
  <2>4. CASE WhileLeave(s)
    BY <1>4, <2>4 DEF WhileLeave, IsAt, f
  <2>5. QED
    BY <2>1, <2>2, <2>3, <2>4 DEF Whiles
<1>14. CASE raised[s] # "no"
  <2>1. raised[s] = "continue" /\ Unwinds(s)
    BY <1>8, <1>14
  <2>2. WhileCatch(s)
    BY <1>5, <1>6, <2>1 DEF Unwinds, TryCatch, CatchFails, RootCatch,
       ExecuteReturn, Unwind, Catches, Unwinding
  <2>3. Resume(s, [f EXCEPT !.at = "test"]) /\ raised'[s] = "no"
    BY <1>12, <2>1, <2>2 DEF WhileCatch, f
  <2>4. f.at = "test"
    BY <2>2 DEF WhileCatch, Unwinding, f
  <2>5. QED
    BY <1>10, <1>11, <2>3, <2>4 DEF f
<1>15. QED
  BY <1>13, <1>14

(* A thread does not leave its loop by a step of its own.                   *)
LEMMA RunnerSteps ==
    ASSUME ScriptInv, NEW s \in Streams, NEW n, Runner(s, n), StreamStep(s)
    PROVE  Runner(s, n)'
<1> DEFINE w == Script[n].body
           t == Tail(stack[s])
<1>0. /\ StackOK /\ RaisedOK /\ MarksOK /\ StatusOK /\ FrameInv
      /\ n \in Protected /\ Alive(s) /\ InLoop(stack[s], raised[s], n)
      /\ Unmarked(s, w) /\ stack[s] # <<>>
  BY TypesParts DEF ScriptInv, Runner, InLoop
<1>1. CASE Runs(s)
  <2>1. /\ status' = [status EXCEPT ![s] = "Running"]
        /\ UNCHANGED <<stack, raised, marks>>
    BY <1>1 DEF Runs, running
  <2>2. Alive(s)'
    BY <1>0, <2>1 DEF Alive, StatusOK
  <2>3. InLoop(stack'[s], raised'[s], n)
    BY <1>0, <2>1
  <2>4. Unmarked(s, w)'
    BY <1>0, <2>1 DEF Unmarked, HasToken, Marked, Top
  <2>5. QED
    BY <1>0, <2>2, <2>3, <2>4 DEF Runner
<1>2. CASE /\ status[s] = "Running"
           /\ IF raised[s] = "no" THEN Processes(s) ELSE Unwinds(s)
  <2>0. Processes(s) \/ Unwinds(s)
    BY <1>2
  <2>1. Alive(s)'
    BY <1>0, <1>2, <2>0, AliveStays DEF Alive
  <2>2. w \in marks'[s] => Marked(s, w)
    BY <1>0, <2>0, NewMarks, LoopOf DEF Marked
  <2>3. /\ Len(stack[s]) = 1 \/ Len(stack[s]) = 2 \/ Len(stack[s]) > 2
        /\ Len(stack[s]) > 2 => Len(stack[s]) # 1 /\ Len(stack[s]) # 2
    <3>1. PICK k \in Nat \ {0} : k = Len(stack[s])
      BY <1>0, TopType
    <3>2. (k = 1 \/ k = 2 \/ k > 2) /\ (k > 2 => k # 1 /\ k # 2)
      OBVIOUS
    <3>3. QED
      BY <3>1, <3>2
  <2>4. CASE Len(stack[s]) = 1
    <3>1. /\ StaysIn(s, n) /\ Len(stack'[s]) = 2 /\ Top(s)'.at = "enter"
      BY <1>0, <1>2, <2>4, RootSteps
    <3>2. QED
      BY <1>0, <2>1, <3>1 DEF Runner, StaysIn, Unmarked
  <2>5. CASE Len(stack[s]) = 2
    <3>1. StaysIn(s, n) /\ (Top(s).at = "enter" => w \notin marks'[s])
      BY <1>0, <1>2, <2>5, LoopSteps
    <3>2. w \notin marks'[s]
      BY <1>0, <2>2, <2>5, <3>1 DEF Unmarked
    <3>3. QED
      BY <1>0, <2>1, <3>1, <3>2 DEF Runner, StaysIn, Unmarked, Marked
  <2>6. CASE Len(stack[s]) > 2
    <3>1. Deep(s, n)
      BY <1>0, <2>6, DeepFrames
    <3>2. /\ t \in Seq(Frames) /\ Len(t) > 1 /\ Chain(t, n)
      BY <1>0, <3>1, TopType DEF Deep
    <3>3. w \notin marks'[s]
      BY <1>0, <2>2, <2>3, <2>6 DEF Unmarked, Marked
    <3>4. StaysIn(s, n)
      <4>1. CASE ~Caught(t)
        BY <1>0, <1>2, <3>1, <4>1, OutsideSteps DEF Unmarked
      <4>2. CASE Caught(t)
        <5>1. PICK p \in Seq(Frames) : stack'[s] = p \o t
          <6>1. UNCHANGED stack \/ \E p : Moves(s, p) /\ Allowed(s, p)
            BY StreamSteps
          <6>2. CASE UNCHANGED stack
            <7>1. <<Top(s)>> \in Seq(Frames) /\ stack[s] = <<Top(s)>> \o t
              BY <1>0, TopType DEF Top, StackOK
            <7>2. QED
              BY <6>2, <7>1
          <6>3. QED
            BY <6>1, <6>2 DEF Moves, Allowed
        <5>2. InLoop(stack'[s], raised'[s], n)
          <6>1. CASE Contained(t)
            <7> HIDE DEF t
            <7>1. InLoop(p \o t, raised'[s], n)
              BY <3>2, <6>1, AboveCall
            <7>2. QED
              BY <5>1, <7>1
          <6>2. CASE ~Contained(t)
            BY <1>2, <3>1, <4>2, <6>2, CoveredSteps
          <6>3. QED
            BY <6>1, <6>2
        <5>3. HasToken(s)'
          BY <1>0, <4>2, <5>1, <5>2, TokenInBlock DEF InLoop
        <5>4. QED
          BY <5>2, <5>3 DEF StaysIn
      <4>3. QED
        BY <4>1, <4>2
    <3>5. QED
      BY <1>0, <2>1, <3>3, <3>4 DEF Runner, StaysIn, Unmarked, Marked
  <2> HIDE DEF w, t
  <2>7. QED
    BY <2>3, <2>4, <2>5, <2>6
<1>3. QED
  BY <1>0, <1>1, <1>2 DEF StreamStep, Ends

(* Nor by a step of another thread.                                         *)
LEMMA RunnerStays ==
    ASSUME NEW s \in Streams, NEW n, Runner(s, n),
           Alive(s)', stack'[s] = stack[s], raised'[s] = raised[s],
           marks'[s] = marks[s]
    PROVE  Runner(s, n)'
  BY DEF Runner, Unmarked, HasToken, Marked, Top

-----------------------------------------------------------------------------
(* Steps that leave the threads alone and keep no other stream.             *)
LEMMA LoopUntouched ==
    ASSUME LoopInv, UNCHANGED <<stack, raised, marks, status, home>>,
           \A s \in Streams : Kept(s)' => Kept(s), WalkInv'
    PROVE  LoopInv'
<1>1. ASSUME NEW s \in Streams, status'[s] = "unused"
      PROVE  home'[s] = None
  BY <1>1 DEF LoopInv
<1>2. ASSUME NEW s \in Streams, Kept(s)', home'[s][2] \in Protected
      PROVE  /\ Alive(s)' /\ InLoop(stack'[s], raised'[s], home'[s][2])
             /\ Unmarked(s, Script[home[s][2]].body)'
  <2>1. /\ Alive(s) /\ InLoop(stack[s], raised[s], home[s][2])
        /\ Unmarked(s, Script[home[s][2]].body)
    BY <1>2 DEF LoopInv
  <2>2. QED
    BY <2>1 DEF Alive, Unmarked, HasToken, Marked, Top
<1>3. QED
  BY <1>1, <1>2 DEF LoopInv

(* Steps of the files, and of a host that has no stream left to keep.       *)
LEMMA LoopHost ==
    ASSUME StateInv, LoopInv, FileStep \/ Stop \/ HostStep
    PROVE  LoopInv'
<1>1. CASE FileStep \/ Stop
  <2>1. UNCHANGED <<stack, raised, marks, status, walk, streams, home, svc,
                    current, host>>
    BY <1>1 DEF FileStep, Stop, scriptVars, service, hosting
  <2>2. (\A s \in Streams : Kept(s)' => Kept(s)) /\ WalkInv'
    BY <2>1 DEF Kept, LoopInv, WalkInv
  <2>3. QED
    BY <2>1, <2>2, LoopUntouched
<1>2. CASE HostStep
  <2>1. /\ UNCHANGED <<stack, raised, marks, status, home, svc>>
        /\ host' # "running" /\ walk'["service"] = walk["service"]
    <3>1. CASE HostDispose \/ HostDisposeFails \/ HostClear
      BY <3>1 DEF HostDispose, HostDisposeFails, HostClear, scriptVars, service
    <3>2. ASSUME NEW f \in Names, HostDisposeNext(f)
          PROVE  /\ UNCHANGED <<stack, raised, marks, status, home, svc>>
                 /\ host' # "running" /\ walk'["service"] = walk["service"]
      <4>1. walk'["service"] = walk["service"]
        BY <3>2, HostAssumption
        DEF HostDisposeNext, BeginDispose, StateInv, ScriptTypes
      <4>2. QED
        BY <3>2, <4>1 DEF HostDisposeNext, running, ending, service
    <3>3. QED
      BY <1>2, <3>1, <3>2 DEF HostStep
  <2>2. (\A s \in Streams : ~Kept(s)') /\ WalkInv'
    BY <2>1 DEF Kept, LoopInv, WalkInv
  <2>3. QED
    BY <2>1, <2>2, LoopUntouched
<1>3. QED
  BY <1>1, <1>2

(* The service keeps what it has started, until it removes it.              *)
LEMMA LoopService ==
    ASSUME StateInv, LoopInv, ServiceStep
    PROVE  LoopInv'
<1>0. /\ ScriptTypes /\ HostTypes /\ EndInv /\ KeyInv /\ WalkInv
  BY DEF StateInv, LoopInv
<1> USE DEF Goto
<1>1. CASE Serve \/ Activated \/ Disposed \/ Removed \/ ReadFails
           \/ CreateStreamFails \/ \E f \in Names : Look(f)
  <2>1. /\ UNCHANGED <<stack, raised, marks, status, walk, streams, home, host>>
        /\ svc' # "add" /\ svc' # "dispose"
        /\ svc = "dispose" => walk["service"] = <<>>
    BY <1>1 DEF Serve, Activated, Disposed, Removed, ReadFails,
       CreateStreamFails, Look, scriptVars, hosting
  <2>2. (\A s \in Streams : Kept(s)' => Kept(s))
    BY <2>1 DEF Kept
  <2>3. WalkInv'
    BY <1>0, <2>1, <2>2 DEF WalkInv
  <2>4. QED
    BY <2>1, <2>2, <2>3, LoopUntouched
<1>2. CASE CreateStream
  <2> DEFINE c == Fresh
             n == files[current[1]]
  <2>1. /\ c \in Streams /\ status[c] = "unused"
        /\ current[1] \in Names /\ n \in Nodes
    BY <1>0, <1>2, FreshIsUnused DEF CreateStream, Unused, KeyInv, HostTypes
  <2>2. /\ status' = [status EXCEPT ![c] = "WaitingToRun"]
        /\ stack' = [stack EXCEPT ![c] = Begin(n)]
        /\ home' = [home EXCEPT ![c] = <<current[1], n>>]
        /\ svc = "read" /\ svc' = "add" /\ current' = <<current[1], c>>
        /\ UNCHANGED <<raised, marks, walk, streams, host>>
    BY <1>2 DEF CreateStream, Launch, hosting
  <2> HIDE DEF c, n
  <2>3. \A s \in Streams : s # c =>
            /\ Kept(s)' => Kept(s)
            /\ home'[s] = home[s] /\ status'[s] = status[s]
            /\ stack'[s] = stack[s]
    BY <1>0, <2>2 DEF Kept, HostTypes, ScriptTypes
  <2>4. WalkInv'
    <3>1. walk["service"] = <<>>
      BY <1>0, <2>2 DEF WalkInv
    <3>2. QED
      BY <1>0, <2>2, <3>1 DEF WalkInv
  <2>5. ASSUME NEW s \in Streams, status'[s] = "unused"
        PROVE  home'[s] = None
    BY <1>0, <2>2, <2>3, <2>5 DEF LoopInv, ScriptTypes
  <2>6. ASSUME NEW s \in Streams, Kept(s)', home'[s][2] \in Protected
        PROVE  /\ Alive(s)' /\ InLoop(stack'[s], raised'[s], home'[s][2])
               /\ Unmarked(s, Script[home[s][2]].body)'
    <3>1. CASE s # c
      <4>1. /\ Alive(s) /\ InLoop(stack[s], raised[s], home[s][2])
            /\ Unmarked(s, Script[home[s][2]].body)
        BY <2>3, <2>6, <3>1 DEF LoopInv
      <4>2. QED
        BY <2>2, <2>3, <3>1, <4>1 DEF Alive, Unmarked, HasToken, Marked, Top
    <3>2. CASE s = c
      <4>1. /\ stack'[s] = Begin(n) /\ raised'[s] = "no"
            /\ status'[s] = "WaitingToRun" /\ home'[s][2] = n
        BY <1>0, <2>1, <2>2, <3>2 DEF EndInv, HostTypes, ScriptTypes
      <4>2. n # Null /\ Frame(n) \in Frames /\ Frame(n).at = "enter"
            /\ Frame(n).node = n
        BY <2>1, ScriptAssumption DEF Frame, Frames, Places, Raised
      <4> DEFINE q == <<Frame(n)>>
      <4>3. stack'[s] = q
        BY <4>1, <4>2 DEF Begin
      <4>4. /\ q \in Seq(Frames) /\ Len(q) = 1 /\ q[1] = Frame(n)
            /\ Head(q) = Frame(n) /\ DOMAIN q = {1}
        BY <4>2
      <4> HIDE DEF q
      <4>5. InLoop(q, "no", n)
        <5>1. Len(Below(q, 1)) = 0
          <6>1. 1 \in 1..Len(q) /\ Len(q) - 1 = 0
            BY <4>4
          <6>2. QED
            BY <4>4, <6>1, BelowIs
        <5>2. Fits(q[1], Below(q, 1), n)
          BY <4>2, <4>4, <5>1 DEF Fits
        <5>3. q # <<>>
          BY <4>4
        <5>4. QED
          BY <4>2, <4>4, <5>2, <5>3 DEF InLoop, Stays
      <4>6. Top(s)'.at = "enter" /\ Len(stack'[s]) = 1
        BY <4>2, <4>3, <4>4 DEF Top
      <4>7. QED
        BY <4>1, <4>3, <4>5, <4>6 DEF Alive, Unmarked, HasToken
    <3>3. QED
      BY <3>1, <3>2
  <2>7. QED
    BY <2>4, <2>5, <2>6 DEF LoopInv
<1>3. CASE TryAdd
  <2>1. /\ svc = "add" /\ streams' = [streams EXCEPT ![current[1]] = current[2]]
        /\ svc' = "activate"
        /\ UNCHANGED <<stack, raised, marks, status, walk, home, host>>
    BY <1>3 DEF TryAdd, scriptVars
  <2>2. \A s \in Streams : Kept(s)' => Kept(s)
    BY <1>0, <2>1 DEF Kept, HostTypes
  <2>3. WalkInv'
    BY <1>0, <2>1, <2>2 DEF WalkInv
  <2>4. QED
    BY <2>1, <2>2, <2>3, LoopUntouched
<1>4. ASSUME NEW f \in Names, RemoveKey(f)
      PROVE  LoopInv'
  <2>1. /\ svc = "remove"
        /\ UNCHANGED <<stack, raised, marks, status, home, current, host>>
    BY <1>4 DEF RemoveKey, running, ending, hosting
  <2>2. CASE streams[f] = Null
    <3>1. UNCHANGED <<streams, walk, svc>>
      BY <1>4, <2>2 DEF RemoveKey
    <3>2. (\A s \in Streams : Kept(s)' => Kept(s)) /\ WalkInv'
      BY <1>0, <2>1, <3>1 DEF Kept, WalkInv
    <3>3. QED
      BY <2>1, <3>2, LoopUntouched
  <2>3. CASE streams[f] # Null
    <3>0. PICK c : c = streams[f]
      OBVIOUS
    <3>1. /\ streams' = [streams EXCEPT ![f] = Null] /\ svc' = "dispose"
          /\ walk' = [walk EXCEPT !["service"] = Visit(c, home[c][2])]
      BY <1>4, <2>3, <3>0 DEF RemoveKey, BeginDispose
    <3>2. c \in Streams /\ home[c][1] = f
      BY <1>0, <2>3, <3>0 DEF HostTypes, KeyInv
    <3>3. \A s \in Streams : Kept(s)' => Kept(s) /\ s # c
      <4>1. ASSUME NEW g \in Names, streams'[g] \in Streams
            PROVE  streams[g] = streams'[g] /\ g # f
        <5>1. 0 \notin Streams
          BY ScriptAssumption DEF Streams
        <5>2. QED
          BY <1>0, <3>1, <4>1, <5>1 DEF HostTypes, Null
      <4>2. ASSUME NEW g \in Names, streams[g] = c
            PROVE  g = f
        BY <1>0, <2>3, <3>0, <3>2, <4>2 DEF KeyInv
      <4>3. QED
        BY <2>1, <3>1, <4>1, <4>2 DEF Kept
    <3>4. \A i \in DOMAIN walk'["service"] : walk'["service"][i].stream = c
      BY <1>0, <3>1, HostAssumption DEF Visit, ScriptTypes
    <3>5. WalkInv'
      <4>1. walk'["host"] = walk["host"]
        BY <1>0, <3>1, HostAssumption DEF ScriptTypes
      <4>2. ~Kept(c)'
        BY <3>2, <3>3
      <4>3. \A i \in DOMAIN walk'["service"] :
                ~Kept(walk["service"][i].stream)'
        BY <3>4, <4>2 DEF Kept
      <4>4. QED
        BY <1>0, <2>1, <3>1, <4>1, <4>3 DEF WalkInv
    <3>6. QED
      BY <2>1, <3>3, <3>5, LoopUntouched
  <2>4. QED
    BY <2>2, <2>3
<1>5. QED
  BY <1>1, <1>2, <1>3, <1>4 DEF ServiceStep

(* A Dispose sets marks in the stream that it is of only.                   *)
LEMMA LoopDispose ==
    ASSUME StateInv, LoopInv, NEW d \in Disposers, OnDispose(d)
    PROVE  LoopInv'
<1>0. MarksOK /\ WalkOK /\ WalkInv
  BY InvParts, TypesParts DEF ScriptInv, LoopInv
<1>1. /\ UNCHANGED <<stack, raised, status, streams, home, svc, current, host>>
      /\ walk[d] # <<>> /\ DisposeStep(d)
  BY DEF OnDispose, DisposeStep, running, ending, service, hosting
<1>2. d = "service" \/ d = "host"
  BY HostAssumption
<1>3. \A s : Kept(s)' <=> Kept(s)
  BY <1>1 DEF Kept
<1>4. CASE host # "running"
  <2>1. \A s : ~Kept(s)
    BY <1>4 DEF Kept
  <2>2. WalkInv'
    <3>1. svc = "dispose" \/ walk'["service"] = <<>>
      <4>1. CASE d = "service"
        BY <1>0, <1>1, <4>1 DEF WalkInv
      <4>2. CASE d = "host"
        <5>1. \E v : walk' = [walk EXCEPT !["host"] = v]
          BY <1>1, <4>2 DEF DisposeStep, DisposeBlocks, DisposeWhile,
             DisposeSleep, DisposeNext, DisposeTargets, DisposeTarget,
             ClearTargets, VisitNext
        <5>2. walk'["service"] = walk["service"]
          BY <1>0, <5>1, HostAssumption DEF WalkOK
        <5>3. QED
          BY <1>0, <5>2 DEF WalkInv
      <4>3. QED
        BY <1>2, <4>1, <4>2
    <3>2. \A s : ~Kept(s)'
      BY <1>3, <2>1
    <3>3. QED
      BY <1>1, <1>4, <3>1, <3>2 DEF WalkInv
  <2>3. QED
    BY <1>1, <1>3, <2>1, <2>2 DEF LoopInv
<1>5. CASE host = "running"
  <2>1. d = "service" /\ svc = "dispose"
    BY <1>0, <1>1, <1>2, <1>5 DEF WalkInv
  <2>2. PICK S \in SUBSET Streams : S = {s \in Streams : ~Kept(s)}
    OBVIOUS
  <2>3. walk[d] \in Seq(VisitsOf(S))
    <3>1. walk[d] \in Seq(Visits)
      BY <1>0 DEF WalkOK
    <3>2. \A i \in 1..Len(walk[d]) : walk[d][i] \in VisitsOf(S)
      <4> TAKE i \in 1..Len(walk[d])
      <4>1. walk[d][i] \in Visits /\ i \in DOMAIN walk[d]
        BY <3>1
      <4>2. ~Kept(walk[d][i].stream)
        BY <1>0, <2>1, <4>1 DEF WalkInv
      <4>3. QED
        BY <2>2, <4>1, <4>2 DEF VisitsOf, Visits
    <3>3. QED
      BY <3>1, <3>2
  <2>4. PICK c \in S, n \in Nodes, v \in Seq(VisitsOf(S)) :
            /\ walk' = [walk EXCEPT ![d] = v]
            /\ UNCHANGED marks \/ Mark(c, n) \/ Unmark(c, n)
    BY <1>0, <1>1, <2>3, DisposeVisits
  <2>5. walk'["service"] = v /\ walk'["host"] = walk["host"]
    BY <1>0, <2>1, <2>4, HostAssumption DEF WalkOK
  <2>6. WalkInv'
    <3>1. \A i \in DOMAIN v : ~Kept(v[i].stream)
      <4> TAKE i \in DOMAIN v
      <4>1. v[i] \in VisitsOf(S)
        OBVIOUS
      <4>2. v[i].stream \in S
        BY <4>1 DEF VisitsOf
      <4>3. QED
        BY <2>2, <4>2
    <3>2. \A i \in DOMAIN walk'["service"] : ~Kept(walk["service"][i].stream)'
      <4> TAKE i \in DOMAIN walk'["service"]
      <4>1. walk'["service"][i] = v[i] /\ i \in DOMAIN v
        BY <2>5
      <4>2. ~Kept(v[i].stream)
        BY <3>1, <4>1
      <4>3. QED
        BY <1>1, <4>1, <4>2 DEF Kept
    <3>3. QED
      BY <1>0, <1>1, <2>1, <2>5, <3>2 DEF WalkInv
  <2>7. \A s \in Streams : Kept(s) => marks'[s] = marks[s]
    BY <1>0, <2>2, <2>4 DEF Mark, Unmark, MarksOK
  <2>8. ASSUME NEW s \in Streams, Kept(s)', home'[s][2] \in Protected
        PROVE  /\ Alive(s)' /\ InLoop(stack'[s], raised'[s], home'[s][2])
               /\ Unmarked(s, Script[home[s][2]].body)'
    <3>1. /\ Alive(s) /\ InLoop(stack[s], raised[s], home[s][2])
          /\ Unmarked(s, Script[home[s][2]].body) /\ marks'[s] = marks[s]
      BY <1>1, <1>3, <2>7, <2>8 DEF LoopInv
    <3>2. QED
      BY <1>1, <3>1 DEF Alive, Unmarked, HasToken, Marked, Top
  <2>9. QED
    BY <1>1, <2>6, <2>8 DEF LoopInv
<1>6. QED
  BY <1>4, <1>5

(* A thread keeps its own loop, and every other one.                        *)
LEMMA LoopStream ==
    ASSUME StateInv, LoopInv, NEW s \in Streams, OnStream(s)
    PROVE  LoopInv'
<1>0. /\ ScriptInv /\ StackOK /\ RaisedOK /\ MarksOK /\ StatusOK /\ WalkInv
  BY InvParts, TypesParts DEF ScriptInv, LoopInv
<1>1. /\ StreamStep(s)
      /\ UNCHANGED <<streams, home, svc, current, host>>
  BY DEF OnStream, service, hosting
<1>2. \A t : Kept(t)' <=> Kept(t)
  BY <1>1 DEF Kept
<1>3. UNCHANGED walk
  <2>1. CASE Processes(s) \/ Unwinds(s)
    BY <2>1, PlainUnchanged
    DEF Processes, Starts, StartTask, StoreTaskToWait, Waits, WaitEnter,
        WaitForAll, WaitForAny, UpdateProperty, Reads, UpdateResult, Answer
  <2>2. CASE Runs(s) \/ Ends(s)
    BY <2>2 DEF Runs, Ends
  <2>3. QED
    BY <1>1, <2>1, <2>2 DEF StreamStep
<1>4. WalkInv'
  <2>1. \A i \in DOMAIN walk'["service"] : ~Kept(walk["service"][i].stream)'
    BY <1>0, <1>1, <1>3 DEF WalkInv, Kept
  <2>2. QED
    BY <1>0, <1>1, <1>3, <2>1 DEF WalkInv
<1>5. ASSUME NEW t \in Streams, status'[t] = "unused"
      PROVE  home'[t] = None
  <2>1. StatusMoves
    BY <1>0, <1>1, StreamSteps
  <2>2. status[t] = "unused"
    BY <1>5, <2>1 DEF StatusMoves
  <2>3. QED
    BY <1>1, <2>2 DEF LoopInv
<1>6. ASSUME NEW t \in Streams \ {s}, NEW n, Runner(t, n)
      PROVE  Runner(t, n)'
  <2>1. stack'[t] = stack[t]
    <3>1. UNCHANGED stack \/ \E p : Moves(s, p)
      BY <1>0, <1>1, StreamSteps
    <3>2. status[t] # "unused"
      BY <1>6 DEF Runner, Alive
    <3>3. QED
      BY <3>1, <3>2 DEF Moves, Others, Launched
  <2>2. /\ raised'[t] = raised[t] /\ marks'[t] = marks[t] /\ Alive(t)'
    <3>0. Alive(t)
      BY <1>6 DEF Runner
    <3>1. CASE Runs(s) \/ Ends(s)
      BY <1>0, <3>0, <3>1
      DEF Runs, Ends, running, Handled, RaisedOK, StatusOK, Alive
    <3>2. CASE /\ status[s] = "Running" /\ stack[s] # <<>>
               /\ Processes(s) \/ Unwinds(s)
      <4>1. raised'[t] = raised[t] /\ marks'[t] = marks[t]
        BY <1>0, <3>2, NewMarks
      <4>2. status'[t] = status[t] \/ Alive(t)'
        BY <1>0, <3>2, AliveStays
      <4>3. QED
        BY <3>0, <4>1, <4>2 DEF Alive
    <3>3. QED
      BY <1>1, <3>1, <3>2 DEF StreamStep
  <2>3. QED
    BY <1>6, <2>1, <2>2, RunnerStays
<1>7. ASSUME NEW t \in Streams, Kept(t)', home'[t][2] \in Protected
      PROVE  /\ Alive(t)' /\ InLoop(stack'[t], raised'[t], home'[t][2])
             /\ Unmarked(t, Script[home[t][2]].body)'
  <2>1. PICK n : n = home[t][2]
    OBVIOUS
  <2>2. Runner(t, n)
    BY <1>1, <1>2, <1>7, <2>1 DEF LoopInv, Runner
  <2>3. Runner(t, n)'
    BY <1>0, <1>1, <1>6, <2>2, RunnerSteps
  <2>4. home'[t][2] = n
    BY <1>1, <2>1
  <2>5. QED
    BY <2>3, <2>4 DEF Runner
<1>8. QED
  BY <1>4, <1>5, <1>7 DEF LoopInv

(* The invariant IInv holds whatever the scripts and the files are.         *)
THEOREM Invariance == Spec => []IInv
<1>1. Init => LoopInv
  <2> SUFFICES ASSUME Init
               PROVE  LoopInv
    OBVIOUS
  <2>1. /\ walk = [d \in Disposers |-> <<>>] /\ svc = "top"
        /\ streams = [f \in Names |-> Null]
        /\ home = [s \in Streams |-> None]
    BY DEF Init, ScriptInit
  <2>2. WalkInv
    BY <2>1, HostAssumption DEF WalkInv
  <2>3. \A s \in Streams : ~Kept(s) /\ home[s] = None
    <3>1. 0 \notin Streams
      BY ScriptAssumption DEF Streams
    <3>2. QED
      BY <2>1, <3>1 DEF Kept, Null
  <2>4. QED
    BY <2>2, <2>3 DEF LoopInv
<1>2. StateInv /\ LoopInv /\ [Next]_vars => LoopInv'
  <2> SUFFICES ASSUME StateInv, LoopInv, [Next]_vars
               PROVE  LoopInv'
    OBVIOUS
  <2>1. CASE Next
    BY <2>1, LoopHost, LoopService, LoopStream, LoopDispose DEF Next
  <2>2. CASE UNCHANGED vars
    <3>1. UNCHANGED <<stack, raised, marks, status, walk, streams, home, svc,
                      current, host>>
      BY <2>2 DEF vars, scriptVars, service, hosting
    <3>2. (\A s \in Streams : Kept(s)' => Kept(s)) /\ WalkInv'
      BY <3>1 DEF Kept, LoopInv, WalkInv
    <3>3. QED
      BY <3>1, <3>2, LoopUntouched
  <2>3. QED
    BY <2>1, <2>2
<1>3. Spec => []LoopInv
  BY <1>1, <1>2, StateInvariance, PTL DEF Spec
<1>4. IInv <=> StateInv /\ LoopInv
  BY DEF IInv
<1>5. QED
  BY <1>3, <1>4, StateInvariance, PTL

(* A script that is an endless loop with its work in a TRY runs until it is *)
(* disposed: whatever its statements raise, whichever scripts it calls or   *)
(* starts, and whatever the files and the other scripts do                  *)
(* (TryProcessor.Process, WhileProcessor.Process).                          *)
THEOREM ProtectedRun == Spec => []ProtectedScriptsRun
<1>1. StateInv /\ LoopInv => ProtectedScriptsRun
  <2> SUFFICES ASSUME StateInv, LoopInv, NEW f \in Names, host = "running",
                      streams[f] # Null, home[streams[f]][2] \in Protected
               PROVE  Alive(streams[f])
    BY DEF ProtectedScriptsRun
  <2>1. streams[f] \in Streams
    BY DEF StateInv, HostTypes
  <2>2. Kept(streams[f])
    BY DEF Kept
  <2>3. QED
    BY <2>1, <2>2 DEF LoopInv
<1>2. QED
  BY <1>1, Invariance, PTL DEF IInv

=============================================================================
