---------------------------- MODULE SearchProofs ----------------------------
(***************************************************************************)
(* Proofs about the searches.  The translations of a pattern by the stores *)
(* mean what the pattern means, for patterns and texts of every length.    *)
(* Whatever is stored and whatever is searched for, a search that succeeds *)
(* returns what its pattern means, no more than the limit, and overlooks   *)
(* nothing.                                                                *)
(*                                                                         *)
(* Induction is on sets of numbers (NumberProofs); a recursive function is *)
(* shown to be well defined by giving it in a closed form.                 *)
(***************************************************************************)
EXTENDS Search, NumberProofs, SequenceTheorems

-----------------------------------------------------------------------------
(* Matching.                                                               *)

\* A translated pattern without optional elements.
Plain(e) == \A i \in 1..Len(e) : ~e[i].optional

\* The first i elements of e, one after the other, match the pieces of s that
\* end at cut[1], ..., cut[i], the last of them at j.
CutsTo(e, s, i, j, cut) ==
    /\ cut \in [0..i -> Nat] /\ cut[0] = 0 /\ cut[i] = j
    /\ \A k \in 1..i :
         IF e[k].what = "any" THEN cut[k-1] <= cut[k]
         ELSE cut[k] = cut[k-1] + 1 /\ e[k].what \in {"one", s[cut[k]]}

\* The lengths of the beginnings of s that the first i elements match.
Ends(e, s, i) == {j \in 0..Len(s) : \E cut : CutsTo(e, s, i, j, cut)}

\* One element more.
NextEnds(e, s, i, before) ==
    {j \in 0..Len(s) :
        \/ e[i].what = "any" /\ \E k \in before : k <= j
        \/ e[i].what # "any" /\ j > 0 /\ e[i].what \in {"one", s[j]} /\ j - 1 \in before
        \/ e[i].optional /\ j \in before}

\* The ends of the cuts increase.
LEMMA CutsIncrease ==
    ASSUME NEW e, NEW s, NEW i \in Nat, NEW j \in Nat, NEW cut, CutsTo(e, s, i, j, cut)
    PROVE  \A k \in 0..i : cut[k] <= j
<1> DEFINE S == {d \in 0..i : cut[i - d] <= j}
<1>1. 0 \in S
  BY DEF CutsTo
<1>2. ASSUME NEW d \in 1..i, d - 1 \in S PROVE d \in S
  <2> DEFINE k == i - d + 1
  <2>1. k \in 1..i /\ k - 1 = i - d /\ k = i - (d - 1)
    OBVIOUS
  <2>2. cut[k] <= j
    BY <1>2, <2>1
  <2>3. cut[k-1] <= cut[k] /\ cut[k-1] \in Nat /\ cut[k] \in Nat
    BY <2>1 DEF CutsTo
  <2>4. cut[i - d] <= j
    BY <2>1, <2>2, <2>3
  <2> QED
    BY <2>4
<1>3. 0..i \subseteq S
  BY <1>1, <1>2, UpTo
<1> SUFFICES ASSUME NEW k \in 0..i PROVE cut[k] <= j
  OBVIOUS
<1>4. i - k \in S /\ i - (i - k) = k
  BY <1>3
<1> QED
  BY <1>4

LEMMA EndsOfNothing ==
    ASSUME NEW e, NEW s \in Seq(Characters) PROVE Ends(e, s, 0) = {0}
<1>1. 0 \in Ends(e, s, 0)
  <2> DEFINE cut == [k \in 0..0 |-> 0]
  <2>1. CutsTo(e, s, 0, 0, cut)
    BY DEF CutsTo
  <2> QED
    BY <2>1 DEF Ends
<1>2. \A j \in Ends(e, s, 0) : j = 0
  BY DEF Ends, CutsTo
<1> QED
  BY <1>1, <1>2

\* A cut of i - 1 pieces is made longer by one piece ...
LEMMA OnePieceMore ==
    ASSUME NEW e, NEW s, NEW i \in Nat \ {0}, NEW j \in Nat, NEW k \in Nat, NEW cut,
           CutsTo(e, s, i - 1, k, cut),
           IF e[i].what = "any" THEN k <= j ELSE j = k + 1 /\ e[i].what \in {"one", s[j]}
    PROVE  \E longer : CutsTo(e, s, i, j, longer)
<1> DEFINE longer == [m \in 0..i |-> IF m = i THEN j ELSE cut[m]]
<1>1. longer \in [0..i -> Nat] /\ longer[0] = 0 /\ longer[i] = j
  BY DEF CutsTo
<1>2. \A m \in 0..(i-1) : longer[m] = cut[m]
  OBVIOUS
<1>3. ASSUME NEW m \in 1..i
      PROVE  IF e[m].what = "any" THEN longer[m-1] <= longer[m]
             ELSE longer[m] = longer[m-1] + 1 /\ e[m].what \in {"one", s[longer[m]]}
  <2>1. CASE m = i
    <3>1. longer[m-1] = k /\ longer[m] = j
      BY <2>1 DEF CutsTo
    <3> QED
      BY <2>1, <3>1
  <2>2. CASE m # i
    <3>1. m \in 1..(i-1) /\ m \in 0..(i-1) /\ m - 1 \in 0..(i-1)
      BY <2>2
    <3>2. longer[m] = cut[m] /\ longer[m-1] = cut[m-1]
      BY <1>2, <3>1
    <3>3. IF e[m].what = "any" THEN cut[m-1] <= cut[m]
          ELSE cut[m] = cut[m-1] + 1 /\ e[m].what \in {"one", s[cut[m]]}
      BY <3>1 DEF CutsTo
    <3> QED
      BY <3>2, <3>3
  <2> QED
    BY <2>1, <2>2
<1> HIDE DEF longer
<1>4. CutsTo(e, s, i, j, longer)
  BY <1>1, <1>3 DEF CutsTo
<1> QED
  BY <1>4

\* ... and every cut of i pieces is one of these.
LEMMA OnePieceLess ==
    ASSUME NEW e, NEW s, NEW i \in Nat \ {0}, NEW j \in Nat, NEW cut, CutsTo(e, s, i, j, cut)
    PROVE  \E k, shorter :
             /\ k \in Nat /\ CutsTo(e, s, i - 1, k, shorter)
             /\ IF e[i].what = "any" THEN k <= j ELSE j = k + 1 /\ e[i].what \in {"one", s[j]}
<1> DEFINE shorter == [m \in 0..(i-1) |-> cut[m]]
           k == cut[i-1]
<1>1. k \in Nat /\ cut[i] = j /\ i \in 1..i
  BY DEF CutsTo
<1>2. IF e[i].what = "any" THEN k <= j ELSE j = k + 1 /\ e[i].what \in {"one", s[j]}
  BY <1>1 DEF CutsTo
<1>3. CutsTo(e, s, i - 1, k, shorter)
  <2>1. shorter \in [0..(i-1) -> Nat] /\ shorter[0] = 0 /\ shorter[i-1] = k
    BY DEF CutsTo
  <2>2. \A m \in 1..(i-1) : m \in 1..i /\ shorter[m] = cut[m] /\ shorter[m-1] = cut[m-1]
    OBVIOUS
  <2> HIDE DEF shorter
  <2> QED
    BY <2>1, <2>2 DEF CutsTo
<1> QED
  BY <1>1, <1>2, <1>3

LEMMA EndsOfOneMore ==
    ASSUME NEW e, Plain(e), NEW s \in Seq(Characters), NEW i \in 1..Len(e), Len(e) \in Nat
    PROVE  Ends(e, s, i) = NextEnds(e, s, i, Ends(e, s, i - 1))
<1>0. ~e[i].optional /\ i \in Nat \ {0} /\ Len(s) \in Nat
  BY DEF Plain
<1>1. ASSUME NEW j \in Ends(e, s, i) PROVE j \in NextEnds(e, s, i, Ends(e, s, i - 1))
  <2>1. j \in 0..Len(s) /\ j \in Nat
    BY DEF Ends
  <2>2. PICK cut : CutsTo(e, s, i, j, cut)
    BY DEF Ends
  <2>3. PICK k, shorter :
          /\ k \in Nat /\ CutsTo(e, s, i - 1, k, shorter)
          /\ IF e[i].what = "any" THEN k <= j ELSE j = k + 1 /\ e[i].what \in {"one", s[j]}
    BY <1>0, <2>1, <2>2, OnePieceLess
  <2>4. k \in 0..Len(s) /\ k <= j
    BY <1>0, <2>1, <2>3
  <2>5. k \in Ends(e, s, i - 1)
    BY <2>3, <2>4 DEF Ends
  <2>6. CASE e[i].what = "any"
    BY <2>1, <2>3, <2>5, <2>6 DEF NextEnds
  <2>7. CASE e[i].what # "any"
    <3>1. j > 0 /\ j - 1 = k /\ e[i].what \in {"one", s[j]}
      BY <2>3, <2>7
    <3> QED
      BY <2>1, <2>5, <2>7, <3>1 DEF NextEnds
  <2> QED
    BY <2>6, <2>7
<1>2. ASSUME NEW j \in NextEnds(e, s, i, Ends(e, s, i - 1)) PROVE j \in Ends(e, s, i)
  <2>1. j \in 0..Len(s) /\ j \in Nat
    BY DEF NextEnds
  <2>2. PICK k \in Ends(e, s, i - 1) :
          IF e[i].what = "any" THEN k <= j ELSE j = k + 1 /\ e[i].what \in {"one", s[j]}
    <3>1. CASE e[i].what = "any"
      BY <1>0, <3>1 DEF NextEnds
    <3>2. CASE e[i].what # "any"
      <4>1. j - 1 \in Ends(e, s, i - 1) /\ e[i].what \in {"one", s[j]}
        BY <1>0, <3>2 DEF NextEnds
      <4>2. j = (j - 1) + 1
        BY <2>1
      <4> QED
        BY <3>2, <4>1, <4>2
    <3> QED
      BY <3>1, <3>2
  <2>3. PICK cut : CutsTo(e, s, i - 1, k, cut)
    BY DEF Ends
  <2>4. k \in Nat
    BY DEF Ends
  <2>5. \E longer : CutsTo(e, s, i, j, longer)
    BY <1>0, <2>1, <2>2, <2>3, <2>4, OnePieceMore
  <2> QED
    BY <2>1, <2>5 DEF Ends
<1> QED
  BY <1>1, <1>2

\* The recursive function of the model has this closed form.
LEMMA ReachIsEnds ==
    ASSUME NEW e, Plain(e), NEW s \in Seq(Characters), Len(e) \in Nat
    PROVE  \A i \in 0..Len(e) : Reach(e, s)[i] = Ends(e, s, i)
<1> DEFINE Solves(f) ==
             f = [i \in 0..Len(e) |->
                    IF i = 0 THEN {0}
                    ELSE {j \in 0..Len(s) :
                            \/ e[i].what = "any" /\ \E k \in f[i-1] : k <= j
                            \/ /\ e[i].what # "any" /\ j > 0 /\ e[i].what \in {"one", s[j]}
                               /\ j - 1 \in f[i-1]
                            \/ e[i].optional /\ j \in f[i-1]}]
           ends == [i \in 0..Len(e) |-> Ends(e, s, i)]
<1>1. Solves(ends)
  <2>1. ASSUME NEW i \in 0..Len(e)
        PROVE  ends[i] = IF i = 0 THEN {0} ELSE NextEnds(e, s, i, ends[i-1])
    <3>1. CASE i = 0
      BY <3>1, EndsOfNothing
    <3>2. CASE i # 0
      <4>1. i \in 1..Len(e) /\ i - 1 \in 0..Len(e)
        BY <3>2
      <4>2. ends[i-1] = Ends(e, s, i - 1)
        BY <4>1
      <4> QED
        BY <3>2, <4>1, <4>2, EndsOfOneMore
    <3> QED
      BY <3>1, <3>2
  <2>2. ends = [i \in 0..Len(e) |-> IF i = 0 THEN {0} ELSE NextEnds(e, s, i, ends[i-1])]
    BY <2>1
  <2> HIDE DEF ends
  <2> QED
    BY <2>2 DEF NextEnds
<1>2. Reach(e, s) = CHOOSE f : Solves(f)
  BY DEF Reach
<1> HIDE DEF Solves, ends
<1>3. Solves(CHOOSE f : Solves(f))
  BY <1>1
<1>4. Solves(Reach(e, s))
  BY <1>2, <1>3
<1>5. \A i \in 0..Len(e) :
        Reach(e, s)[i] = IF i = 0 THEN {0} ELSE NextEnds(e, s, i, Reach(e, s)[i-1])
  BY <1>4 DEF Solves, NextEnds
<1> DEFINE S == {i \in 0..Len(e) : Reach(e, s)[i] = Ends(e, s, i)}
<1>6. 0 \in S
  <2>1. 0 \in 0..Len(e)
    OBVIOUS
  <2>2. Reach(e, s)[0] = {0}
    BY <1>5, <2>1
  <2> QED
    BY <2>1, <2>2, EndsOfNothing
<1>7. ASSUME NEW i \in 1..Len(e), i - 1 \in S PROVE i \in S
  BY <1>5, <1>7, EndsOfOneMore
<1>8. 0..Len(e) \subseteq S
  BY <1>6, <1>7, UpTo
<1> QED
  BY <1>8

-----------------------------------------------------------------------------
(* Translations.                                                           *)

\* The translated pattern e has, for each character of p, the element that
\* stands for what the character means.
Translates(e, p) ==
    /\ Len(e) = Len(p)
    /\ \A k \in 1..Len(p) :
         /\ ~e[k].optional
         /\ e[k].what = IF p[k] = "*" THEN "any" ELSE IF p[k] = "?" THEN "one" ELSE p[k]

LEMMA TranslationMeans ==
    ASSUME NEW p \in Seq(Characters), NEW s \in Seq(Characters), NEW e, Translates(e, p)
    PROVE  MatchString(e, s) <=> Means(p, s)
<1>0. Len(e) = Len(p) /\ Len(p) \in Nat /\ Len(s) \in Nat /\ DOMAIN p = 1..Len(p)
  BY DEF Translates
<1>1. Plain(e)
  BY DEF Plain, Translates
<1>2. ASSUME NEW k \in 1..Len(p), NEW c
      PROVE  /\ e[k].what = "any" <=> p[k] = "*"
             /\ p[k] # "*" => (e[k].what \in {"one", c} <=> p[k] \in {"?", c})
  <2>1. p[k] \in Characters
    OBVIOUS
  <2>2. p[k] # "any" /\ p[k] # "one"
    BY <2>1, CharactersAssumption
  <2> QED
    BY <1>0, <2>2 DEF Translates
<1>3. MatchString(e, s) <=> \E cut : CutsTo(e, s, Len(p), Len(s), cut)
  <2>1. Reach(e, s)[Len(e)] = Ends(e, s, Len(e))
    BY <1>0, <1>1, ReachIsEnds
  <2> QED
    BY <1>0, <2>1 DEF MatchString, Ends
<1>4. ASSUME NEW cut, CutsTo(e, s, Len(p), Len(s), cut) PROVE Means(p, s)
  <2>1. \A k \in 0..Len(p) : cut[k] <= Len(s)
    BY <1>0, <1>4, CutsIncrease
  <2>2. cut \in [0..Len(p) -> 0..Len(s)] /\ cut[0] = 0 /\ cut[Len(p)] = Len(s)
    BY <1>0, <1>4, <2>1 DEF CutsTo
  <2>3. ASSUME NEW i \in DOMAIN p
        PROVE  IF p[i] = "*" THEN cut[i-1] <= cut[i]
               ELSE cut[i] = cut[i-1] + 1 /\ p[i] \in {"?", s[cut[i]]}
    BY <1>0, <1>2, <1>4 DEF CutsTo
  <2> QED
    BY <2>2, <2>3 DEF Means
<1>5. ASSUME Means(p, s) PROVE \E cut : CutsTo(e, s, Len(p), Len(s), cut)
  <2>1. PICK cut \in [0..Len(p) -> 0..Len(s)] :
          /\ cut[0] = 0 /\ cut[Len(p)] = Len(s)
          /\ \A i \in DOMAIN p :
               IF p[i] = "*" THEN cut[i-1] <= cut[i]
               ELSE cut[i] = cut[i-1] + 1 /\ p[i] \in {"?", s[cut[i]]}
    BY <1>5 DEF Means
  <2>2. cut \in [0..Len(p) -> Nat]
    BY <1>0
  <2>3. ASSUME NEW i \in 1..Len(p)
        PROVE  IF e[i].what = "any" THEN cut[i-1] <= cut[i]
               ELSE cut[i] = cut[i-1] + 1 /\ e[i].what \in {"one", s[cut[i]]}
    BY <1>0, <1>2, <2>1
  <2>4. CutsTo(e, s, Len(p), Len(s), cut)
    BY <2>1, <2>2, <2>3 DEF CutsTo
  <2> QED
    BY <2>4
<1> QED
  BY <1>3, <1>4, <1>5

-----------------------------------------------------------------------------
(* The translations of the stores.                                         *)

\* Sequences of one element each, put one behind the other.
LEMMA FlattenOnes ==
    ASSUME NEW T, NEW ones \in Seq(T), NEW seqs,
           seqs = [i \in 1..Len(ones) |-> <<ones[i]>>]
    PROVE  FlattenSeq(seqs) = ones
<1>0. Len(ones) \in Nat /\ Len(seqs) = Len(ones) /\ DOMAIN ones = 1..Len(ones)
  OBVIOUS
<1>1. CASE Len(seqs) = 0
  <2>1. FlattenSeq(seqs) = seqs
    BY <1>1 DEF FlattenSeq
  <2>2. ones = <<>> /\ seqs = <<>>
    BY <1>0, <1>1
  <2> QED
    BY <2>1, <2>2
<1>2. CASE Len(seqs) # 0
  <2> DEFINE n == Len(seqs)
             Begin(i) == [k \in 1..i |-> ones[k]]
             Solves(f) == f = [i \in 1..Len(seqs) |-> IF i = 1 THEN seqs[i] ELSE f[i-1] \o seqs[i]]
             parts == [i \in 1..Len(seqs) |-> Begin(i)]
             flatten == CHOOSE f : Solves(f)
  <2>1. FlattenSeq(seqs) = flatten[n]
    BY <1>2 DEF FlattenSeq
  <2>2. ASSUME NEW i \in 1..n
        PROVE  Begin(i) = IF i = 1 THEN seqs[i] ELSE Begin(i-1) \o seqs[i]
    <3>0. i \in 1..Len(ones) /\ i \in Nat /\ seqs[i] = <<ones[i]>>
      BY <1>0
    <3>1. CASE i = 1
      BY <3>0, <3>1
    <3>2. CASE i # 1
      <4>1. i - 1 \in Nat /\ \A k \in 1..(i-1) : ones[k] \in T
        BY <3>0, <3>2, <1>0
      <4>2. Begin(i-1) \in Seq(T) /\ Len(Begin(i-1)) = i - 1
        BY <4>1
      <4>3. <<ones[i]>> \in Seq(T) /\ Len(<<ones[i]>>) = 1
        BY <3>0, <1>0
      <4> DEFINE both == Begin(i-1) \o <<ones[i]>>
      <4>4. both \in Seq(T) /\ Len(both) = i
        BY <4>1, <4>2, <4>3
      <4>5. ASSUME NEW k \in 1..i PROVE both[k] = ones[k]
        <5>1. CASE k = i
          BY <4>1, <4>2, <4>3, <5>1
        <5>2. CASE k # i
          <6>1. k \in 1..(i-1) /\ Begin(i-1)[k] = ones[k]
            BY <5>2
          <6> QED
            BY <4>2, <4>3, <6>1
        <5> QED
          BY <5>1, <5>2
      <4>6. both = [k \in 1..i |-> both[k]]
        BY <4>4
      <4> HIDE DEF both
      <4>7. both = Begin(i)
        BY <4>5, <4>6
      <4> QED
        BY <3>0, <3>2, <4>7 DEF both
    <3> QED
      BY <3>1, <3>2
  <2> HIDE DEF Begin
  <2>3. Solves(parts)
    <3>1. ASSUME NEW i \in 1..n
          PROVE  parts[i] = IF i = 1 THEN seqs[i] ELSE parts[i-1] \o seqs[i]
      <4>1. parts[i] = Begin(i) /\ (i # 1 => parts[i-1] = Begin(i-1))
        BY <1>0
      <4> HIDE DEF parts
      <4> QED
        BY <2>2, <4>1
    <3> QED
      BY <3>1
  <2> HIDE DEF Solves, parts
  <2>4. Solves(flatten)
    BY <2>3
  <2> HIDE DEF flatten
  <2>5. \A i \in 1..n : flatten[i] = IF i = 1 THEN seqs[i] ELSE flatten[i-1] \o seqs[i]
    BY <2>4 DEF Solves
  <2> DEFINE S == {i \in 0..n : i # 0 => flatten[i] = Begin(i)}
  <2>6. 0 \in S
    BY <1>0
  <2>7. ASSUME NEW i \in 1..n, i - 1 \in S PROVE i \in S
    <3>1. flatten[i] = IF i = 1 THEN seqs[i] ELSE flatten[i-1] \o seqs[i]
      BY <2>5
    <3>2. Begin(i) = IF i = 1 THEN seqs[i] ELSE Begin(i-1) \o seqs[i]
      BY <2>2
    <3>3. i # 1 => flatten[i-1] = Begin(i-1)
      BY <1>0, <2>7
    <3>4. flatten[i] = Begin(i)
      BY <3>1, <3>2, <3>3
    <3> QED
      BY <1>0, <3>4
  <2>8. n \in Nat /\ n # 0
    BY <1>0, <1>2
  <2>9. 0..n \subseteq S
    BY <2>6, <2>7, <2>8, UpTo
  <2>10. flatten[n] = Begin(n)
    BY <2>8, <2>9
  <2>11. Begin(n) = ones
    BY <1>0 DEF Begin
  <2> QED
    BY <2>1, <2>10, <2>11
<1> QED
  BY <1>1, <1>2

\* LIKE gives the translated pattern the meaning of the pattern, for every text and
\* every pattern without the characters patternToSQL leaves alone: % _ and \.
THEOREM LikeMeansPattern ==
    ASSUME NEW p \in Seq(Characters), NEW s \in Seq(Characters),
           \A i \in 1..Len(p) : p[i] \notin LikeCharacters
    PROVE  MatchString(Like(PatternToSQL(p)), s) <=> Means(p, s)
<1> DEFINE q == PatternToSQL(p)
           one(i) == Element(IF p[i] = "*" THEN "any" ELSE IF p[i] = "?" THEN "one" ELSE p[i], FALSE)
           ones == [i \in 1..Len(p) |-> one(i)]
           At(i) == CASE Escaped(q, i)                  -> <<Element(q[i], FALSE)>>
                      [] ~Escaped(q, i) /\ q[i] = "%"   -> <<Element("any", FALSE)>>
                      [] ~Escaped(q, i) /\ q[i] = "_"   -> <<Element("one", FALSE)>>
                      [] ~Escaped(q, i) /\ q[i] = "\\" /\ i < Len(q) -> <<>>
                      [] OTHER                          -> <<Element(q[i], FALSE)>>
           seqs == [i \in DOMAIN q |-> At(i)]
<1>0. Len(p) \in Nat /\ DOMAIN p = 1..Len(p) /\ DOMAIN q = 1..Len(p) /\ Len(ones) = Len(p)
  BY DEF PatternToSQL
<1>1. ASSUME NEW i \in 1..Len(p)
      PROVE  /\ q[i] = IF p[i] = "*" THEN "%" ELSE IF p[i] = "?" THEN "_" ELSE p[i]
             /\ p[i] \notin LikeCharacters
  BY <1>0 DEF PatternToSQL
<1>2. ASSUME NEW i \in 1..Len(p) PROVE q[i] # "\\"
  BY <1>1 DEF LikeCharacters
<1> HIDE DEF q
<1>3. ASSUME NEW i \in 1..Len(p) PROVE ~Escaped(q, i)
  <2> SUFFICES ASSUME NEW k \in 1..(i-1), \A j \in k..(i-1) : q[j] = "\\" PROVE FALSE
    BY DEF Escaped
  <2>1. k \in 1..Len(p) /\ k \in k..(i-1)
    BY <1>0
  <2> QED
    BY <1>2, <2>1
<1>4. ASSUME NEW i \in 1..Len(p) PROVE At(i) = <<one(i)>>
  <2>1. CASE p[i] = "*"
    BY <1>1, <1>3, <2>1
  <2>2. CASE p[i] = "?"
    BY <1>1, <1>3, <2>2
  <2>3. CASE p[i] # "*" /\ p[i] # "?"
    <3>1. q[i] = p[i] /\ p[i] # "%" /\ p[i] # "_" /\ p[i] # "\\"
      BY <1>1, <2>3 DEF LikeCharacters
    <3> QED
      BY <1>3, <2>3, <3>1
  <2> QED
    BY <2>1, <2>2, <2>3
<1>5. ones \in Seq({one(i) : i \in 1..Len(p)})
  <2> DEFINE T == {one(i) : i \in 1..Len(p)}
  <2>1. \A i \in 1..Len(p) : one(i) \in T
    OBVIOUS
  <2> HIDE DEF T, one
  <2>2. ones \in Seq(T)
    BY <1>0, <2>1
  <2> QED
    BY <2>2 DEF T
<1>6. seqs = [i \in 1..Len(ones) |-> <<ones[i]>>]
  BY <1>0, <1>4
<1>7. Like(q) = FlattenSeq(seqs)
  BY DEF Like
<1>8. Like(q) = ones
  BY <1>5, <1>6, <1>7, FlattenOnes
<1>9. Translates(ones, p)
  BY <1>0 DEF Translates, Element
<1> QED
  BY <1>8, <1>9, TranslationMeans DEF q

\* The expression the memory store compiles means what the pattern means, when
\* the pattern has no "?" and none of the operators of regexp that compileGlob
\* leaves alone.
THEOREM GlobMeansPattern ==
    ASSUME NEW p \in Seq(Characters), NEW s \in Seq(Characters),
           \A i \in 1..Len(p) : p[i] # "?" /\ p[i] \notin Operators
    PROVE  MatchString(CompileGlob(p), s) <=> Means(p, s)
<1> DEFINE one(i) == Element(IF p[i] = "*" THEN "any" ELSE p[i], FALSE)
           ones == [i \in 1..Len(p) |-> one(i)]
           At(i) == IF p[i] = "?" THEN <<>>
                    ELSE <<Element(IF p[i] = "*" THEN "any" ELSE p[i], i < Len(p) /\ p[i+1] = "?")>>
           seqs == [i \in DOMAIN p |-> At(i)]
<1>0. Len(p) \in Nat /\ DOMAIN p = 1..Len(p) /\ Len(ones) = Len(p)
  OBVIOUS
<1>1. ASSUME NEW i \in 1..Len(p) PROVE At(i) = <<one(i)>>
  <2>1. (i < Len(p) /\ p[i+1] = "?") = FALSE
    BY <1>0
  <2> QED
    BY <2>1
<1>2. ones \in Seq({one(i) : i \in 1..Len(p)})
  <2> DEFINE T == {one(i) : i \in 1..Len(p)}
  <2>1. \A i \in 1..Len(p) : one(i) \in T
    OBVIOUS
  <2> HIDE DEF T, one
  <2>2. ones \in Seq(T)
    BY <1>0, <2>1
  <2> QED
    BY <2>2 DEF T
<1>3. seqs = [i \in 1..Len(ones) |-> <<ones[i]>>]
  BY <1>0, <1>1
<1>4. CompileGlob(p) = FlattenSeq(seqs)
  <2> DEFINE start == IF p # <<>> /\ p[1] = "?" THEN <<Element("any", FALSE)>> ELSE <<>>
  <2>1. start = <<>>
    BY <1>0
  <2>2. CompileGlob(p) = start \o FlattenSeq(seqs)
    BY DEF CompileGlob
  <2>3. FlattenSeq(seqs) = ones
    BY <1>2, <1>3, FlattenOnes
  <2>4. <<>> \o ones = ones
    BY <1>2
  <2> QED
    BY <2>1, <2>2, <2>3, <2>4
<1>5. CompileGlob(p) = ones
  BY <1>2, <1>3, <1>4, FlattenOnes
<1>6. Translates(ones, p)
  BY <1>0 DEF Translates, Element
<1> QED
  BY <1>5, <1>6, TranslationMeans

\* The rewriting of the domain search leaves a pattern without wildcards alone.
LEMMA RewriteKeeps ==
    ASSUME NEW p \in Seq(Characters), \A i \in 1..Len(p) : p[i] \notin {"?", "*"}
    PROVE  RewriteDomainPattern(p) = p
<1> DEFINE seqs == [i \in DOMAIN p |->
                      CASE p[i] = "*" -> <<".", "*">> [] p[i] = "?" -> <<".">> [] OTHER -> <<p[i]>>]
<1>1. seqs = [i \in 1..Len(p) |-> <<p[i]>>]
  OBVIOUS
<1>2. RewriteDomainPattern(p) = FlattenSeq(seqs)
  BY DEF RewriteDomainPattern
<1> QED
  BY <1>1, <1>2, FlattenOnes

-----------------------------------------------------------------------------
(* Lower case.                                                             *)

LEMMA LowerText ==
    ASSUME NEW s \in Seq(Characters)
    PROVE  /\ ToLower(s) \in Seq(Characters) /\ Len(ToLower(s)) = Len(s)
           /\ \A i \in 1..Len(s) : ToLower(s)[i] = Lower[s[i]] /\ s[i] \in Characters
<1>1. DOMAIN s = 1..Len(s) /\ Len(s) \in Nat /\ \A i \in 1..Len(s) : s[i] \in Characters
  OBVIOUS
<1>2. \A i \in 1..Len(s) : Lower[s[i]] \in Characters
  BY <1>1, CharactersAssumption
<1>3. ToLower(s) = [i \in 1..Len(s) |-> Lower[s[i]]]
  BY <1>1 DEF ToLower
<1> QED
  BY <1>1, <1>2, <1>3

\* The characters that mean something are the same in lower case.
Special == {"*", "?", ".", "-"} \union Operators \union LikeCharacters

LEMMA LowerSpecial ==
    ASSUME NEW c \in Characters
    PROVE  c \in Special \/ Lower[c] \in Special => Lower[c] = c
BY CharactersAssumption DEF Special

LEMMA LowerAvoids ==
    ASSUME NEW p \in Seq(Characters), NEW X \in SUBSET Special, ToSet(p) \intersect X = {}
    PROVE  \A i \in 1..Len(p) : p[i] \notin X /\ ToLower(p)[i] \notin X
<1> SUFFICES ASSUME NEW i \in 1..Len(p) PROVE p[i] \notin X /\ ToLower(p)[i] \notin X
  OBVIOUS
<1>1. p[i] \notin X
  BY DEF ToSet
<1>2. ToLower(p)[i] = Lower[p[i]] /\ p[i] \in Characters
  BY LowerText
<1> QED
  BY <1>1, <1>2, LowerSpecial

LEMMA LowerSQL ==
    ASSUME NEW p \in Seq(Characters)
    PROVE  ToLower(PatternToSQL(p)) = PatternToSQL(ToLower(p))
<1>1. DOMAIN p = 1..Len(p) /\ DOMAIN PatternToSQL(p) = 1..Len(p) /\ DOMAIN ToLower(p) = 1..Len(p)
  BY DEF PatternToSQL, ToLower
<1>2. ASSUME NEW i \in 1..Len(p) PROVE Lower[PatternToSQL(p)[i]] = PatternToSQL(ToLower(p))[i]
  <2>1. ToLower(p)[i] = Lower[p[i]] /\ p[i] \in Characters
    BY LowerText
  <2>2. /\ PatternToSQL(p)[i] = CASE p[i] = "*" -> "%" [] p[i] = "?" -> "_" [] OTHER -> p[i]
        /\ PatternToSQL(ToLower(p))[i] =
             CASE Lower[p[i]] = "*" -> "%" [] Lower[p[i]] = "?" -> "_" [] OTHER -> Lower[p[i]]
    BY <1>1, <2>1 DEF PatternToSQL
  <2>3. Lower["%"] = "%" /\ Lower["_"] = "_"
    BY LowerSpecial, CharactersAssumption DEF Special, LikeCharacters
  <2>4. CASE p[i] \in {"*", "?"} \/ Lower[p[i]] \in {"*", "?"}
    <3>1. Lower[p[i]] = p[i]
      BY <2>1, <2>4, LowerSpecial DEF Special
    <3> QED
      BY <2>2, <2>3, <2>4, <3>1
  <2>5. CASE ~(p[i] \in {"*", "?"} \/ Lower[p[i]] \in {"*", "?"})
    BY <2>2, <2>5
  <2> QED
    BY <2>4, <2>5
<1>3. ToLower(PatternToSQL(p)) = [i \in 1..Len(p) |-> Lower[PatternToSQL(p)[i]]]
  BY <1>1 DEF ToLower
<1>4. PatternToSQL(ToLower(p)) = [i \in 1..Len(p) |-> PatternToSQL(ToLower(p))[i]]
  BY <1>1 DEF PatternToSQL
<1> QED
  BY <1>2, <1>3, <1>4

LEMMA LowerConcat ==
    ASSUME NEW s \in Seq(Characters), NEW t \in Seq(Characters)
    PROVE  ToLower(s \o t) = ToLower(s) \o ToLower(t)
<1>1. /\ s \o t \in Seq(Characters) /\ Len(s \o t) = Len(s) + Len(t)
      /\ Len(s) \in Nat /\ Len(t) \in Nat
  OBVIOUS
<1>2. /\ ToLower(s) \in Seq(Characters) /\ Len(ToLower(s)) = Len(s)
      /\ ToLower(t) \in Seq(Characters) /\ Len(ToLower(t)) = Len(t)
  BY LowerText
<1> DEFINE both == ToLower(s) \o ToLower(t)
           lowered == ToLower(s \o t)
<1>a. both \in Seq(Characters) /\ Len(both) = Len(ToLower(s)) + Len(ToLower(t))
  BY <1>2, ConcatProperties, Zenon
<1>3. both \in Seq(Characters) /\ Len(both) = Len(s) + Len(t)
  BY <1>2, <1>a, Zenon
<1>4. lowered \in Seq(Characters) /\ Len(lowered) = Len(s) + Len(t)
  BY <1>1, LowerText
<1>5. ASSUME NEW i \in 1..(Len(s) + Len(t)) PROVE lowered[i] = both[i]
  <2>1. lowered[i] = Lower[(s \o t)[i]]
    BY <1>1, LowerText
  <2>2. CASE i <= Len(s)
    <3>1. i \in 1..Len(s) /\ (s \o t)[i] = s[i] /\ both[i] = ToLower(s)[i]
      BY <1>1, <1>2, <2>2
    <3>2. ToLower(s)[i] = Lower[s[i]]
      BY <3>1, LowerText
    <3> QED
      BY <2>1, <3>1, <3>2
  <2>3. CASE i > Len(s)
    <3>1. i - Len(s) \in 1..Len(t) /\ (s \o t)[i] = t[i - Len(s)] /\ both[i] = ToLower(t)[i - Len(s)]
      BY <1>1, <1>2, <2>3
    <3>2. ToLower(t)[i - Len(s)] = Lower[t[i - Len(s)]]
      BY <3>1, LowerText
    <3> QED
      BY <2>1, <3>1, <3>2
  <2>4. i <= Len(s) \/ i > Len(s)
    BY <1>1
  <2> QED
    BY <2>2, <2>3, <2>4
<1> HIDE DEF both, lowered
<1>6. lowered = both
  BY <1>3, <1>4, <1>5, SeqEqual
<1> QED
  BY <1>6 DEF both, lowered

-----------------------------------------------------------------------------
(* The full-name search of the SQL stores.                                 *)

\* q is m between two characters a.
IsBetween(q, a, m) ==
    /\ q \in Seq(Characters) /\ Len(q) = Len(m) + 2 /\ DOMAIN q = 1..(Len(m) + 2)
    /\ q[1] = a /\ q[Len(m) + 2] = a /\ \A i \in 1..Len(m) : q[i+1] = m[i]

LEMMA Between ==
    ASSUME NEW a \in Characters, NEW m \in Seq(Characters)
    PROVE  IsBetween(<<a>> \o m \o <<a>>, a, m)
<1> DEFINE n == Len(m)
           end == <<a>>
           first == end \o m
           q == first \o end
<1>1. n \in Nat
  OBVIOUS
<1>2. end \in Seq(Characters) /\ Len(end) = 1 /\ end[1] = a
  OBVIOUS
<1> HIDE DEF end
<1>a. /\ first \in Seq(Characters) /\ Len(first) = Len(end) + n
      /\ \A i \in 1..Len(end) + n : first[i] = IF i <= Len(end) THEN end[i] ELSE m[i - Len(end)]
  BY <1>2, ConcatProperties, Zenon
<1> HIDE DEF first
<1>b. /\ q \in Seq(Characters) /\ Len(q) = Len(first) + Len(end)
      /\ \A i \in 1..Len(first) + Len(end) :
           q[i] = IF i <= Len(first) THEN first[i] ELSE end[i - Len(first)]
  <2>1. first \in Seq(Characters) /\ end \in Seq(Characters)
    BY <1>2, <1>a
  <2> QED
    BY <2>1, ConcatProperties, Zenon
<1> HIDE DEF q
<1>3. /\ first \in Seq(Characters) /\ Len(first) = n + 1 /\ first[1] = a
      /\ \A i \in 1..n : first[i+1] = m[i]
  <2> HIDE DEF n
  <2>1. Len(first) = n + 1 /\ first[1] = a
    BY <1>1, <1>2, <1>a
  <2>2. ASSUME NEW i \in 1..n PROVE first[i+1] = m[i]
    <3>1. i + 1 \in 1..1 + n /\ ~(i + 1 <= 1) /\ (i + 1) - 1 = i
      BY <1>1
    <3>2. first[i+1] = m[(i + 1) - 1]
      BY <1>2, <1>a, <3>1
    <3> QED
      BY <3>1, <3>2
  <2> QED
    BY <1>a, <2>1, <2>2
<1>4. q \in Seq(Characters) /\ Len(q) = n + 2 /\ q[n+2] = a
  BY <1>1, <1>2, <1>3, <1>b
<1>5. \A i \in 1..(n+1) : q[i] = first[i]
  BY <1>1, <1>2, <1>3, <1>b
<1>6. q[1] = a /\ \A i \in 1..n : q[i+1] = m[i]
  BY <1>1, <1>3, <1>5
<1>7. DOMAIN q = 1..(n+2)
  BY <1>4
<1>8. IsBetween(q, a, m)
  BY <1>4, <1>6, <1>7 DEF IsBetween
<1> QED
  BY <1>8 DEF q, first, end

LEMMA Star == "*" \in Characters /\ "%" \in Characters /\ "_" \in Characters
BY CharactersAssumption

\* What a pattern means is found when it is looked for anywhere in a longer text.
LEMMA FoundAnywhere ==
    ASSUME NEW p \in Seq(Characters), NEW s \in Seq(Characters), NEW t \in Seq(Characters),
           \A i \in 1..Len(p) : p[i] \notin LikeCharacters, Means(p, s)
    PROVE  MatchString(Like(PatternToSQL(<<"*">> \o p \o <<"*">>)), s \o t)
<1> DEFINE q == <<"*">> \o p \o <<"*">>
           n == Len(p)
<1>0. n \in Nat /\ Len(s) \in Nat /\ Len(t) \in Nat /\ DOMAIN p = 1..n
  OBVIOUS
<1>a. IsBetween(q, "*", p)
  BY Star, Between
<1>1. q \in Seq(Characters) /\ Len(q) = n + 2 /\ DOMAIN q = 1..(n+2)
  BY <1>a, Zenon DEF IsBetween
<1>2. q[1] = "*" /\ q[n+2] = "*" /\ \A i \in 1..n : q[i+1] = p[i]
  BY <1>a, Zenon DEF IsBetween
<1>3. Means(q, s \o t)
  <2>1. PICK cut \in [0..n -> 0..Len(s)] :
          /\ cut[0] = 0 /\ cut[n] = Len(s)
          /\ \A i \in DOMAIN p :
               IF p[i] = "*" THEN cut[i-1] <= cut[i]
               ELSE cut[i] = cut[i-1] + 1 /\ p[i] \in {"?", s[cut[i]]}
    BY DEF Means
  <2> DEFINE wide == [k \in 0..(n+2) |-> IF k = 0 THEN 0 ELSE IF k = n+2 THEN Len(s) + Len(t) ELSE cut[k-1]]
  <2>2. Len(s \o t) = Len(s) + Len(t) /\ \A k \in 1..Len(s) : (s \o t)[k] = s[k]
    OBVIOUS
  <2>3. /\ wide \in [0..(n+2) -> 0..Len(s \o t)] /\ wide[0] = 0 /\ wide[n+2] = Len(s \o t)
        /\ \A k \in 1..(n+1) : wide[k] = cut[k-1]
    BY <1>0, <2>1, <2>2
  <2> HIDE DEF wide
  <2>4. ASSUME NEW k \in 1..(n+2)
        PROVE  IF q[k] = "*" THEN wide[k-1] <= wide[k]
               ELSE wide[k] = wide[k-1] + 1 /\ q[k] \in {"?", (s \o t)[wide[k]]}
    <3>1. CASE k = 1
      BY <1>0, <1>2, <2>1, <2>3, <3>1
    <3>2. CASE k = n + 2
      <4>1. q[k] = "*" /\ wide[k] = Len(s) + Len(t)
        BY <1>2, <2>2, <2>3, <3>2
      <4>2. k - 1 \in 1..(n+1) /\ (k - 1) - 1 = n
        BY <1>0, <3>2
      <4>3. wide[k-1] = cut[(k-1) - 1]
        BY <2>3, <4>2
      <4>4. wide[k-1] = Len(s)
        BY <2>1, <4>2, <4>3
      <4> HIDE DEF q
      <4> QED
        BY <1>0, <4>1, <4>4
    <3>3. CASE k # 1 /\ k # n + 2
      <4> DEFINE i == k - 1
      <4>1. i \in 1..n /\ i \in DOMAIN p /\ k = i + 1
        BY <1>0, <3>3
      <4>2. q[k] = p[i] /\ wide[k] = cut[i] /\ wide[k-1] = cut[i-1]
        <5>1. k \in 1..(n+1) /\ k - 1 \in 1..(n+1) /\ k - 1 = i
          BY <1>0, <4>1
        <5> HIDE DEF q, i
        <5>2. q[k] = p[i]
          BY <1>2, <4>1
        <5>3. wide[k] = cut[k-1] /\ wide[k-1] = cut[(k-1)-1]
          BY <2>3, <5>1
        <5> QED
          BY <5>1, <5>2, <5>3
      <4>3. IF p[i] = "*" THEN cut[i-1] <= cut[i]
            ELSE cut[i] = cut[i-1] + 1 /\ p[i] \in {"?", s[cut[i]]}
        BY <2>1, <4>1
      <4>4. CASE p[i] = "*"
        BY <4>2, <4>3, <4>4
      <4>5. CASE p[i] # "*"
        <5>1. cut[i] \in 1..Len(s)
          <6>1. cut[i] \in 0..Len(s) /\ cut[i-1] \in 0..Len(s)
            <7>1. i \in 0..n /\ i - 1 \in 0..n
              BY <1>0, <4>1
            <7> HIDE DEF i, n
            <7> QED
              BY <7>1
          <6> HIDE DEF i
          <6> QED
            BY <1>0, <4>3, <4>5, <6>1
        <5>2. (s \o t)[cut[i]] = s[cut[i]]
          BY <2>2, <5>1
        <5> QED
          BY <4>2, <4>3, <4>5, <5>2
      <4> QED
        BY <4>4, <4>5
    <3> QED
      BY <3>1, <3>2, <3>3
  <2> QED
    BY <1>1, <2>3, <2>4 DEF Means
<1>4. ASSUME NEW k \in 1..Len(q) PROVE q[k] \notin LikeCharacters
  <2>1. CASE k \in {1, n + 2}
    BY <1>2, <2>1 DEF LikeCharacters
  <2>2. CASE k \notin {1, n + 2}
    <3>1. k - 1 \in 1..n /\ k = (k - 1) + 1
      BY <1>0, <1>1, <2>2
    <3>2. q[k] = p[k-1]
      BY <1>2, <3>1
    <3> QED
      BY <3>1, <3>2
  <2> QED
    BY <2>1, <2>2
<1>5. s \o t \in Seq(Characters)
  OBVIOUS
<1> HIDE DEF q
<1>6. MatchString(Like(PatternToSQL(q)), s \o t)
  BY <1>1, <1>3, <1>4, <1>5, LikeMeansPattern
<1> QED
  BY <1>6 DEF q

LEMMA StarsToSQL ==
    ASSUME NEW p \in Seq(Characters)
    PROVE  PatternToSQL(<<"*">> \o p \o <<"*">>) = <<"%">> \o PatternToSQL(p) \o <<"%">>
<1> DEFINE n == Len(p)
           star == <<"*">> \o p \o <<"*">>
           m == PatternToSQL(p)
           sql == <<"%">> \o m \o <<"%">>
<1>0. n \in Nat /\ DOMAIN p = 1..n /\ \A i \in 1..n : p[i] \in Characters
  OBVIOUS
<1>1. "*" \in Characters /\ "%" \in Characters /\ "_" \in Characters
  BY Star
<1>2. /\ Len(star) = n + 2 /\ DOMAIN star = 1..(n+2) /\ star[1] = "*" /\ star[n+2] = "*"
      /\ \A i \in 1..n : star[i+1] = p[i]
  <2>1. IsBetween(star, "*", p)
    BY Star, Between
  <2> QED
    BY <2>1, Zenon DEF IsBetween
<1>3. m = [i \in 1..n |-> m[i]] /\ \A i \in 1..n : m[i] \in Characters
  BY <1>0, <1>1 DEF PatternToSQL
<1>a. \A i \in 1..n : m[i] = CASE p[i] = "*" -> "%" [] p[i] = "?" -> "_" [] OTHER -> p[i]
  BY <1>0 DEF PatternToSQL
<1> HIDE DEF m
<1>4. m \in Seq(Characters) /\ Len(m) = n
  BY <1>0, <1>3
<1>b. /\ sql \in Seq(Characters) /\ Len(sql) = Len(m) + 2 /\ sql[1] = "%" /\ sql[Len(m) + 2] = "%"
      /\ \A i \in 1..Len(m) : sql[i+1] = m[i]
  <2>1. m \in Seq(Characters)
    BY <1>4
  <2>2. IsBetween(sql, "%", m)
    BY <2>1, Star, Between
  <2> QED
    BY <2>2, Zenon DEF IsBetween
<1> HIDE DEF sql, n
<1>5. /\ sql \in Seq(Characters) /\ Len(sql) = n + 2 /\ sql[1] = "%" /\ sql[n+2] = "%"
      /\ \A i \in 1..n : sql[i+1] = m[i]
  BY <1>b, <1>4, Zenon
<1> HIDE DEF sql, star, n
<1>6. DOMAIN sql = 1..(n+2)
  BY <1>5
<1>7. ASSUME NEW k \in 1..(n+2)
      PROVE  sql[k] = CASE star[k] = "*" -> "%" [] star[k] = "?" -> "_" [] OTHER -> star[k]
  <2>1. CASE k \in {1, n + 2}
    BY <1>2, <1>5, <2>1
  <2>2. CASE k \notin {1, n + 2}
    <3>1. k - 1 \in 1..n /\ k = (k - 1) + 1
      BY <1>0, <2>2
    <3>2. star[k] = p[k-1] /\ sql[k] = m[k-1]
      BY <1>2, <1>5, <3>1
    <3> QED
      BY <1>a, <3>1, <3>2
  <2> QED
    BY <2>1, <2>2
<1>8. PatternToSQL(star) = [k \in 1..(n+2) |->
                              CASE star[k] = "*" -> "%" [] star[k] = "?" -> "_" [] OTHER -> star[k]]
  BY <1>2 DEF PatternToSQL
<1>9. sql = [k \in 1..(n+2) |-> sql[k]]
  BY <1>5, <1>6
<1>10. PatternToSQL(star) = sql
  BY <1>7, <1>8, <1>9
<1> QED
  BY <1>10 DEF star, sql, m

\* The pattern such a search sends to the database, in lower case.
LEMMA LowerAnywhere ==
    ASSUME NEW p \in Seq(Characters)
    PROVE  ToLower(<<"%">> \o PatternToSQL(p) \o <<"%">>) = PatternToSQL(<<"*">> \o ToLower(p) \o <<"*">>)
<1> DEFINE mark == <<"*">>
           first == mark \o p
           star == first \o mark
<1>1. "*" \in Characters /\ "%" \in Characters /\ Lower["*"] = "*"
  BY Star, LowerSpecial DEF Special
<1>2. mark \in Seq(Characters)
  BY <1>1
<1>3. ToLower(mark) = mark
  BY <1>1 DEF ToLower
<1> HIDE DEF mark
<1>a. first \in Seq(Characters) /\ ToLower(first) = mark \o ToLower(p)
  <2>1. first \in Seq(Characters)
    BY <1>2
  <2>2. ToLower(first) = ToLower(mark) \o ToLower(p)
    BY <1>2, LowerConcat, Zenon
  <2> QED
    BY <1>3, <2>1, <2>2, Zenon
<1> HIDE DEF first
<1>b. star \in Seq(Characters) /\ ToLower(star) = ToLower(first) \o mark
  <2>1. star \in Seq(Characters)
    BY <1>2, <1>a
  <2>2. ToLower(star) = ToLower(first) \o ToLower(mark)
    BY <1>2, <1>a, LowerConcat, Zenon
  <2> QED
    BY <1>3, <2>1, <2>2, Zenon
<1>4. ToLower(star) = mark \o ToLower(p) \o mark
  BY <1>a, <1>b
<1>5. PatternToSQL(star) = <<"%">> \o PatternToSQL(p) \o <<"%">>
  BY StarsToSQL DEF first, mark
<1>6. ToLower(PatternToSQL(star)) = PatternToSQL(ToLower(star))
  BY <1>b, LowerSQL
<1> QED
  BY <1>4, <1>5, <1>6 DEF mark

-----------------------------------------------------------------------------
(* What is selected is what is meant.                                      *)

\* Matching a text that the pattern is translated faithfully for.
LEMMA GlobMatches ==
    ASSUME NEW p \in Patterns, NEW s \in Seq(Characters), ToSet(p) \intersect ({"?"} \union Operators) = {}
    PROVE  MatchString(CompileGlob(ToLower(p)), ToLower(s)) <=> Asks(p, s)
<1>1. p \in Seq(Characters)
  BY TextAssumption
<1>2. ToLower(p) \in Seq(Characters) /\ ToLower(s) \in Seq(Characters) /\ Len(ToLower(p)) = Len(p)
  BY <1>1, LowerText
<1>3. {"?"} \union Operators \in SUBSET Special
  BY DEF Special
<1>4. \A i \in 1..Len(p) : ToLower(p)[i] \notin {"?"} \union Operators
  BY <1>1, <1>3, LowerAvoids
<1> QED
  BY <1>2, <1>4, GlobMeansPattern DEF Asks

LEMMA RewrittenMatches ==
    ASSUME NEW p \in Patterns, NEW s \in Seq(Characters), "*" \notin ToSet(p),
           ToSet(p) \intersect ({"?"} \union Operators) = {}
    PROVE  MatchString(CompileGlob(RewriteDomainPattern(ToLower(p))), ToLower(s)) <=> Asks(p, s)
<1>1. p \in Seq(Characters)
  BY TextAssumption
<1>2. ToLower(p) \in Seq(Characters) /\ Len(ToLower(p)) = Len(p)
  BY <1>1, LowerText
<1>3. {"?", "*"} \in SUBSET Special /\ ToSet(p) \intersect {"?", "*"} = {}
  BY DEF Special
<1>4. \A i \in 1..Len(p) : ToLower(p)[i] \notin {"?", "*"}
  BY <1>1, <1>3, LowerAvoids
<1>5. RewriteDomainPattern(ToLower(p)) = ToLower(p)
  BY <1>2, <1>4, RewriteKeeps
<1> QED
  BY <1>5, GlobMatches

LEMMA LengthSQL ==
    ASSUME NEW p \in Seq(Characters)
    PROVE  /\ DOMAIN PatternToSQL(p) = 1..Len(p) /\ Len(p) \in Nat
           /\ Len(PatternToSQL(p)) = Len(p)
<1> DEFINE m == PatternToSQL(p)
<1>1. DOMAIN p = 1..Len(p) /\ Len(p) \in Nat
  OBVIOUS
<1>2. DOMAIN m = 1..Len(p) /\ m = [i \in 1..Len(p) |-> m[i]]
  BY <1>1 DEF PatternToSQL
<1> HIDE DEF m
<1>3. Len(m) = Len(p)
  BY <1>1, <1>2
<1> QED
  BY <1>1, <1>2, <1>3 DEF m

\* LIKE without case, and LIKE with case when the pattern and the text are in lower
\* case.
LEMMA LikeMatches ==
    ASSUME NEW p \in Patterns, NEW s \in Seq(Characters), ToSet(p) \intersect LikeCharacters = {},
           NEW folded \in BOOLEAN, folded \/ (ToLower(p) = p /\ ToLower(s) = s)
    PROVE  SQLMatches(PatternToSQL(p), s, folded) <=> Asks(p, s)
<1>1. p \in Seq(Characters)
  BY TextAssumption
<1>2. ToLower(p) \in Seq(Characters) /\ ToLower(s) \in Seq(Characters) /\ Len(ToLower(p)) = Len(p)
  BY <1>1, LowerText
<1>3. LikeCharacters \in SUBSET Special
  BY DEF Special
<1>4. \A i \in 1..Len(p) : p[i] \notin LikeCharacters /\ ToLower(p)[i] \notin LikeCharacters
  BY <1>1, <1>3, LowerAvoids
<1>5. ~EndsInEscape(PatternToSQL(p))
  <2>1. DOMAIN PatternToSQL(p) = 1..Len(p) /\ Len(PatternToSQL(p)) = Len(p) /\ Len(p) \in Nat
    BY <1>1, LengthSQL
  <2>2. ASSUME NEW i \in 1..Len(p) PROVE PatternToSQL(p)[i] # "\\"
    <3>0. i \in DOMAIN p
      BY <1>1
    <3>1. i \in DOMAIN p /\ p[i] # "\\"
      BY <1>4, <3>0 DEF LikeCharacters
    <3>2. PatternToSQL(p)[i] = CASE p[i] = "*" -> "%" [] p[i] = "?" -> "_" [] OTHER -> p[i]
      BY <3>1 DEF PatternToSQL
    <3> QED
      BY <3>1, <3>2
  <2>3. CASE Len(p) = 0
    <3>1. PatternToSQL(p) = <<>>
      BY <1>1, <2>1, <2>3 DEF PatternToSQL
    <3> QED
      BY <3>1 DEF EndsInEscape
  <2>4. CASE Len(p) # 0
    <3>1. Len(p) \in 1..Len(p)
      BY <2>1, <2>4
    <3> QED
      BY <2>1, <2>2, <3>1 DEF EndsInEscape
  <2> QED
    BY <2>3, <2>4
<1>6. MatchString(Like(PatternToSQL(ToLower(p))), ToLower(s)) <=> Asks(p, s)
  BY <1>2, <1>4, LikeMeansPattern DEF Asks
<1>7. ToLower(PatternToSQL(p)) = PatternToSQL(ToLower(p))
  BY <1>1, LowerSQL
<1>8. CASE folded
  BY <1>5, <1>6, <1>7, <1>8 DEF SQLMatches
<1>9. CASE ~folded
  BY <1>5, <1>6, <1>9 DEF SQLMatches
<1> QED
  BY <1>8, <1>9

\* What a search asks for, of one record.
IsWanted(kind, x, p) ==
    CASE kind \in {"domains by name", "nameservers by name"} -> Asks(p, x.name)
      [] kind = "domains by ns"      -> ToLower(p) \in x.ns
      [] kind = "nameservers by ip"  -> p \in x.v4 \union x.v6
      [] kind = "entities by handle" -> Asks(p, x.handle)
      [] kind = "entities by fn"     -> Asks(p, x.fn)
      [] OTHER -> \E c \in Contacts :
           /\ c.handle \in x.entities
           /\ Asks(p, CASE kind = "reverse handle" -> c.handle
                        [] kind = "reverse role"   -> c.role
                        [] kind = "reverse fn"     -> c.fn
                        [] kind = "reverse email"  -> c.email)

LEMMA WantedOnes ==
    ASSUME NEW kind, NEW p
    PROVE  Wanted(kind, p) = {x \in RecordsOf(kind) : IsWanted(kind, x, p)}
BY DEF Wanted, IsWanted

\* Outside the full-name search the store selects exactly what is asked for.
LEMMA SelectedIsWanted ==
    ASSUME search.kind \in Kinds \intersect AllKinds, search.pattern \in Patterns,
           search.kind \in ReverseKinds => Memory,
           Faithful, search.kind # "entities by fn", NEW x \in RecordsOf(search.kind)
    PROVE  Matches(x) <=> IsWanted(search.kind, x, search.pattern)
<1> DEFINE kind == search.kind
           p == search.pattern
<1>0. kind \in AllKinds /\ p \in Patterns
  OBVIOUS
<1>1. /\ Memory /\ kind \in Globs => ToSet(p) \intersect ({"?"} \union Operators) = {}
      /\ Memory /\ kind = "domains by name" => "*" \notin ToSet(p)
      /\ ~Memory /\ kind \in Globs => ToSet(p) \intersect LikeCharacters = {}
      /\ ~Memory /\ kind \in {"domains by name", "domains by ns", "nameservers by name"} =>
             Folds \/ ToLower(p) = p
  BY DEF Faithful, FaithfulGlob, FaithfulLike, Globs
<1>2. kind \in ReverseKinds => Memory
  OBVIOUS
<1>x. x \in RecordsOf(kind)
  OBVIOUS
<1>a. Matches(x) <=> Selected(kind, x, p)
  <2>1. ~LeftToRegexp(kind, p)
    BY <1>1 DEF LeftToRegexp
  <2> QED
    BY <2>1 DEF Matches
<1>b. Folds \in BOOLEAN /\ (Memory => Folds)
  BY DEF Folds, Memory
<1> HIDE DEF kind, p
<1> SUFFICES Selected(kind, x, p) <=> IsWanted(kind, x, p)
  BY <1>a DEF kind, p
<1>3. CASE kind = "domains by name"
  <2>1. x.name \in Seq(Characters) /\ ToLower(x.name) = x.name /\ kind \in Globs
    BY <1>x, <1>3, TextAssumption DEF RecordsOf, Globs
  <2>2. CASE Memory
    <3>1. MatchString(CompileGlob(RewriteDomainPattern(ToLower(p))), x.name) <=> Asks(p, x.name)
      BY <1>0, <1>1, <1>3, <2>1, <2>2, RewrittenMatches
    <3> QED
      BY <1>3, <2>2, <3>1 DEF Selected, IsWanted, DomainNameMatches
  <2>3. CASE ~Memory
    <3>1. SQLMatches(PatternToSQL(p), x.name, Folds) <=> Asks(p, x.name)
      BY <1>0, <1>1, <1>3, <1>b, <2>1, <2>3, LikeMatches
    <3> QED
      BY <1>3, <2>3, <3>1 DEF Selected, IsWanted, DomainNameMatches
  <2> QED
    BY <2>2, <2>3
<1>4. CASE kind = "domains by ns"
  <2>1. (IF Folds THEN ToLower(p) ELSE p) = ToLower(p)
    BY <1>1, <1>4, <1>b
  <2> QED
    BY <1>4, <2>1 DEF Selected, IsWanted
<1>5. CASE kind = "entities by handle"
  <2>1. x.handle \in Seq(Characters) /\ kind \in Globs
    BY <1>x, <1>5, TextAssumption DEF RecordsOf, ReverseKinds, Globs
  <2>2. HandleMatches(x, p) <=> Asks(p, x.handle)
    BY <1>0, <1>1, <2>1, GlobMatches, LikeMatches DEF HandleMatches
  <2> QED
    BY <1>5, <2>2 DEF Selected, IsWanted
<1>6. CASE kind = "nameservers by name"
  <2>1. x.name \in Seq(Characters) /\ ToLower(x.name) = x.name /\ kind \in Globs
    BY <1>x, <1>6, TextAssumption DEF RecordsOf, ReverseKinds, Globs
  <2>2. CASE Memory
    <3>1. MatchString(CompileGlob(ToLower(p)), x.name) <=> Asks(p, x.name)
      BY <1>0, <1>1, <2>1, <2>2, GlobMatches
    <3> QED
      BY <1>6, <2>2, <3>1 DEF Selected, IsWanted, NameMatches
  <2>3. CASE ~Memory
    <3>1. SQLMatches(PatternToSQL(p), x.name, Folds) <=> Asks(p, x.name)
      BY <1>0, <1>1, <1>6, <1>b, <2>1, <2>3, LikeMatches
    <3> QED
      BY <1>6, <2>3, <3>1 DEF Selected, IsWanted, NameMatches
  <2> QED
    BY <2>2, <2>3
<1>7. CASE kind = "nameservers by ip"
  BY <1>7 DEF Selected, IsWanted
<1>8. CASE kind \in ReverseKinds
  <2>0. Memory /\ kind \in Globs /\ ToSet(p) \intersect ({"?"} \union Operators) = {}
    BY <1>1, <1>2, <1>8 DEF Globs
  <2>1. ASSUME NEW c \in Contacts
        PROVE  /\ MatchString(CompileGlob(ToLower(p)), ToLower(c.handle)) <=> Asks(p, c.handle)
               /\ MatchString(CompileGlob(ToLower(p)), ToLower(c.role)) <=> Asks(p, c.role)
               /\ MatchString(CompileGlob(ToLower(p)), ToLower(c.fn)) <=> Asks(p, c.fn)
               /\ MatchString(CompileGlob(ToLower(p)), ToLower(c.email)) <=> Asks(p, c.email)
    BY <1>0, <2>0, GlobMatches, TextAssumption
  <2>2. CASE kind = "reverse handle"
    BY <2>1, <2>2 DEF Selected, IsWanted, DomainMatchesEntity
  <2>3. CASE kind = "reverse role"
    BY <2>1, <2>3 DEF Selected, IsWanted, DomainMatchesEntity
  <2>4. CASE kind = "reverse fn"
    BY <2>1, <2>4 DEF Selected, IsWanted, DomainMatchesEntity
  <2>5. CASE kind = "reverse email"
    BY <2>1, <2>5 DEF Selected, IsWanted, DomainMatchesEntity
  <2> QED
    BY <1>8, <2>2, <2>3, <2>4, <2>5 DEF ReverseKinds
<1>9. kind # "entities by fn"
  BY DEF kind
<1> QED
  BY <1>0, <1>3, <1>4, <1>5, <1>6, <1>7, <1>8, <1>9 DEF AllKinds

LEMMA Dashed ==
    ASSUME NEW s \in Seq(Characters), NEW t \in Seq(Characters)
    PROVE  /\ s \o (<<"-">> \o t) \in Seq(Characters)
           /\ ToLower(s \o (<<"-">> \o t)) = ToLower(s) \o (<<"-">> \o ToLower(t))
           /\ <<"-">> \o ToLower(t) \in Seq(Characters)
<1> DEFINE dash == <<"-">>
           tail == dash \o t
<1>1. "-" \in Characters /\ Lower["-"] = "-"
  BY CharactersAssumption, LowerSpecial DEF Special
<1>2. dash \in Seq(Characters) /\ ToLower(dash) = dash
  BY <1>1 DEF ToLower
<1> HIDE DEF dash
<1>3. tail \in Seq(Characters)
  BY <1>2
<1>4. ToLower(tail) = dash \o ToLower(t)
  <2>1. ToLower(tail) = ToLower(dash) \o ToLower(t)
    BY <1>2, LowerConcat, Zenon
  <2> QED
    BY <1>2, <2>1, Zenon
<1> HIDE DEF tail
<1>5. s \o tail \in Seq(Characters)
  BY <1>3
<1>6. ToLower(s \o tail) = ToLower(s) \o ToLower(tail)
  BY <1>3, LowerConcat, Zenon
<1>7. ToLower(tail) \in Seq(Characters)
  BY <1>3, LowerText
<1> QED
  BY <1>4, <1>5, <1>6, <1>7, Zenon DEF tail, dash

\* The pattern of a full-name search does not end in an escape.
LEMMA AnywhereEnds ==
    ASSUME NEW p \in Seq(Characters)
    PROVE  ~EndsInEscape(<<"%">> \o PatternToSQL(p) \o <<"%">>)
<1> DEFINE star == <<"*">> \o p \o <<"*">>
           n == Len(p)
<1>a. n \in Nat
  OBVIOUS
<1>1. "*" \in Characters /\ n \in Nat
  BY <1>a, Star, Zenon
<1>2. star \in Seq(Characters) /\ Len(star) = n + 2 /\ star[n+2] = "*" /\ DOMAIN star = 1..(n+2)
  <2>1. IsBetween(star, "*", p)
    BY Star, Between
  <2> QED
    BY <2>1, Zenon DEF IsBetween
<1> HIDE DEF star
<1>3. Len(PatternToSQL(star)) = n + 2 /\ PatternToSQL(star)[n+2] = "%"
  <2>1. Len(PatternToSQL(star)) = n + 2
    BY <1>2, LengthSQL
  <2>2. n + 2 \in DOMAIN star
    BY <1>1, <1>2
  <2>3. PatternToSQL(star)[n+2] = "%"
    BY <1>2, <2>2 DEF PatternToSQL
  <2> QED
    BY <2>1, <2>3
<1>4. PatternToSQL(star) = <<"%">> \o PatternToSQL(p) \o <<"%">>
  BY StarsToSQL DEF star
<1>5. ~EndsInEscape(PatternToSQL(star))
  BY <1>3 DEF EndsInEscape
<1> QED
  BY <1>4, <1>5

\* The full-name search of the SQL stores selects at least what is asked for.
LEMMA WantedFullName ==
    ASSUME search.kind \in Kinds \intersect AllKinds, search.pattern \in Patterns,
           Faithful, search.kind = "entities by fn", NEW x \in RecordsOf(search.kind),
           IsWanted(search.kind, x, search.pattern)
    PROVE  Matches(x)
<1> DEFINE p == search.pattern
           dashed == <<"-">> \o ToLower(x.email)
           anywhere == <<"%">> \o PatternToSQL(p) \o <<"%">>
           vcard == x.fn \o (<<"-">> \o x.email)
<1>1. /\ ~Memory /\ Asks(p, x.fn) /\ p \in Seq(Characters)
      /\ ToSet(p) \intersect LikeCharacters = {}
  BY TextAssumption DEF Faithful, FaithfulGlob, FaithfulLike, Globs, IsWanted
<1>2. x.fn \in Seq(Characters) /\ x.email \in Seq(Characters)
  BY TextAssumption DEF RecordsOf, ReverseKinds
<1>3. /\ vcard \in Seq(Characters) /\ dashed \in Seq(Characters)
      /\ ToLower(vcard) = ToLower(x.fn) \o dashed
  BY <1>2, Dashed
<1>4. ToLower(p) \in Seq(Characters) /\ ToLower(x.fn) \in Seq(Characters) /\ Len(ToLower(p)) = Len(p)
  BY <1>1, <1>2, LowerText
<1>5. \A i \in 1..Len(p) : ToLower(p)[i] \notin LikeCharacters
  <2>1. LikeCharacters \in SUBSET Special
    BY DEF Special
  <2> QED
    BY <1>1, <2>1, LowerAvoids
<1>6. Means(ToLower(p), ToLower(x.fn))
  BY <1>1 DEF Asks
<1> HIDE DEF p, dashed, vcard, anywhere
<1>7. MatchString(Like(PatternToSQL(<<"*">> \o ToLower(p) \o <<"*">>)), ToLower(x.fn) \o dashed)
  BY <1>3, <1>4, <1>5, <1>6, FoundAnywhere
<1>8. ToLower(anywhere) = PatternToSQL(<<"*">> \o ToLower(p) \o <<"*">>)
  BY <1>1, LowerAnywhere DEF anywhere
<1>9. MatchString(Like(ToLower(anywhere)), ToLower(vcard))
  BY <1>3, <1>7, <1>8
<1>10. ~EndsInEscape(anywhere)
  BY <1>1, AnywhereEnds DEF anywhere
<1>11. SQLMatches(anywhere, vcard, TRUE)
  BY <1>9, <1>10 DEF SQLMatches
<1>12. FullNameMatches(x, p)
  BY <1>1, <1>11 DEF FullNameMatches, anywhere, vcard
<1>13. ~LeftToRegexp(search.kind, search.pattern)
  BY <1>1 DEF LeftToRegexp
<1> QED
  BY <1>12, <1>13 DEF Matches, Selected, p

-----------------------------------------------------------------------------
(* The invariant.                                                          *)

LEMMA LimitOfLimit == ASSUME NEW l \in Limits PROVE LimitOf(l) \in 1..MaxSearchLimit
BY LimitAssumption DEF LimitOf

LEMMA SearchInvInit == Init => SearchInv
BY LimitAssumption DEF Init, SearchInv, TypeOK, RowsInv, DoneInv, Succeeded, ToSet

\* The search starts.
LEMMA StartKeeps ==
    ASSUME SearchInv, NEW kind \in AllKinds, NEW p \in Patterns, NEW l \in Limits,
           Start(kind, p, l), kind \in ReverseKinds => Memory
    PROVE  SearchInv'
<1>1. /\ pc = "idle" /\ left = {} /\ results = <<>> /\ kind \in Kinds
      /\ limit' \in 1..MaxSearchLimit /\ config' = config /\ results' = <<>>
  BY LimitOfLimit DEF Start, SearchInv
<1>2. search'.kind = kind /\ search'.pattern = p /\ Memory' = Memory
  <2>1. \E matched : search' = [kind |-> kind, pattern |-> p, matched |-> matched]
    BY DEF Start
  <2> QED
    BY <1>1, <2>1 DEF Memory
<1>3. RecordsOf(kind) \in {Domains, Contacts, Hosts}
  BY DEF RecordsOf, AllKinds, ReverseKinds
<1>4. \/ pc' = "done" /\ status' = 500 /\ left' = left
      \/ pc' = "rows" /\ left' = RecordsOf(kind) /\ status' = status
  BY DEF Start
<1>5. TypeOK'
  <2>1. ToSet(results') = {}
    BY <1>1 DEF ToSet
  <2> QED
    BY <1>1, <1>2, <1>3, <1>4, <2>1 DEF SearchInv, TypeOK
<1>6. ResultsInv'
  <2>1. results' \in Seq(Chosen') /\ Len(results') = 0 /\ DOMAIN results' = {}
    BY <1>1
  <2>2. search'.kind \in Kinds \intersect AllKinds /\ search'.pattern \in Patterns
    BY <1>1, <1>2
  <2> QED
    BY <1>1, <1>2, <2>1, <2>2 DEF ResultsInv
<1>7. RowsInv'
  BY <1>1, <1>2, <1>4, <1>6 DEF RowsInv, Chosen
<1>8. DoneInv'
  BY <1>1, <1>4, <1>6 DEF DoneInv, Succeeded, SearchInv, TypeOK
<1> QED
  BY <1>4, <1>5, <1>7, <1>8 DEF SearchInv

LEMMA RefuseKeeps ==
    ASSUME SearchInv, NEW code \in {400, 501}, Refuse(code) PROVE SearchInv'
BY DEF SearchInv, Refuse, TypeOK, RowsInv, DoneInv, Succeeded

\* A search ends without results.
LEMMA FailKeeps ==
    ASSUME SearchInv, Finish(500), results' = <<>> PROVE SearchInv'
BY DEF SearchInv, Finish, TypeOK, RowsInv, DoneInv, Succeeded, ToSet

\* What a step leaves alone of a search.
LEMMA SameSearch ==
    ASSUME config' = config, search' = search
    PROVE  /\ Chosen' = Chosen /\ Memory' = Memory
           /\ \A x : InBothLists(x)' <=> InBothLists(x)
<1>1. Memory' = Memory /\ Folds' = Folds
  BY DEF Memory, Folds
<1>2. \A x : Matches(x)' <=> Matches(x)
  BY <1>1 DEF Matches, LeftToRegexp, Selected, DomainNameMatches, HandleMatches, FullNameMatches,
             NameMatches, SQLMatches, Memory
<1>3. \A x : InBothLists(x)' <=> InBothLists(x)
  BY DEF InBothLists
<1> QED
  BY <1>1, <1>2, <1>3 DEF Chosen

\* A selected record that was not looked at becomes a result, or two.
LEMMA TakeKeeps ==
    ASSUME SearchInv, pc = "rows", Len(results) < limit, NEW x \in left, x \in Chosen,
           left' = left \ {x},
           \/ results' = Append(results, x)
           \/ /\ results' = Append(Append(results, x), x)
              /\ Memory /\ InBothLists(x) /\ Len(results) + 1 < limit,
           UNCHANGED <<config, pc, search, limit, status>>
    PROVE  SearchInv'
<1>0. /\ ResultsInv /\ left \subseteq RecordsOf(search.kind)
      /\ \A i \in DOMAIN results : results[i] \notin left
      /\ Chosen \subseteq left \union ToSet(results)
  BY DEF SearchInv, RowsInv
<1>1. Chosen' = Chosen /\ Memory' = Memory /\ \A y : InBothLists(y)' <=> InBothLists(y)
  BY SameSearch
<1>2. results \in Seq(Chosen) /\ limit \in Nat /\ Len(results) \in Nat
  BY <1>0, LimitAssumption DEF ResultsInv, SearchInv, TypeOK
<1>3. PICK n \in {Len(results) + 1, Len(results) + 2} :
        /\ results' \in Seq(Chosen) /\ Len(results') = n /\ n <= limit
        /\ DOMAIN results' = 1..n /\ DOMAIN results = 1..Len(results)
        /\ \A i \in (Len(results) + 1)..n : results'[i] = x
        /\ \A i \in 1..Len(results) : results'[i] = results[i]
        /\ n = Len(results) + 1 \/ (Memory /\ InBothLists(x))
  <2>1. CASE results' = Append(results, x)
    <3>1. /\ results' \in Seq(Chosen) /\ Len(results') = Len(results) + 1 /\ Len(results) + 1 <= limit
          /\ DOMAIN results' = 1..(Len(results) + 1) /\ DOMAIN results = 1..Len(results)
          /\ results'[Len(results) + 1] = x
          /\ \A i \in 1..Len(results) : results'[i] = results[i]
      BY <1>2, <2>1
    <3>2. \A i \in (Len(results) + 1)..(Len(results) + 1) : results'[i] = x
      BY <1>2, <3>1
    <3> QED
      BY <3>1, <3>2
  <2>2. CASE /\ results' = Append(Append(results, x), x)
             /\ Memory /\ InBothLists(x) /\ Len(results) + 1 < limit
    <3>1. /\ results' \in Seq(Chosen) /\ Len(results') = Len(results) + 2 /\ Len(results) + 2 <= limit
          /\ DOMAIN results' = 1..(Len(results) + 2) /\ DOMAIN results = 1..Len(results)
          /\ results'[Len(results) + 1] = x /\ results'[Len(results) + 2] = x
          /\ \A i \in 1..Len(results) : results'[i] = results[i]
      BY <1>2, <2>2
    <3>2. \A i \in (Len(results) + 1)..(Len(results) + 2) : i = Len(results) + 1 \/ i = Len(results) + 2
      BY <1>2
    <3>3. \A i \in (Len(results) + 1)..(Len(results) + 2) : results'[i] = x
      BY <3>1, <3>2
    <3> QED
      BY <2>2, <3>1, <3>3
  <2> QED
    BY <2>1, <2>2
<1>a. \A i \in 1..n : i \in 1..Len(results) \/ (i \in (Len(results) + 1)..n /\ i > Len(results))
  BY <1>2, <1>3
<1>4. ToSet(results') = ToSet(results) \union {x}
  <2>1. \A y \in ToSet(results') : y \in ToSet(results) \union {x}
    BY <1>3, <1>a DEF ToSet
  <2>2. \A y \in ToSet(results) : y \in ToSet(results')
    BY <1>2, <1>3 DEF ToSet
  <2>3. Len(results) + 1 \in 1..n /\ results'[Len(results) + 1] = x
    BY <1>2, <1>3
  <2> QED
    BY <1>3, <2>1, <2>2, <2>3 DEF ToSet
<1>5. ASSUME NEW i \in DOMAIN results', NEW j \in DOMAIN results', results'[i] = results'[j]
      PROVE  i = j \/ (Memory /\ InBothLists(results'[i]))
  <2>1. CASE i \in 1..Len(results) /\ j \in 1..Len(results)
    BY <1>0, <1>3, <1>5, <2>1 DEF ResultsInv
  <2>2. CASE i \in (Len(results) + 1)..n /\ j \in (Len(results) + 1)..n
    <3>1. results'[i] = x /\ (n = Len(results) + 1 => i = j)
      BY <1>2, <1>3, <2>2
    <3> QED
      BY <1>3, <3>1
  <2>3. CASE i \in 1..Len(results) /\ j \in (Len(results) + 1)..n
    BY <1>0, <1>3, <1>5, <2>3
  <2>4. CASE j \in 1..Len(results) /\ i \in (Len(results) + 1)..n
    BY <1>0, <1>3, <1>5, <2>4
  <2> QED
    BY <1>3, <1>a, <2>1, <2>2, <2>3, <2>4
<1>6. ResultsInv'
  BY <1>0, <1>1, <1>3, <1>5 DEF ResultsInv
<1>7. RowsInv'
  <2>1. \A i \in DOMAIN results' : results'[i] \notin left'
    <3> SUFFICES ASSUME NEW i \in DOMAIN results' PROVE results'[i] \notin left'
      OBVIOUS
    <3>1. CASE i \in 1..Len(results)
      BY <1>0, <1>3, <3>1
    <3>2. CASE i \in (Len(results) + 1)..n
      BY <1>3, <3>2
    <3> QED
      BY <1>3, <1>a, <3>1, <3>2
  <2>2. Chosen' \subseteq left' \union ToSet(results')
    BY <1>0, <1>1, <1>4
  <2> QED
    BY <1>0, <1>6, <2>1, <2>2 DEF RowsInv
<1>8. TypeOK'
  BY <1>4 DEF SearchInv, TypeOK
<1> QED
  BY <1>7, <1>8 DEF SearchInv, DoneInv, Succeeded

LEMMA MemoryScanKeeps == ASSUME SearchInv, MemoryScan PROVE SearchInv'
<1>1. PICK x \in left :
        /\ left' = left \ {x}
        /\ results' = CASE x \notin Matching -> results
                        [] x \in Matching /\ InBothLists(x) /\ Len(results) + 1 < limit
                             -> Append(Append(results, x), x)
                        [] OTHER -> Append(results, x)
  BY DEF MemoryScan
<1>2. pc = "rows" /\ Memory /\ Len(results) < limit /\ UNCHANGED <<config, pc, search, limit, status>>
  BY DEF MemoryScan
<1>3. left \subseteq RecordsOf(search.kind)
  BY <1>2 DEF SearchInv, RowsInv
<1>4. CASE x \in Matching
  <2>1. x \in Chosen
    BY <1>3, <1>4 DEF Matching, Chosen
  <2>2. \/ results' = Append(results, x)
        \/ /\ results' = Append(Append(results, x), x)
           /\ InBothLists(x) /\ Len(results) + 1 < limit
    BY <1>1, <1>4
  <2> QED
    BY <1>1, <1>2, <2>1, <2>2, TakeKeeps
<1>5. CASE x \notin Matching
  <2>1. x \notin Chosen
    BY <1>3, <1>5 DEF Matching, Chosen
  <2>2. Chosen' = Chosen /\ Memory' = Memory /\ \A y : InBothLists(y)' <=> InBothLists(y)
    BY <1>2, SameSearch
  <2>3. results' = results
    BY <1>1, <1>5
  <2>4. ResultsInv'
    BY <1>2, <2>2, <2>3 DEF SearchInv, RowsInv, ResultsInv
  <2>5. RowsInv'
    BY <1>1, <1>2, <2>1, <2>2, <2>3, <2>4 DEF SearchInv, RowsInv
  <2>6. TypeOK'
    BY <1>1, <1>2, <2>3 DEF SearchInv, TypeOK
  <2> QED
    BY <1>2, <2>5, <2>6 DEF SearchInv, DoneInv, Succeeded
<1> QED
  BY <1>4, <1>5

LEMMA NextRowKeeps == ASSUME SearchInv, NextRow PROVE SearchInv'
<1>1. PICK x \in Matching :
        IF CanScan(x)
        THEN /\ left' = left \ {x} /\ results' = Append(results, x)
             /\ UNCHANGED <<config, pc, search, limit, status>>
        ELSE results' = <<>> /\ Finish(500)
  BY DEF NextRow
<1>2. pc = "rows" /\ Len(results) < limit
  BY DEF NextRow
<1>3. x \in left /\ x \in Chosen
  BY <1>2 DEF Matching, Chosen, SearchInv, RowsInv
<1>4. CASE CanScan(x)
  BY <1>1, <1>2, <1>3, <1>4, TakeKeeps
<1>5. CASE ~CanScan(x)
  BY <1>1, <1>5, FailKeeps
<1> QED
  BY <1>4, <1>5

LEMMA RespondKeeps == ASSUME SearchInv, Respond PROVE SearchInv'
<1>1. /\ pc = "rows" /\ pc' = "done" /\ left' = {} /\ status' = 200
      /\ UNCHANGED <<config, search, limit, results>>
  BY DEF Respond, Finish
<1>2. /\ ResultsInv /\ left \subseteq RecordsOf(search.kind)
      /\ Chosen \subseteq left \union ToSet(results)
  BY <1>1 DEF SearchInv, RowsInv
<1>3. Chosen' = Chosen /\ Memory' = Memory /\ \A y : InBothLists(y)' <=> InBothLists(y)
  BY <1>1, SameSearch
<1>4. ResultsInv'
  BY <1>1, <1>2, <1>3 DEF ResultsInv
<1>5. Len(results) < limit => Chosen \subseteq ToSet(results)
  <2> SUFFICES ASSUME Len(results) < limit PROVE Chosen \subseteq ToSet(results)
    OBVIOUS
  <2>1. Len(results) \in Nat /\ limit \in Nat
    BY <1>2, LimitAssumption DEF ResultsInv, SearchInv, TypeOK
  <2>2. left = {} \/ Matching = {}
    BY <2>1 DEF Respond
  <2>3. \A x \in Chosen : x \notin left
    BY <2>2 DEF Matching, Chosen
  <2> QED
    BY <1>2, <2>3
<1>6. DoneInv'
  BY <1>1, <1>3, <1>4, <1>5 DEF DoneInv
<1>7. TypeOK'
  BY <1>1 DEF SearchInv, TypeOK
<1> QED
  BY <1>1, <1>6, <1>7 DEF SearchInv, RowsInv

\* Every step of a search keeps the invariant.
LEMMA SearchInvStep == SearchInv /\ [Next]_vars => SearchInv'
<1> SUFFICES ASSUME SearchInv, [Next]_vars PROVE SearchInv'
  OBVIOUS
<1>1. ASSUME NEW kind1 \in AllKinds \ ReverseKinds, NEW kind2 \in AllKinds \ ReverseKinds,
             OneOf(kind1, kind2)
      PROVE  SearchInv'
  <2>1. CASE Refuse(400)
    BY <2>1, RefuseKeeps
  <2>2. CASE \E kind \in {kind1, kind2}, p \in Patterns, l \in Limits : Start(kind, p, l)
    BY <2>2, StartKeeps
  <2> QED
    BY <1>1, <2>1, <2>2 DEF OneOf
<1>2. CASE SearchDomains
  <2>1. "domains by name" \in AllKinds \ ReverseKinds /\ "domains by ns" \in AllKinds \ ReverseKinds
    BY DEF AllKinds, ReverseKinds
  <2> QED
    BY <1>1, <1>2, <2>1 DEF SearchDomains
<1>3. CASE SearchEntities
  <2>1. "entities by fn" \in AllKinds \ ReverseKinds /\ "entities by handle" \in AllKinds \ ReverseKinds
    BY DEF AllKinds, ReverseKinds
  <2> QED
    BY <1>1, <1>3, <2>1 DEF SearchEntities
<1>4. CASE SearchNameservers
  <2>1. /\ "nameservers by name" \in AllKinds \ ReverseKinds
        /\ "nameservers by ip" \in AllKinds \ ReverseKinds
    BY DEF AllKinds, ReverseKinds
  <2> QED
    BY <1>1, <1>4, <2>1 DEF SearchNameservers
<1>5. CASE ReverseSearchDomains
  <2>1. CASE \E code \in {400, 501} : Refuse(code)
    BY <2>1, RefuseKeeps
  <2>2. CASE Memory /\ \E kind \in ReverseKinds, p \in Patterns, l \in Limits : Start(kind, p, l)
    BY <2>2, StartKeeps DEF AllKinds
  <2> QED
    BY <1>5, <2>1, <2>2 DEF ReverseSearchDomains
<1>6. CASE SearchNotImplemented
  BY <1>6, RefuseKeeps DEF SearchNotImplemented
<1>7. CASE MemoryScan
  BY <1>7, MemoryScanKeeps
<1>8. CASE NextRow
  BY <1>8, NextRowKeeps
<1>9. CASE QueryFails
  BY <1>9, FailKeeps DEF QueryFails
<1>10. CASE Respond
  BY <1>10, RespondKeeps
<1>11. CASE NextRequest
  BY <1>11, LimitAssumption
     DEF NextRequest, SearchInv, TypeOK, RowsInv, DoneInv, Succeeded, ToSet
<1>12. CASE UNCHANGED vars
  <2>1. Chosen' = Chosen /\ Memory' = Memory /\ \A y : InBothLists(y)' <=> InBothLists(y)
    BY <1>12, SameSearch DEF vars
  <2> QED
    BY <1>12, <2>1 DEF vars, SearchInv, TypeOK, RowsInv, DoneInv, ResultsInv, Succeeded
<1> QED
  BY <1>2, <1>3, <1>4, <1>5, <1>6, <1>7, <1>8, <1>9, <1>10, <1>11, <1>12 DEF Next

\* In every state of a search a selected record is a result or still to come,
\* and what has been collected was selected, once and within the limit.
THEOREM SearchInvHolds == Spec => []SearchInv
BY SearchInvInit, SearchInvStep, PTL DEF Spec

\* Every variable keeps its type, and the limit the one of the configuration.
THEOREM SearchTypeCorrect == Spec => []TypeOK
<1>1. SearchInv => TypeOK
  BY DEF SearchInv
<1> QED
  BY <1>1, SearchInvHolds, PTL

\* A search that succeeds returns no more than the limit and the hard cap
\* (README.md:273-274), each record once, and, for a pattern that is translated
\* faithfully, only what the pattern means.
THEOREM SearchSoundHolds == Spec => []SearchSound
<1>1. SearchInv => SearchSound
  <2> SUFFICES ASSUME SearchInv, Succeeded PROVE SearchSound
    BY DEF SearchSound
  <2>1. ResultsInv
    BY DEF SearchInv, DoneInv
  <2>2. Len(results) <= MaxSearchLimit /\ Len(results) <= limit
    BY <2>1, LimitAssumption DEF ResultsInv, SearchInv, TypeOK
  <2>3. ASSUME Faithful, search.kind # "entities by fn"
        PROVE  ToSet(results) \subseteq Wanted(search.kind, search.pattern)
    <3>1. ToSet(results) \subseteq Chosen
      BY <2>1 DEF ResultsInv, ToSet
    <3>2. \A x \in Chosen : x \in RecordsOf(search.kind) /\ IsWanted(search.kind, x, search.pattern)
      BY <2>1, <2>3, SelectedIsWanted DEF Chosen, ResultsInv
    <3> QED
      BY <3>1, <3>2, WantedOnes
  <2> QED
    BY <2>1, <2>2, <2>3 DEF SearchSound, ResultsInv
<1> QED
  BY <1>1, SearchInvHolds, PTL

\* A search that succeeds with fewer results than its limit has found every
\* record its pattern means, whatever failed or was skipped on the way, for a
\* pattern that is translated faithfully.
THEOREM SearchCompleteHolds == Spec => []SearchComplete
<1>1. SearchInv => SearchComplete
  <2> SUFFICES ASSUME SearchInv, Succeeded, Len(results) < limit, Faithful
               PROVE  Wanted(search.kind, search.pattern) \subseteq ToSet(results)
    BY DEF SearchComplete
  <2>1. ResultsInv /\ Chosen \subseteq ToSet(results)
    BY DEF SearchInv, DoneInv
  <2>2. ASSUME NEW x \in RecordsOf(search.kind), IsWanted(search.kind, x, search.pattern)
        PROVE  Matches(x)
    <3>1. CASE search.kind = "entities by fn"
      BY <2>1, <2>2, <3>1, WantedFullName DEF ResultsInv
    <3>2. CASE search.kind # "entities by fn"
      BY <2>1, <2>2, <3>2, SelectedIsWanted DEF ResultsInv
    <3> QED
      BY <3>1, <3>2
  <2>3. Wanted(search.kind, search.pattern) \subseteq Chosen
    BY <2>2, WantedOnes DEF Chosen
  <2> QED
    BY <2>1, <2>3
<1> QED
  BY <1>1, SearchInvHolds, PTL

=============================================================================
