------------------------ MODULE AtMqttClient_proofs ------------------------
(***************************************************************************)
(* Theorems about the AT MQTT client and the walk of its handles, for      *)
(* every set of handles and of topics.                                     *)
(***************************************************************************)
EXTENDS AtMqttClient, TLAPS

-----------------------------------------------------------------------------
(* Chains. *)

(* The run from p is a set that has p and with a cell the next, *)
LEMMA RunHas ==
    ASSUME NEW succ, NEW p, NEW S
    PROVE  /\ Run(succ, p, S) \in SUBSET S
           /\ p \in S => p \in Run(succ, p, S)
           /\ \A g \in Run(succ, p, S) : succ[g] \in S => succ[g] \in Run(succ, p, S)
  BY DEF Run

(* and the least such set. *)
LEMMA RunLeast ==
    ASSUME NEW succ, NEW p, NEW S, NEW C,
           p \in S => p \in C,
           \A g \in C : g \in S /\ succ[g] \in S => succ[g] \in C
    PROVE  Run(succ, p, S) \subseteq C
<1>1. C \cap S \in SUBSET S
  OBVIOUS
<1>2. (p \in S => p \in C \cap S) /\ \A g \in C \cap S : succ[g] \in S => succ[g] \in C \cap S
  OBVIOUS
<1> QED
  BY <1>1, <1>2 DEF Run

(* A run ends at once outside of S. *)
LEMMA RunOutside ==
    ASSUME NEW succ, NEW p, NEW S, p \notin S
    PROVE  Run(succ, p, S) = {}
<1>1. {} \in SUBSET S
  OBVIOUS
<1> QED
  BY <1>1 DEF Run

(* What is met goes on within the run. *)
LEMMA RunGoesOn ==
    ASSUME NEW succ, NEW p, NEW S, NEW h \in Run(succ, p, S)
    PROVE  /\ Run(succ, h, S) \subseteq Run(succ, p, S)
           /\ Run(succ, succ[h], S) \subseteq Run(succ, p, S)
  BY RunHas, RunLeast

(* What is met is p or met from the next on. *)
LEMMA RunUnfolds ==
    ASSUME NEW succ, NEW p, NEW S
    PROVE  Run(succ, p, S) \subseteq {p} \cup Run(succ, succ[p], S)
<1> DEFINE C == {p} \cup Run(succ, succ[p], S)
<1>1. p \in S => p \in C
  OBVIOUS
<1>2. \A g \in C : g \in S /\ succ[g] \in S => succ[g] \in C
  BY RunHas
<1> HIDE DEF C
<1>3. Run(succ, p, S) \subseteq C
  BY <1>1, <1>2, RunLeast
<1> QED
  BY <1>3 DEF C

(* More cells, a longer run. *)
LEMMA RunGrows ==
    ASSUME NEW succ, NEW p, NEW S, NEW T, S \subseteq T
    PROVE  Run(succ, p, S) \subseteq Run(succ, p, T)
  BY RunHas, RunLeast

(* A run does not depend on what is outside of it. *)
LEMMA RunSame ==
    ASSUME NEW succ, NEW other, NEW p, NEW S,
           \A h \in Run(succ, p, S) : other[h] = succ[h]
    PROVE  Run(other, p, S) = Run(succ, p, S)
<1> DEFINE R == Run(succ, p, S)
           Q == Run(other, p, S)
<1>1. Q \subseteq R
  BY RunHas, RunLeast
<1>2. R \subseteq Q \cap R
  <2>1. p \in S => p \in Q \cap R
    BY RunHas
  <2>2. \A g \in Q \cap R : g \in S /\ succ[g] \in S => succ[g] \in Q \cap R
    BY RunHas
  <2> HIDE DEF R, Q
  <2>3. Run(succ, p, S) \subseteq Q \cap R
    BY <2>1, <2>2, RunLeast
  <2> QED
    BY <2>3 DEF R
<1> QED
  BY <1>1, <1>2

(* There is one exit: every cell of the run leads to each. *)
LEMMA OneExit ==
    ASSUME NEW succ, NEW p, NEW S, NEW q \in Exits(succ, p, S), NEW r \in Exits(succ, p, S)
    PROVE  q = r
<1> DEFINE R == Run(succ, p, S)
<1>1. CASE p \notin S
  <2>1. R = {}
    BY <1>1, RunOutside
  <2> QED
    BY <2>1 DEF Exits
<1>2. CASE p \in S
  <2>1. PICK g \in R : succ[g] = q /\ q \notin S
    BY <1>2 DEF Exits
  <2>2. PICK h \in R : succ[h] = r /\ r \notin S
    BY <1>2 DEF Exits
  <2> DEFINE C == {c \in R : g \in Run(succ, c, S)}
  <2>3. p \in C
    BY <1>2, RunHas
  <2>4. ASSUME NEW c \in C, succ[c] \in S PROVE succ[c] \in C
    <3>1. c # g
      BY <2>1, <2>4
    <3>2. g \in {c} \cup Run(succ, succ[c], S)
      BY RunUnfolds
    <3> QED
      BY <2>4, <3>1, <3>2, RunHas
  <2>5. R \subseteq C
    <3> HIDE DEF C
    <3> QED
      BY <2>3, <2>4, RunLeast
  <2>6. g \in Run(succ, h, S)
    BY <2>2, <2>5
  <2>7. Run(succ, h, S) \subseteq {h}
    <3>1. Run(succ, succ[h], S) = {}
      BY <2>2, RunOutside
    <3> QED
      BY <3>1, RunUnfolds
  <2> QED
    BY <2>1, <2>2, <2>6, <2>7
<1> QED
  BY <1>1, <1>2

(* Every part of S has a cell whose next is not in it: no circles. *)
Ends(succ, S) == \A C \in SUBSET S : C # {} => \E h \in C : succ[h] \notin C

(* Without a circle there is an exit, *)
LEMMA FirstIsExit ==
    ASSUME NEW succ, NEW p, NEW S, Ends(succ, Run(succ, p, S))
    PROVE  /\ First(succ, p, S) \in Exits(succ, p, S)
           /\ First(succ, p, S) \notin S
<1>1. Exits(succ, p, S) # {}
  <2>1. CASE p \notin S
    BY <2>1 DEF Exits
  <2>2. CASE p \in S
    <3>1. Run(succ, p, S) # {}
      BY <2>2, RunHas
    <3>2. PICK h \in Run(succ, p, S) : succ[h] \notin Run(succ, p, S)
      BY <3>1 DEF Ends
    <3>3. succ[h] \notin S
      BY <3>2, RunHas
    <3> QED
      BY <3>3 DEF Exits
  <2> QED
    BY <2>1, <2>2
<1>2. First(succ, p, S) \in Exits(succ, p, S)
  BY <1>1 DEF First
<1> QED
  BY <1>2 DEF Exits

(* and no cell is met again. *)
LEMMA NoReturn ==
    ASSUME NEW succ, NEW p, NEW S, p \in S, Ends(succ, Run(succ, p, S))
    PROVE  p \notin Run(succ, succ[p], S)
<1> SUFFICES ASSUME p \in Run(succ, succ[p], S) PROVE FALSE
  OBVIOUS
<1> DEFINE C == {c \in Run(succ, p, S) : p \in Run(succ, c, S)}
<1>1. p \in C
  BY RunHas
<1>2. PICK c \in C : succ[c] \notin C
  BY <1>1 DEF Ends
<1>3. p \in Run(succ, succ[c], S)
  <2>1. c = p \/ p \in Run(succ, succ[c], S)
    <3>1. p \in Run(succ, c, S)
      BY <1>2
    <3> QED
      BY <3>1, RunUnfolds
  <2> QED
    BY <2>1
<1>4. succ[c] \in S
  BY <1>3, RunOutside
<1>5. succ[c] \in Run(succ, p, S)
  BY <1>2, <1>4, RunHas
<1> QED
  BY <1>2, <1>3, <1>5

(* A run goes through cells that are skipped to the first that is not. *)
LEMMA RunSkips ==
    ASSUME NEW succ, NEW p, NEW S, NEW T, S \subseteq T, Ends(succ, Run(succ, p, T))
    PROVE  LET q == First(succ, p, S)
           IN  /\ Run(succ, p, T) \subseteq Run(succ, p, S) \cup Run(succ, q, T)
               /\ q \notin S /\ (q \in T => q \in Run(succ, p, T))
               /\ Run(succ, q, T) \subseteq Run(succ, p, T)
<1> DEFINE q == First(succ, p, S)
<1>1. Run(succ, p, S) \subseteq Run(succ, p, T)
  BY RunGrows
<1>2. Ends(succ, Run(succ, p, S))
  BY <1>1 DEF Ends
<1>3. q \in Exits(succ, p, S) /\ q \notin S
  BY <1>2, FirstIsExit
<1>4. \A r \in Exits(succ, p, S) : r = q
  BY <1>3, OneExit
<1> HIDE DEF q
<1> DEFINE C == Run(succ, p, S) \cup Run(succ, q, T)
<1>5. p \in T => p \in C
  <2>1. p \notin S => p \in Exits(succ, p, S)
    BY DEF Exits
  <2> QED
    BY <1>4, <2>1, RunHas
<1>6. ASSUME NEW g \in C, succ[g] \in T PROVE succ[g] \in C
  <2>1. CASE g \in Run(succ, q, T)
    BY <1>6, <2>1, RunHas
  <2>2. CASE g \in Run(succ, p, S)
    <3>1. succ[g] \notin S => succ[g] \in Exits(succ, p, S)
      BY <2>2 DEF Exits
    <3> QED
      BY <1>4, <1>6, <2>2, <3>1, RunHas
  <2> QED
    BY <2>1, <2>2
<1>7. Run(succ, p, T) \subseteq C
  <2> HIDE DEF C
  <2> QED
    BY <1>5, <1>6, RunLeast
<1>8. q \in T => q \in Run(succ, p, T)
  <2>1. q = p \/ \E h \in Run(succ, p, S) : succ[h] = q
    BY <1>3 DEF Exits
  <2> QED
    BY <1>1, <2>1, RunHas
<1>9. Run(succ, q, T) \subseteq Run(succ, p, T)
  <2>1. CASE q \in T
    BY <1>8, <2>1, RunGoesOn
  <2>2. CASE q \notin T
    BY <2>2, RunOutside
  <2> QED
    BY <2>1, <2>2
<1> QED
  BY <1>3, <1>7, <1>8, <1>9 DEF q
-----------------------------------------------------------------------------
(* Cells taken out of a chain. *)

(* next, a list of S without circles, when the cells of gone are unlinked  *)
(* from those of live.                                                     *)
Unlinked(succ, other, S, X, live, gone) ==
    /\ X \subseteq S /\ live \subseteq X /\ gone \subseteq S
    /\ \A h \in X : succ[h] \in S => succ[h] \in X
    /\ Ends(succ, X)
    /\ \A h \in S : other[h] = IF h \in live \ gone THEN First(succ, succ[h], gone)
                                                   ELSE succ[h]

(* What First finds from a cell of X, or from its next. *)
LEMMA FirstInX ==
    ASSUME NEW succ, NEW other, NEW S, NEW X, NEW live, NEW gone,
           Unlinked(succ, other, S, X, live, gone),
           NEW p, p \in S => p \in X
    PROVE  LET q == First(succ, p, gone)
           IN  /\ Run(succ, p, S) \subseteq X
               /\ Ends(succ, Run(succ, p, S))
               /\ Run(succ, p, S) \subseteq Run(succ, p, gone) \cup Run(succ, q, S)
               /\ q \notin gone /\ (q \in S => q \in Run(succ, p, S) /\ q \in X)
               /\ Run(succ, q, S) \subseteq Run(succ, p, S)
<1>1. Run(succ, p, S) \subseteq X
  BY RunLeast DEF Unlinked
<1>2. Ends(succ, Run(succ, p, S))
  BY <1>1 DEF Unlinked, Ends
<1> DEFINE q == First(succ, p, gone)
<1>3. /\ Run(succ, p, S) \subseteq Run(succ, p, gone) \cup Run(succ, q, S)
      /\ q \notin gone /\ (q \in S => q \in Run(succ, p, S))
      /\ Run(succ, q, S) \subseteq Run(succ, p, S)
  <2>1. gone \subseteq S
    BY DEF Unlinked
  <2> QED
    BY <1>2, <2>1, RunSkips
<1> QED
  BY <1>1, <1>2, <1>3

(* The cells stay among those of X, and no run is longer than it was. *)
LEMMA UnlinkStays ==
    ASSUME NEW succ, NEW other, NEW S, NEW X, NEW live, NEW gone,
           Unlinked(succ, other, S, X, live, gone)
    PROVE  /\ \A h \in X : other[h] \in S => other[h] \in X
           /\ \A p : Run(other, p, S) \subseteq Run(succ, p, S)
<1>1. ASSUME NEW h \in X, other[h] \in S
      PROVE  other[h] \in X /\ other[h] \in Run(succ, succ[h], S)
  <2>0. h \in S /\ (succ[h] \in S => succ[h] \in X)
    BY DEF Unlinked
  <2>1. CASE h \in live \ gone
    <3>1. other[h] = First(succ, succ[h], gone)
      BY <2>0, <2>1 DEF Unlinked
    <3>2. First(succ, succ[h], gone) \in S
            => /\ First(succ, succ[h], gone) \in Run(succ, succ[h], S)
               /\ First(succ, succ[h], gone) \in X
      BY <2>0, FirstInX
    <3> QED
      BY <1>1, <3>1, <3>2
  <2>2. CASE h \notin live \ gone
    <3>1. other[h] = succ[h]
      BY <2>0, <2>2 DEF Unlinked
    <3> QED
      BY <1>1, <2>0, <3>1, RunHas
  <2> QED
    BY <2>1, <2>2
<1>2. ASSUME NEW p PROVE Run(other, p, S) \subseteq Run(succ, p, S)
  <2> DEFINE R == Run(succ, p, S)
  <2>1. p \in S => p \in R
    BY RunHas
  <2>2. ASSUME NEW g \in R, g \in S, other[g] \in S PROVE other[g] \in R
    <3>1. CASE g \in X
      BY <1>1, <2>2, <3>1, RunGoesOn
    <3>2. CASE g \notin X
      <4>1. other[g] = succ[g]
        BY <2>2, <3>2 DEF Unlinked
      <4> QED
        BY <2>2, <4>1, RunHas
    <3> QED
      BY <3>1, <3>2
  <2> HIDE DEF R
  <2>3. Run(other, p, S) \subseteq R
    BY <2>1, <2>2, RunLeast
  <2> QED
    BY <2>3 DEF R
<1> QED
  BY <1>1, <1>2

(* Every cell that was met and does not go is met still. *)
LEMMA UnlinkKeeps ==
    ASSUME NEW succ, NEW other, NEW S, NEW X, NEW live, NEW gone,
           Unlinked(succ, other, S, X, live, gone),
           NEW p, p \in S => p \in X
    PROVE  Run(succ, p, S) \ gone \subseteq Run(other, p, S)
<1> DEFINE R == Run(other, p, S)
           C == R \cup UNION {Run(succ, succ[h], gone) : h \in R}
<1>1. R \subseteq X
  <2>1. Run(other, p, S) \subseteq Run(succ, p, S)
    BY UnlinkStays
  <2>2. Run(succ, p, S) \subseteq X
    BY FirstInX
  <2> QED
    BY <2>1, <2>2
<1>2. ASSUME NEW h \in R
      PROVE  /\ succ[h] \in S => succ[h] \in C
             /\ \A g \in Run(succ, succ[h], gone) : succ[g] \in S => succ[g] \in C
  <2>0. h \in X /\ h \in S /\ (succ[h] \in S => succ[h] \in X)
    BY <1>1 DEF Unlinked
  <2>1. CASE h \in live \ gone
    <3>1. other[h] = First(succ, succ[h], gone)
      BY <2>0, <2>1 DEF Unlinked
    <3>2. \A r \in Exits(succ, succ[h], gone) : r = other[h]
      <4>1. Run(succ, succ[h], gone) \subseteq X
        <5>1. Run(succ, succ[h], gone) \subseteq Run(succ, succ[h], S)
          BY RunGrows DEF Unlinked
        <5>2. Run(succ, succ[h], S) \subseteq X
          BY <2>0, FirstInX
        <5> QED
          BY <5>1, <5>2
      <4>2. Ends(succ, Run(succ, succ[h], gone))
        BY <4>1 DEF Ends, Unlinked
      <4>3. First(succ, succ[h], gone) \in Exits(succ, succ[h], gone)
        BY <4>2, FirstIsExit
      <4> QED
        BY <3>1, <4>3, OneExit
    <3>3. other[h] \in S => other[h] \in R
      BY RunHas
    <3>4. ASSUME succ[h] \in S PROVE succ[h] \in C
      <4>1. CASE succ[h] \in gone
        BY <4>1, RunHas
      <4>2. CASE succ[h] \notin gone
        <5>1. succ[h] \in Exits(succ, succ[h], gone)
          BY <4>2 DEF Exits
        <5>2. succ[h] = other[h]
          BY <3>2, <5>1
        <5> QED
          BY <3>3, <3>4, <5>2
      <4> QED
        BY <4>1, <4>2
    <3>5. ASSUME NEW g \in Run(succ, succ[h], gone), succ[g] \in S PROVE succ[g] \in C
      <4>1. CASE succ[g] \in gone
        <5>1. succ[g] \in Run(succ, succ[h], gone)
          BY <4>1, RunHas
        <5> QED
          BY <5>1
      <4>2. CASE succ[g] \notin gone
        <5>1. succ[g] \in Exits(succ, succ[h], gone)
          BY <4>2 DEF Exits
        <5>2. succ[g] = other[h]
          BY <3>2, <5>1
        <5> QED
          BY <3>3, <3>5, <5>2
      <4> QED
        BY <4>1, <4>2
    <3> QED
      BY <3>4, <3>5
  <2>2. CASE h \notin live \ gone
    <3>1. other[h] = succ[h]
      BY <2>0, <2>2 DEF Unlinked
    <3>2. succ[h] \in S => succ[h] \in R
      BY <3>1, RunHas
    <3>3. ASSUME NEW g \in R, g \in gone, succ[g] \in S PROVE succ[g] \in R
      <4>1. other[g] = succ[g]
        BY <3>3 DEF Unlinked
      <4> QED
        BY <3>3, <4>1, RunHas
    <3>4. Run(succ, succ[h], gone) \subseteq R
      <4>1. gone \subseteq S
        BY DEF Unlinked
      <4>2. succ[h] \in gone => succ[h] \in R
        BY <3>2, <4>1
      <4>3. \A g \in R : g \in gone /\ succ[g] \in gone => succ[g] \in R
        BY <3>3, <4>1
      <4> HIDE DEF R
      <4> QED
        BY <4>2, <4>3, RunLeast
    <3>5. Run(succ, succ[h], gone) \subseteq gone
      BY RunHas
    <3> QED
      BY <3>2, <3>3, <3>4, <3>5
  <2> QED
    BY <2>1, <2>2
<1>3. p \in S => p \in C
  BY RunHas
<1>4. \A g \in C : g \in S /\ succ[g] \in S => succ[g] \in C
  BY <1>2
<1>5. Run(succ, p, S) \subseteq C
  <2> HIDE DEF C
  <2> QED
    BY <1>3, <1>4, RunLeast
<1>6. C \ gone \subseteq R
  BY RunHas
<1> QED
  BY <1>5, <1>6

(* Unlinking makes no circle. *)
LEMMA UnlinkEnds ==
    ASSUME NEW succ, NEW other, NEW S, NEW X, NEW live, NEW gone,
           Unlinked(succ, other, S, X, live, gone)
    PROVE  Ends(other, X)
<1> SUFFICES ASSUME NEW C \in SUBSET X, C # {}, \A h \in C : other[h] \in C
             PROVE  FALSE
  BY DEF Ends
<1> DEFINE passed == UNION {Run(succ, succ[h], gone) : h \in C \cap (live \ gone)}
           D == C \cup passed
<1>1. ASSUME NEW h \in C \cap (live \ gone)
      PROVE  /\ Run(succ, succ[h], gone) \subseteq X
             /\ \A r \in Exits(succ, succ[h], gone) : r \in C
  <2>0. h \in X /\ h \in S /\ (succ[h] \in S => succ[h] \in X)
    BY DEF Unlinked
  <2>1. other[h] = First(succ, succ[h], gone)
    BY <2>0 DEF Unlinked
  <2>2. Run(succ, succ[h], gone) \subseteq X
    <3>1. Run(succ, succ[h], gone) \subseteq Run(succ, succ[h], S)
      BY RunGrows DEF Unlinked
    <3>2. Run(succ, succ[h], S) \subseteq X
      BY <2>0, FirstInX
    <3> QED
      BY <3>1, <3>2
  <2>3. Ends(succ, Run(succ, succ[h], gone))
    BY <2>2 DEF Ends, Unlinked
  <2>4. First(succ, succ[h], gone) \in Exits(succ, succ[h], gone)
    BY <2>3, FirstIsExit
  <2>5. \A r \in Exits(succ, succ[h], gone) : r = other[h]
    BY <2>1, <2>4, OneExit
  <2> QED
    BY <2>2, <2>5
<1>2. D \subseteq X /\ D # {}
  BY <1>1
<1>3. PICK d \in D : succ[d] \notin D
  BY <1>2 DEF Unlinked, Ends
<1>4. CASE d \in C /\ d \in live \ gone
  <2>1. succ[d] \in gone => succ[d] \in Run(succ, succ[d], gone)
    BY RunHas
  <2>2. succ[d] \notin gone => succ[d] \in Exits(succ, succ[d], gone)
    BY DEF Exits
  <2> QED
    BY <1>1, <1>3, <1>4, <2>1, <2>2
<1>5. CASE d \in C /\ d \notin live \ gone
  <2>1. d \in S
    BY <1>5 DEF Unlinked
  <2>2. other[d] = succ[d]
    BY <1>5, <2>1 DEF Unlinked
  <2> QED
    BY <1>3, <1>5, <2>2
<1>6. CASE d \in passed
  <2>1. PICK h \in C \cap (live \ gone) : d \in Run(succ, succ[h], gone)
    BY <1>6
  <2>2. succ[d] \in gone => succ[d] \in Run(succ, succ[h], gone)
    BY <2>1, RunHas
  <2>3. succ[d] \notin gone => succ[d] \in Exits(succ, succ[h], gone)
    BY <2>1 DEF Exits
  <2> QED
    BY <1>1, <1>3, <2>1, <2>2, <2>3
<1> QED
  BY <1>3, <1>4, <1>5, <1>6

(* Nor does a new cell that is put in front. *)
LEMMA LinkEnds ==
    ASSUME NEW succ, NEW other, NEW S, NEW X, NEW n,
           X \subseteq S, n \in S, n \notin X, Ends(succ, X),
           \A h \in X : other[h] = succ[h] /\ (succ[h] \in S => succ[h] \in X),
           other[n] \in S => other[n] \in X
    PROVE  /\ Ends(other, X \cup {n})
           /\ \A h \in X \cup {n} : other[h] \in S => other[h] \in X \cup {n}
<1>1. ASSUME NEW C \in SUBSET (X \cup {n}), C # {} PROVE \E h \in C : other[h] \notin C
  <2>1. CASE C \cap X = {}
    BY <1>1, <2>1
  <2>2. CASE C \cap X # {}
    <3>1. PICK h \in C \cap X : succ[h] \notin C \cap X
      BY <2>2 DEF Ends
    <3> QED
      BY <3>1
  <2> QED
    BY <2>1, <2>2
<1>2. \A h \in X \cup {n} : other[h] \in S => other[h] \in X \cup {n}
  OBVIOUS
<1> QED
  BY <1>1, <1>2 DEF Ends

-----------------------------------------------------------------------------
(* The list and the walk. *)

(* The handles that the list or the walk can reach. *)
Live == Linked \cup From(cursor)

(* They are allocated, and their chains end. *)
LiveOK == Live \subseteq alloc /\ Ends(next, Live)

LEMMA LiveRuns ==
    ASSUME LiveOK, ClientAssumption
    PROVE  /\ Linked = Run(next, first, Handle)
           /\ Live \subseteq Handle
           /\ \A h \in Live : next[h] \in Handle => next[h] \in Live
           /\ first \in Handle => first \in Live
           /\ cursor \in Handle => cursor \in Live
           /\ Run(next, first, Handle) \subseteq Live /\ Run(next, cursor, Handle) \subseteq Live
           /\ Ends(next, Run(next, first, Handle)) /\ Ends(next, Run(next, cursor, Handle))
<1>1. Linked = Run(next, first, Handle) /\ From(cursor) = Run(next, cursor, Handle)
  BY DEF Linked, From
<1>2. Live \subseteq Handle
  BY <1>1, RunHas DEF Live
<1>3. \A h \in Live : next[h] \in Handle => next[h] \in Live
  BY <1>1, RunHas DEF Live
<1>4. (first \in Handle => first \in Live) /\ (cursor \in Handle => cursor \in Live)
  BY <1>1, RunHas DEF Live
<1>5. Ends(next, Run(next, first, Handle)) /\ Ends(next, Run(next, cursor, Handle))
  BY <1>1 DEF LiveOK, Live, Ends
<1> QED
  BY <1>1, <1>2, <1>3, <1>4, <1>5 DEF Live

(* The first of the handles that match is reached, or there is none. *)
LEMMA MatchReached ==
    ASSUME ClientAssumption, TypeOK, NEW p \in Pointer, NEW t,
           Ends(next, Run(next, p, Handle))
    PROVE  LET q == Match(p, t)
           IN  /\ q \in Pointer
               /\ q \in Handle => q \in Run(next, p, Handle)
               /\ Run(next, q, Handle) \subseteq Run(next, p, Handle)
               /\ \A h \in Run(next, p, Handle) :
                     h \in alloc /\ Matches(filter[h], t) => h \in Run(next, q, Handle)
<1> DEFINE skip == {h \in alloc : ~Matches(filter[h], t)}
           q == Match(p, t)
<1>1. q = First(next, p, skip)
  BY DEF Match
<1>2. skip \subseteq Handle
  BY DEF TypeOK
<1> HIDE DEF q
<1>3. /\ Run(next, p, Handle) \subseteq Run(next, p, skip) \cup Run(next, q, Handle)
      /\ q \notin skip /\ (q \in Handle => q \in Run(next, p, Handle))
      /\ Run(next, q, Handle) \subseteq Run(next, p, Handle)
  <2> HIDE DEF skip
  <2> QED
    BY <1>1, <1>2, RunSkips
<1>4. Run(next, p, skip) \subseteq skip
  BY RunHas
<1>5. \A h \in Run(next, p, Handle) :
        h \in alloc /\ Matches(filter[h], t) => h \in Run(next, q, Handle)
  BY <1>3, <1>4
<1>6. q \in Pointer
  <2>1. Run(next, p, skip) \subseteq Run(next, p, Handle)
    BY <1>2, RunGrows
  <2>2. Ends(next, Run(next, p, skip))
    BY <2>1 DEF Ends
  <2>3. q \in Exits(next, p, skip)
    BY <1>1, <2>2, FirstIsExit
  <2>4. \A h \in Run(next, p, skip) : next[h] \in Pointer
    BY <1>2, <1>4 DEF TypeOK
  <2> QED
    BY <2>3, <2>4 DEF Exits
<1> QED
  BY <1>3, <1>5, <1>6 DEF q

(* What unlinking does to the pointers. *)
LEMMA UnlinkFacts ==
    ASSUME ClientAssumption, TypeOK, LiveOK, NEW gone \in SUBSET Linked, Unlink(gone)
    PROVE  /\ Unlinked(next, next', Handle, Live, Linked, gone)
           /\ first' \in Pointer /\ (first' \in Handle => first' \in Live)
           /\ next' \in [Handle -> Pointer]
<1>1. Unlinked(next, next', Handle, Live, Linked, gone)
  <2>1. /\ Live \subseteq Handle /\ Linked \subseteq Live /\ gone \subseteq Handle
        /\ \A h \in Live : next[h] \in Handle => next[h] \in Live
        /\ Ends(next, Live)
    BY LiveRuns DEF LiveOK, Live
  <2>2. \A h \in Handle : next'[h] = IF h \in Linked \ gone THEN First(next, next[h], gone)
                                                           ELSE next[h]
    BY DEF Unlink
  <2> QED
    BY <2>1, <2>2 DEF Unlinked
<1>2. ASSUME NEW p \in Pointer, p \in Handle => p \in Live
      PROVE  /\ First(next, p, gone) \in Pointer
             /\ First(next, p, gone) \in Handle => First(next, p, gone) \in Live
  <2>1. /\ Ends(next, Run(next, p, Handle))
        /\ First(next, p, gone) \in Handle => First(next, p, gone) \in Live
    BY <1>1, <1>2, FirstInX
  <2>2. gone \subseteq Handle
    BY <1>1 DEF Unlinked
  <2>3. Run(next, p, gone) \subseteq Run(next, p, Handle)
    BY <2>2, RunGrows
  <2>4. Ends(next, Run(next, p, gone))
    BY <2>1, <2>3 DEF Ends
  <2>5. First(next, p, gone) \in Exits(next, p, gone)
    BY <2>4, FirstIsExit
  <2>6. \A h \in Run(next, p, gone) : next[h] \in Pointer
    BY <2>2, RunHas DEF TypeOK
  <2> QED
    BY <2>1, <2>5, <2>6 DEF Exits
<1>3. first' \in Pointer /\ (first' \in Handle => first' \in Live)
  <2>1. first \in Pointer /\ (first \in Handle => first \in Live)
    BY LiveRuns DEF TypeOK
  <2>2. first' = First(next, first, gone)
    BY DEF Unlink
  <2> QED
    BY <1>2, <2>1, <2>2
<1>4. ASSUME NEW h \in Handle
      PROVE  (IF h \in Linked \ gone THEN First(next, next[h], gone) ELSE next[h]) \in Pointer
  <2>1. next[h] \in Pointer
    BY DEF TypeOK
  <2>2. h \in Linked => (next[h] \in Handle => next[h] \in Live)
    BY LiveRuns DEF Live
  <2> QED
    BY <1>2, <2>1, <2>2
<1>5. next' \in [Handle -> Pointer]
  BY <1>4 DEF Unlink
<1> QED
  BY <1>1, <1>3, <1>5

LEMMA TypeStep ==
    ASSUME ClientAssumption, TypeOK, LiveOK, [Next]_vars
    PROVE  TypeOK'
<1>1. ASSUME UNCHANGED <<client, list, phase, walk, kept, deadline>>,
             packet_id' \in 0..PacketIdMax
      PROVE  TypeOK'
  BY <1>1 DEF TypeOK, list, walk, alloc
<1>n. NextPacketId \in 0..PacketIdMax
  BY DEF NextPacketId, TypeOK, ClientAssumption
<1>2. CASE UNCHANGED vars
  BY <1>1, <1>2 DEF vars, TypeOK
<1>3. CASE MqttInit
  BY <1>3 DEF MqttInit, TypeOK, list, walk, alloc, ClientAssumption
<1>4. CASE MqttConnect
  BY <1>4 DEF MqttConnect, TypeOK, list, walk, alloc
<1>5. CASE MqttRelease
  <2>1. /\ client' = "none" /\ packet_id' = 0 /\ first' = NULL /\ phase = "out"
        /\ filter' = [h \in alloc \ Linked |-> filter[h]]
        /\ next' = [h \in Handle |-> IF h \in Linked THEN NULL ELSE next[h]]
        /\ UNCHANGED <<phase, deadline, walk, kept>>
    BY <1>5 DEF MqttRelease
  <2>2. alloc' = alloc \ Linked /\ \A h \in alloc' : filter'[h] \in Filter
    BY <2>1 DEF alloc, TypeOK
  <2>3. next' \in [Handle -> Pointer] /\ first' \in Pointer
    BY <2>1 DEF TypeOK, Pointer
  <2> QED
    BY <2>1, <2>2, <2>3 DEF TypeOK, walk, ClientAssumption
<1>6. CASE MqttYield
  <2>1. \E ms \in 1..(Word \div 2 - 1) : deadline' = (UptimeMs + ms) % Word
    BY <1>6 DEF MqttYield
  <2>2. PICK ms \in 1..(Word \div 2 - 1) : deadline' = (UptimeMs + ms) % Word
    BY <2>1
  <2>3. UptimeMs + ms \in Int /\ Word \in Nat /\ Word > 0
    BY DEF UptimeMs, ClientAssumption
  <2>4. deadline' \in 0..(Word - 1)
    BY <2>2, <2>3
  <2> QED
    BY <1>6, <2>4 DEF MqttYield, TypeOK, list, walk, alloc, Phase
<1>7. ASSUME NEW f \in Filter, Subscribe(f) PROVE TypeOK'
  <2>1. /\ packet_id' = NextPacketId /\ UNCHANGED <<client, phase, deadline, walk, kept>>
        /\ client # "none"
    BY <1>7 DEF Subscribe, Calling
  <2>2. CASE UNCHANGED list
    BY <1>1, <1>n, <2>1, <2>2
  <2>3. CASE ~UNCHANGED list
    <3>1. PICK h \in Handle \ alloc :
            /\ Link(h)
            /\ filter' = [g \in alloc \cup {h} |-> IF g = h THEN f ELSE filter[g]]
      BY <1>7, <2>3 DEF Subscribe
    <3>2. first' = h /\ next' = [next EXCEPT ![h] = first]
      BY <3>1 DEF Link
    <3>3. alloc' = alloc \cup {h} /\ \A g \in alloc' : filter'[g] \in Filter
      BY <3>1 DEF alloc, TypeOK
    <3>4. next' \in [Handle -> Pointer] /\ first' \in Pointer
      BY <3>2 DEF TypeOK, Pointer
    <3> QED
      BY <1>n, <2>1, <3>3, <3>4 DEF TypeOK, walk
  <2> QED
    BY <2>2, <2>3
<1>8. ASSUME NEW f \in Filter, Unsubscribe(f) PROVE TypeOK'
  <2>1. /\ packet_id' = NextPacketId /\ UNCHANGED <<client, phase, deadline, walk, filter>>
        /\ client # "none"
    BY <1>8 DEF Unsubscribe, Calling, list
  <2>2. CASE UNCHANGED <<list, kept>>
    BY <1>1, <1>n, <2>1, <2>2
  <2>3. CASE ~UNCHANGED <<list, kept>>
    <3> DEFINE gone == {h \in Linked : Matches(filter[h], f)}
    <3>1. Unlink(gone) /\ kept' = kept \ gone
      BY <1>8, <2>3 DEF Unsubscribe
    <3>2. gone \in SUBSET Linked
      OBVIOUS
    <3> HIDE DEF gone
    <3>3. first' \in Pointer /\ next' \in [Handle -> Pointer]
      BY <3>1, <3>2, UnlinkFacts
    <3> QED
      BY <1>n, <2>1, <3>1, <3>3 DEF TypeOK, walk, alloc
  <2> QED
    BY <2>2, <2>3
<1>9. CASE Publish
  BY <1>1, <1>9, <1>n DEF Publish
<1>10. ASSUME EndCycle, UNCHANGED <<list, packet_id, deadline>>,
              client' \in {"CONNECTED", "DISCONNECTED", client}, client # "none"
       PROVE  TypeOK'
  <2>1. /\ phase' \in {"out", "ready"} /\ topic' = NULL /\ cursor' = NULL
        /\ start' = {} /\ called' = {} /\ kept' = {}
    BY <1>10 DEF EndCycle
  <2>2. client' \in {"INITIALIZED", "CONNECTED", "DISCONNECTED"}
    BY <1>10 DEF TypeOK
  <2> QED
    BY <1>10, <2>1, <2>2 DEF TypeOK, list, alloc, Phase, Pointer
<1>11. phase \in {"ready", "handler", "default"} => client # "none"
  BY DEF TypeOK
<1>12. CASE CycleDown
  BY <1>10, <1>11, <1>12 DEF CycleDown
<1>13. CASE CycleEmpty
  BY <1>10, <1>11, <1>13 DEF CycleEmpty
<1>14. ASSUME NEW t \in Topic, CycleMessage(t) PROVE TypeOK'
  <2>1. /\ client' = "CONNECTED" /\ topic' = t /\ cursor' = Match(first, t)
        /\ phase' = IF cursor' = NULL THEN "default" ELSE "handler"
        /\ start' = Linked /\ kept' = Linked /\ called' = {cursor'} \ {NULL}
        /\ UNCHANGED <<list, packet_id, deadline>>
    BY <1>14 DEF CycleMessage
  <2>2. cursor' \in Pointer
    <3>1. first \in Pointer /\ Ends(next, Run(next, first, Handle))
      BY LiveRuns DEF TypeOK
    <3> QED
      BY <2>1, <3>1, MatchReached
  <2>3. Linked \subseteq Handle
    BY LiveRuns DEF Live
  <2>4. called' \subseteq Handle
    BY <2>1, <2>2 DEF Pointer
  <2> QED
    BY <2>1, <2>2, <2>3, <2>4 DEF TypeOK, list, alloc, Phase
<1>15. CASE HandlerReturns
  <2> DEFINE h == Match(next[cursor], topic)
  <2>1. phase = "handler" /\ UNCHANGED <<client, list, packet_id, deadline>>
    BY <1>15 DEF HandlerReturns
  <2>2. CASE h = NULL
    BY <1>10, <1>11, <1>15, <2>1, <2>2 DEF HandlerReturns
  <2>3. CASE h # NULL
    <3>1. cursor' = h /\ called' = called \cup {h} /\ UNCHANGED <<phase, topic, start, kept>>
      BY <1>15, <2>3 DEF HandlerReturns
    <3>2. cursor \in Handle
      BY <2>1 DEF TypeOK, Pointer
    <3>3. next[cursor] \in Pointer /\ Ends(next, Run(next, next[cursor], Handle))
      <4>1. Run(next, next[cursor], Handle) \subseteq Run(next, cursor, Handle)
        BY <3>2, RunHas, RunGoesOn
      <4> QED
        BY <3>2, <4>1, LiveRuns DEF TypeOK, Ends
    <3>4. h \in Pointer
      BY <3>3, MatchReached
    <3> HIDE DEF h
    <3>5. h \in Handle
      BY <2>3, <3>4 DEF Pointer
    <3> QED
      BY <2>1, <2>3, <3>1, <3>4, <3>5 DEF TypeOK, list, alloc
  <2> QED
    BY <2>2, <2>3
<1>16. CASE DefaultReturns
  BY <1>10, <1>11, <1>16 DEF DefaultReturns
<1> QED
  BY <1>2, <1>3, <1>4, <1>5, <1>6, <1>7, <1>8, <1>9, <1>12, <1>13, <1>14, <1>15, <1>16
     DEF Next, Cycle

-----------------------------------------------------------------------------
(* What a walk has still to meet was linked when it began and was not      *)
(* called, and of what stayed nothing is missing.                          *)
Pending == Run(next, next[cursor], Handle)

AheadOK ==
    phase = "handler" =>
        /\ cursor \in called /\ kept \subseteq alloc
        /\ Pending \subseteq start \ called
        /\ \A h \in kept : Matches(filter[h], topic) => h \in called \cup Pending

(* A handle that is linked: the handles met before are met still. *)
LEMMA LinkFacts ==
    ASSUME ClientAssumption, TypeOK, LiveOK, NEW h \in Handle \ alloc, Link(h)
    PROVE  /\ Ends(next', Live \cup {h})
           /\ Run(next', first', Handle) \subseteq Live \cup {h}
           /\ Run(next', cursor, Handle) \subseteq Live \cup {h}
           /\ \A p : Run(next, p, Handle) \subseteq Live =>
                  Run(next', p, Handle) = Run(next, p, Handle)
           /\ \A g \in Live : next'[g] = next[g]
<1>1. first' = h /\ next' = [next EXCEPT ![h] = first] /\ next \in [Handle -> Pointer]
  BY DEF Link, TypeOK
<1>2. h \notin Live /\ Live \subseteq Handle
  BY LiveRuns DEF LiveOK
<1>3. /\ \A g \in Live : next'[g] = next[g]
      /\ \A g \in Live : next[g] \in Handle => next[g] \in Live
      /\ next'[h] = first /\ (first \in Handle => first \in Live)
      /\ cursor \in Handle => cursor \in Live
  BY <1>1, <1>2, LiveRuns
<1>4. /\ Ends(next', Live \cup {h})
      /\ \A g \in Live \cup {h} : next'[g] \in Handle => next'[g] \in Live \cup {h}
  <2>1. Ends(next, Live) /\ Live \subseteq Handle /\ h \in Handle /\ h \notin Live
    BY <1>2 DEF LiveOK
  <2>2. ASSUME NEW other,
               \A g \in Live : other[g] = next[g] /\ (next[g] \in Handle => next[g] \in Live),
               other[h] \in Handle => other[h] \in Live
        PROVE  /\ Ends(other, Live \cup {h})
               /\ \A g \in Live \cup {h} :
                     other[g] \in Handle => other[g] \in Live \cup {h}
    BY <2>1, <2>2, LinkEnds
  <2> QED
    BY <1>3, <2>2
<1>5. \A p : (p \in Handle => p \in Live \cup {h}) => Run(next', p, Handle) \subseteq Live \cup {h}
  BY <1>4, RunLeast
<1>6. ASSUME NEW p, Run(next, p, Handle) \subseteq Live
      PROVE  Run(next', p, Handle) = Run(next, p, Handle)
  BY <1>3, <1>6, RunSame
<1> QED
  BY <1>1, <1>3, <1>4, <1>5, <1>6

LEMMA LiveStep ==
    ASSUME ClientAssumption, TypeOK, LiveOK, [Next]_vars
    PROVE  LiveOK'
<1>0. ASSUME NEW C \in SUBSET Live PROVE Ends(next, C)
  BY DEF LiveOK, Ends
<1>1. ASSUME UNCHANGED list, cursor' \in {NULL, cursor} PROVE LiveOK'
  <2>1. Run(next, NULL, Handle) = {}
    BY RunOutside DEF ClientAssumption
  <2>2. first' = first /\ next' = next /\ filter' = filter
    BY <1>1 DEF list
  <2>3. Live' \subseteq Live
    BY <1>1, <2>1, <2>2 DEF Live, Linked, From
  <2> QED
    BY <1>0, <2>2, <2>3 DEF LiveOK, alloc
<1>2. CASE UNCHANGED vars
  BY <1>1, <1>2 DEF vars, walk
<1>3. CASE MqttInit \/ MqttConnect \/ MqttYield \/ Publish
  BY <1>1, <1>3 DEF MqttInit, MqttConnect, MqttYield, Publish, walk
<1>4. CASE MqttRelease
  <2>1. first' = NULL /\ cursor' = NULL
    BY <1>4 DEF MqttRelease, walk, TypeOK
  <2>2. Live' = {}
    <3>1. NULL \notin Handle
      BY DEF ClientAssumption
    <3>2. \A succ : Run(succ, NULL, Handle) = {}
      BY <3>1, RunOutside
    <3> QED
      BY <2>1, <3>2 DEF Live, Linked, From
  <2> QED
    BY <2>2 DEF LiveOK, Ends
<1>5. ASSUME NEW f \in Filter, Subscribe(f) PROVE LiveOK'
  <2>1. cursor' = cursor
    BY <1>5 DEF Subscribe, walk
  <2>2. CASE UNCHANGED list
    BY <1>1, <2>1, <2>2
  <2>3. CASE ~UNCHANGED list
    <3>1. PICK h \in Handle \ alloc :
            /\ Link(h)
            /\ filter' = [g \in alloc \cup {h} |-> IF g = h THEN f ELSE filter[g]]
      BY <1>5, <2>3 DEF Subscribe
    <3>2. Live' \subseteq Live \cup {h} /\ Ends(next', Live \cup {h})
      BY <2>1, <3>1, LinkFacts DEF Live, Linked, From
    <3>3. Ends(next', Live')
      BY <3>2 DEF Ends
    <3>4. alloc' = alloc \cup {h}
      BY <3>1 DEF alloc
    <3> QED
      BY <3>2, <3>3, <3>4 DEF LiveOK
  <2> QED
    BY <2>2, <2>3
<1>6. ASSUME NEW f \in Filter, Unsubscribe(f) PROVE LiveOK'
  <2>1. cursor' = cursor /\ filter' = filter
    BY <1>6 DEF Unsubscribe, walk, list
  <2>2. CASE UNCHANGED <<list, kept>>
    BY <1>1, <2>1, <2>2
  <2>3. CASE ~UNCHANGED <<list, kept>>
    <3> DEFINE gone == {h \in Linked : Matches(filter[h], f)}
    <3>1. Unlink(gone)
      BY <1>6, <2>3 DEF Unsubscribe
    <3>2. gone \in SUBSET Linked
      OBVIOUS
    <3> HIDE DEF gone
    <3>3. /\ Unlinked(next, next', Handle, Live, Linked, gone)
          /\ first' \in Handle => first' \in Live
      BY <3>1, <3>2, UnlinkFacts
    <3>4. cursor \in Handle => cursor \in Live
      BY LiveRuns
    <3>5. ASSUME NEW p, p \in Handle => p \in Live
          PROVE  Run(next', p, Handle) \subseteq Live
      <4>1. \A g \in Live : next'[g] \in Handle => next'[g] \in Live
        BY <3>3, UnlinkStays
      <4> QED
        BY <3>5, <4>1, RunLeast
    <3>6. Live' \subseteq Live
      BY <2>1, <3>3, <3>4, <3>5 DEF Live, Linked, From
    <3>7. Ends(next', Live')
      <4>1. Ends(next', Live)
        BY <3>3, UnlinkEnds
      <4> QED
        BY <3>6, <4>1 DEF Ends
    <3> QED
      BY <2>1, <3>6, <3>7 DEF LiveOK, alloc
  <2> QED
    BY <2>2, <2>3
<1>7. CASE CycleDown \/ CycleEmpty \/ DefaultReturns
  BY <1>1, <1>7 DEF CycleDown, CycleEmpty, DefaultReturns, EndCycle
<1>8. ASSUME UNCHANGED list, Run(next, cursor', Handle) \subseteq Live PROVE LiveOK'
  <2>1. first' = first /\ next' = next /\ filter' = filter
    BY <1>8 DEF list
  <2>2. Live' \subseteq Live
    BY <1>8, <2>1 DEF Live, Linked, From
  <2> QED
    BY <1>0, <2>1, <2>2 DEF LiveOK, alloc
<1>9. ASSUME NEW t \in Topic, CycleMessage(t) PROVE LiveOK'
  <2>1. cursor' = Match(first, t) /\ UNCHANGED list
    BY <1>9 DEF CycleMessage
  <2>2. first \in Pointer /\ Ends(next, Run(next, first, Handle))
        /\ Run(next, first, Handle) \subseteq Live
    BY LiveRuns DEF TypeOK
  <2>3. Run(next, cursor', Handle) \subseteq Run(next, first, Handle)
    BY <2>1, <2>2, MatchReached
  <2> QED
    BY <1>8, <2>1, <2>2, <2>3
<1>10. CASE HandlerReturns
  <2> DEFINE h == Match(next[cursor], topic)
  <2>1. phase = "handler" /\ UNCHANGED list
    BY <1>10 DEF HandlerReturns
  <2>2. CASE h = NULL
    BY <1>1, <1>10, <2>1, <2>2 DEF HandlerReturns, EndCycle
  <2>3. CASE h # NULL
    <3>1. cursor' = h
      BY <1>10, <2>3 DEF HandlerReturns
    <3>2. cursor \in Handle /\ next[cursor] \in Pointer
      BY <2>1 DEF TypeOK, Pointer
    <3>3. /\ Run(next, next[cursor], Handle) \subseteq Live
          /\ Ends(next, Run(next, next[cursor], Handle))
      BY <1>0, <3>2, RunHas, RunGoesOn, LiveRuns
    <3>4. Run(next, h, Handle) \subseteq Run(next, next[cursor], Handle)
      BY <3>2, <3>3, MatchReached
    <3> HIDE DEF h
    <3> QED
      BY <1>8, <2>1, <3>1, <3>3, <3>4
  <2> QED
    BY <2>2, <2>3
<1> QED
  BY <1>2, <1>3, <1>4, <1>5, <1>6, <1>7, <1>9, <1>10 DEF Next, Cycle

(* The handle whose handler runs, and what is behind it. *)
LEMMA AtCursor ==
    ASSUME ClientAssumption, TypeOK, LiveOK, phase = "handler"
    PROVE  /\ cursor \in Handle /\ cursor \in Live /\ next[cursor] \in Pointer
           /\ next[cursor] \in Handle => next[cursor] \in Live
           /\ Pending \subseteq Live /\ Ends(next, Pending)
           /\ cursor \notin Pending
<1>1. cursor \in Handle
  BY DEF TypeOK, Pointer
<1>2. cursor \in Live /\ next[cursor] \in Pointer
      /\ (next[cursor] \in Handle => next[cursor] \in Live)
  BY <1>1, LiveRuns DEF TypeOK
<1>3. Pending \subseteq Live
  BY <1>1, RunHas, RunGoesOn, LiveRuns DEF Pending
<1>4. Ends(next, Pending)
  BY <1>3 DEF LiveOK, Ends
<1>5. cursor \notin Pending
  BY <1>1, LiveRuns, NoReturn DEF Pending
<1> QED
  BY <1>1, <1>2, <1>3, <1>4, <1>5

(* What is behind a handle that matches, when the walk goes on to it. *)
LEMMA Advance ==
    ASSUME ClientAssumption, TypeOK, NEW p \in Pointer, NEW t, NEW h,
           h = Match(p, t), h \in Handle, Ends(next, Run(next, p, Handle))
    PROVE  /\ h \in Run(next, p, Handle)
           /\ Run(next, next[h], Handle) \subseteq Run(next, p, Handle) \ {h}
           /\ \A g \in Run(next, p, Handle) :
                 g \in alloc /\ Matches(filter[g], t) => g \in {h} \cup Run(next, next[h], Handle)
<1>1. /\ h \in Run(next, p, Handle)
      /\ Run(next, h, Handle) \subseteq Run(next, p, Handle)
      /\ \A g \in Run(next, p, Handle) :
            g \in alloc /\ Matches(filter[g], t) => g \in Run(next, h, Handle)
  BY MatchReached
<1>2. Run(next, next[h], Handle) \subseteq Run(next, p, Handle)
  BY <1>1, RunGoesOn
<1>3. Ends(next, Run(next, h, Handle))
  BY <1>1 DEF Ends
<1>4. h \notin Run(next, next[h], Handle)
  BY <1>3, NoReturn
<1>5. Run(next, h, Handle) \subseteq {h} \cup Run(next, next[h], Handle)
  BY RunUnfolds
<1> QED
  BY <1>1, <1>2, <1>4, <1>5

(* A walk that finds no more has met no other that matches. *)
LEMMA NoneLeft ==
    ASSUME ClientAssumption, TypeOK, NEW p \in Pointer, NEW t, Match(p, t) = NULL,
           Ends(next, Run(next, p, Handle))
    PROVE  \A g \in Run(next, p, Handle) : ~(g \in alloc /\ Matches(filter[g], t))
<1>1. \A g \in Run(next, p, Handle) :
        g \in alloc /\ Matches(filter[g], t) => g \in Run(next, NULL, Handle)
  BY MatchReached
<1>2. Run(next, NULL, Handle) = {}
  BY RunOutside DEF ClientAssumption
<1> QED
  BY <1>1, <1>2

LEMMA AheadStep ==
    ASSUME ClientAssumption, TypeOK, LiveOK, AheadOK, [Next]_vars
    PROVE  AheadOK'
<1>1. ASSUME UNCHANGED <<list, phase, walk, kept>> PROVE AheadOK'
  BY <1>1 DEF list, walk, AheadOK, Pending, alloc
<1>2. ASSUME phase' # "handler" PROVE AheadOK'
  BY <1>2 DEF AheadOK
<1>3. CASE UNCHANGED vars
  BY <1>1, <1>3 DEF vars
<1>4. CASE MqttInit \/ MqttConnect \/ MqttRelease \/ MqttYield
  BY <1>2, <1>4 DEF MqttInit, MqttConnect, MqttRelease, MqttYield, TypeOK
<1>5. CASE Publish
  BY <1>1, <1>5 DEF Publish
<1>6. ASSUME NEW f \in Filter, Subscribe(f), phase' = "handler" PROVE AheadOK'
  <2>1. UNCHANGED <<phase, walk, kept>>
    BY <1>6 DEF Subscribe
  <2>2. CASE UNCHANGED list
    BY <1>1, <2>1, <2>2
  <2>3. CASE ~UNCHANGED list
    <3>1. PICK h \in Handle \ alloc :
            /\ Link(h)
            /\ filter' = [g \in alloc \cup {h} |-> IF g = h THEN f ELSE filter[g]]
      BY <1>6, <2>3 DEF Subscribe
    <3>2. phase = "handler" /\ cursor' = cursor /\ topic' = topic /\ start' = start
          /\ called' = called /\ kept' = kept
      BY <1>6, <2>1 DEF walk
    <3>3. next'[cursor] = next[cursor] /\ Run(next', next[cursor], Handle) = Pending
      BY <3>1, <3>2, AtCursor, LinkFacts DEF Pending
    <3>4. Pending' = Pending
      BY <3>2, <3>3 DEF Pending
    <3>5. kept \subseteq alloc' /\ \A g \in kept : filter'[g] = filter[g]
      BY <3>1, <3>2 DEF AheadOK, alloc
    <3> QED
      BY <3>2, <3>4, <3>5 DEF AheadOK
  <2> QED
    BY <2>2, <2>3
<1>7. ASSUME NEW f \in Filter, Unsubscribe(f), phase' = "handler" PROVE AheadOK'
  <2>1. UNCHANGED <<phase, walk, filter>>
    BY <1>7 DEF Unsubscribe, list
  <2>2. CASE UNCHANGED <<list, kept>>
    BY <1>1, <2>1, <2>2
  <2>3. CASE ~UNCHANGED <<list, kept>>
    <3> DEFINE gone == {h \in Linked : Matches(filter[h], f)}
    <3>1. Unlink(gone) /\ kept' = kept \ gone
      BY <1>7, <2>3 DEF Unsubscribe
    <3>2. gone \in SUBSET Linked
      OBVIOUS
    <3> HIDE DEF gone
    <3>3. phase = "handler" /\ cursor' = cursor /\ topic' = topic /\ start' = start
          /\ called' = called /\ filter' = filter
      BY <1>7, <2>1 DEF walk
    <3>4. Unlinked(next, next', Handle, Live, Linked, gone)
      BY <3>1, <3>2, UnlinkFacts
    <3>5. /\ cursor \in Handle /\ next[cursor] \in Pointer
          /\ next[cursor] \in Handle => next[cursor] \in Live
      BY <3>3, AtCursor
    <3> DEFINE p == next[cursor]
               q == First(next, p, gone)
    <3>6. /\ Pending \subseteq Run(next, p, gone) \cup Run(next, q, Handle)
          /\ q \in Handle => q \in Live
          /\ Run(next, q, Handle) \subseteq Pending
      BY <3>4, <3>5, FirstInX DEF Pending
    <3>7. Run(next, p, gone) \subseteq gone
      BY RunHas
    <3>8. next'[cursor] = p \/ next'[cursor] = q
      BY <3>4, <3>5 DEF Unlinked
    <3> HIDE DEF p, q
    <3>9. \A r : (r \in Handle => r \in Live) =>
                /\ Run(next', r, Handle) \subseteq Run(next, r, Handle)
                /\ Run(next, r, Handle) \ gone \subseteq Run(next', r, Handle)
      <4>1. ASSUME NEW r, r \in Handle => r \in Live
            PROVE  /\ Run(next', r, Handle) \subseteq Run(next, r, Handle)
                   /\ Run(next, r, Handle) \ gone \subseteq Run(next', r, Handle)
        BY <3>4, <4>1, UnlinkStays, UnlinkKeeps
      <4> QED
        BY <4>1
    <3>10. Pending = Run(next, p, Handle) /\ Pending' = Run(next', next'[cursor], Handle)
      BY <3>3 DEF Pending, p
    <3>11. Pending' \subseteq Pending /\ Pending \ gone \subseteq Pending'
      <4>1. CASE next'[cursor] = p
        BY <3>5, <3>9, <3>10, <4>1 DEF p
      <4>2. CASE next'[cursor] = q
        BY <3>6, <3>7, <3>9, <3>10, <4>2
      <4> QED
        BY <3>8, <4>1, <4>2
    <3> QED
      BY <3>1, <3>3, <3>11 DEF AheadOK, alloc
  <2> QED
    BY <2>2, <2>3
<1>8. CASE CycleDown \/ CycleEmpty \/ DefaultReturns
  BY <1>2, <1>8 DEF CycleDown, CycleEmpty, DefaultReturns, EndCycle
<1>9. ASSUME NEW t \in Topic, CycleMessage(t), phase' = "handler" PROVE AheadOK'
  <2>1. /\ cursor' = Match(first, t) /\ cursor' # NULL /\ topic' = t
        /\ start' = Linked /\ kept' = Linked /\ called' = {cursor'} \ {NULL}
        /\ first' = first /\ next' = next /\ filter' = filter
    BY <1>9 DEF CycleMessage, list
  <2>2. /\ first \in Pointer /\ Ends(next, Run(next, first, Handle))
        /\ Linked = Run(next, first, Handle) /\ Linked \subseteq alloc
    BY LiveRuns DEF TypeOK, LiveOK
  <2>3. cursor' \in Handle
    BY <2>1, <2>2, MatchReached DEF Pointer
  <2> DEFINE h == cursor'
  <2>4. h = Match(first, t) /\ h \in Handle
    BY <2>1, <2>3
  <2> HIDE DEF h
  <2>5. /\ Run(next, next[h], Handle) \subseteq Linked \ {h}
        /\ \A g \in Linked :
              g \in alloc /\ Matches(filter[g], t) => g \in {h} \cup Run(next, next[h], Handle)
    BY <2>2, <2>4, Advance
  <2>6. Pending' = Run(next, next[h], Handle) /\ called' = {h} /\ cursor' = h
    BY <2>1 DEF Pending, h
  <2> QED
    BY <2>1, <2>2, <2>5, <2>6 DEF AheadOK, alloc
<1>10. ASSUME HandlerReturns, phase' = "handler" PROVE AheadOK'
  <2> DEFINE h == Match(next[cursor], topic)
  <2>1. /\ phase = "handler" /\ h # NULL /\ cursor' = h /\ called' = called \cup {h}
        /\ topic' = topic /\ start' = start /\ kept' = kept
        /\ next' = next /\ filter' = filter
    BY <1>10 DEF HandlerReturns, EndCycle, list
  <2>2. next[cursor] \in Pointer /\ Ends(next, Pending)
    BY <2>1, AtCursor
  <2>3. h \in Handle
    BY <2>1, <2>2, MatchReached DEF Pointer, Pending
  <2>4. h = Match(next[cursor], topic)
    OBVIOUS
  <2> HIDE DEF h
  <2>5. /\ Run(next, next[h], Handle) \subseteq Pending \ {h}
        /\ \A g \in Pending :
              g \in alloc /\ Matches(filter[g], topic) => g \in {h} \cup Run(next, next[h], Handle)
    BY <2>2, <2>3, <2>4, Advance DEF Pending
  <2>6. Pending' = Run(next, next[h], Handle)
    BY <2>1 DEF Pending
  <2> QED
    BY <2>1, <2>5, <2>6 DEF AheadOK, alloc
<1> QED
  BY <1>2, <1>3, <1>4, <1>5, <1>6, <1>7, <1>8, <1>9, <1>10 DEF Next, Cycle

-----------------------------------------------------------------------------
LEMMA InvHolds == ClientAssumption /\ Spec => [](TypeOK /\ LiveOK /\ AheadOK)
<1>1. ClientAssumption /\ Init => TypeOK /\ LiveOK /\ AheadOK
  <2> SUFFICES ASSUME ClientAssumption, Init PROVE TypeOK /\ LiveOK /\ AheadOK
    OBVIOUS
  <2>1. alloc = {}
    BY DEF Init, alloc
  <2>2. TypeOK
    BY <2>1 DEF Init, TypeOK, Pointer, Phase, ClientAssumption
  <2>3. \A succ : Run(succ, NULL, Handle) = {}
    BY RunOutside DEF ClientAssumption
  <2>4. LiveOK
    BY <2>3 DEF Init, LiveOK, Live, Linked, From, Ends
  <2>5. AheadOK
    BY DEF Init, AheadOK
  <2> QED
    BY <2>2, <2>4, <2>5
<1>2. ClientAssumption /\ TypeOK /\ LiveOK /\ AheadOK /\ [Next]_vars
        => (TypeOK /\ LiveOK /\ AheadOK)'
  BY TypeStep, LiveStep, AheadStep
<1> QED
  BY <1>1, <1>2, ClientAssumption, PTL DEF Spec

(* Every state has its type; a handler runs exactly while the cursor of    *)
(* its walk is set, and without a client there is no list.                 *)
THEOREM TypeCorrect == Spec => []TypeOK
  BY InvHolds, ClientAssumption, PTL

(* Neither the list nor a walk reaches freed memory, whatever the handlers *)
(* unsubscribe, themselves included: MALMQTTUnsubscribe() unlinks and does *)
(* not free, and what it unlinks still leads into the list.                *)
THEOREM NoPointerDangles == Spec => []NoDanglingPointer
<1>1. LiveOK => NoDanglingPointer
  BY DEF LiveOK, Live, NoDanglingPointer
<1> QED
  BY <1>1, InvHolds, ClientAssumption, PTL

(* A walk calls a handle at most once and no handle linked after it began, *)
(* and ends when every handle that matches and stayed was called, for      *)
(* every list and whatever the handlers subscribe and unsubscribe.         *)
THEOREM WalkCallsEachOnce == Spec => CallsEachOnce
<1> DEFINE Once ==
             phase = "handler" =>
               /\ cursor' \notin {cursor, NULL} => cursor' \in start \ called
               /\ phase' # "handler" =>
                     \A h \in kept : Matches(filter[h], topic) => h \in called
<1>1. ASSUME ClientAssumption, TypeOK, LiveOK, AheadOK, [Next]_vars PROVE Once
  <2> SUFFICES ASSUME phase = "handler" PROVE Once
    OBVIOUS
  <2>1. ASSUME cursor' = cursor, phase' = phase PROVE Once
    BY <2>1
  <2>2. CASE UNCHANGED vars
    BY <2>1, <2>2 DEF vars, walk
  <2>3. \A f \in Filter : Subscribe(f) \/ Unsubscribe(f) => cursor' = cursor /\ phase' = phase
    BY DEF Subscribe, Unsubscribe, walk
  <2>4. Publish => cursor' = cursor /\ phase' = phase
    BY DEF Publish, walk
  <2>5. client # "none"
    BY <1>1 DEF TypeOK
  <2>6. CASE HandlerReturns
    <3> DEFINE h == Match(next[cursor], topic)
    <3>1. next[cursor] \in Pointer /\ Ends(next, Pending)
      BY <1>1, AtCursor
    <3>2. CASE h = NULL
      <4>1. cursor' = NULL
        BY <2>6, <3>2 DEF HandlerReturns, EndCycle
      <4>2. \A g \in Pending : ~(g \in alloc /\ Matches(filter[g], topic))
        BY <1>1, <3>1, <3>2, NoneLeft DEF Pending
      <4> QED
        BY <1>1, <4>1, <4>2 DEF AheadOK
    <3>3. CASE h # NULL
      <4>1. cursor' = h /\ phase' = phase
        BY <2>6, <3>3 DEF HandlerReturns
      <4>2. h \in Pending
        BY <1>1, <3>1, <3>3, MatchReached DEF Pointer, Pending
      <4> QED
        BY <1>1, <4>1, <4>2 DEF AheadOK
    <3> QED
      BY <3>2, <3>3
  <2> QED
    BY <1>1, <2>1, <2>2, <2>3, <2>4, <2>5, <2>6
       DEF Next, Cycle, MqttInit, MqttConnect, MqttRelease, MqttYield, CycleDown, CycleEmpty,
           CycleMessage, DefaultReturns
<1>2. ClientAssumption /\ TypeOK /\ LiveOK /\ AheadOK /\ [Next]_vars => [Once]_vars
  BY <1>1
<1>3. Spec => [](TypeOK /\ LiveOK /\ AheadOK) /\ [][Next]_vars
  BY InvHolds, ClientAssumption, PTL DEF Spec
<1>4. Spec => [][Once]_vars
  BY <1>2, <1>3, ClientAssumption, PTL
<1> QED
  BY <1>4 DEF CallsEachOnce

=============================================================================
