--------------------------- MODULE EthValidatorProofs ---------------------------
(***************************************************************************)
(* Proofs about the block validator of the Ethereum proxy, for every depth,*)
(* every finite set of candidates and wherever they are on the chain.      *)
(***************************************************************************)
EXTENDS EthValidator, FiniteSetTheorems, SequenceTheorems, TLAPS

\* Deep enough for a verdict
Buried(c) == OnChain[c] # 0 /\ OnChain[c] + minDepth < height

\* What a pass holds, and where it is in the window of its first candidate
Passes ==
    [at : {"timer", "search", "report"}, listed : Seq(Candidates),
     offset : SearchStart..SearchEnd,
     orphaned : Seq(Candidates), matured : Seq(Candidates)]

PassOK ==
    /\ pass \in Passes
    /\ pass.at = "search" => pass.listed # << >>

VarsOK ==
    /\ height \in 1..MaxHeight
    /\ verdict \in [Candidates -> {"unknown", "yes", "no"}]
    /\ halt \in BOOLEAN
    /\ errors \in 0..MaxErrors /\ restarts \in 0..MaxRestarts

\* The listed candidates were deep enough when they were listed, and still are.
ListedDeep == \A i \in 1..Len(pass.listed) : Recorded[pass.listed[i]] < height - Depth

\* The heights the search has left behind do not have the candidate.
PassedBy ==
    pass.at = "search" =>
        LET c == pass.listed[1]
        IN  \A k \in SearchStart..(pass.offset - 1) :
                OnChain[c] = 0 \/ OnChain[c] # Recorded[c] + k

FoundBuried == \A i \in 1..Len(pass.matured) : Buried(pass.matured[i])

LostOutOfWindow == \A i \in 1..Len(pass.orphaned) : OutOfWindow(pass.orphaned[i])

\* What is known of the search, before any verdict is posted
SearchInv == ListedDeep /\ PassedBy /\ FoundBuried /\ LostOutOfWindow

\* The inductive invariant
IInv == VarsOK /\ PassOK /\ SearchInv /\ ValidIsBuried

------------------------------------------------------------------------------
(* Helpers *)

\* The list made of a finite set has its elements and no others.
LEMMA ListOfSet ==
    ASSUME NEW S, IsFiniteSet(S)
    PROVE  SetToSeq(S) \in Seq(S) /\ (S # {} => SetToSeq(S) # << >>)
<1>. DEFINE n == Cardinality(S)
<1>1. n \in Nat /\ ExistsBijection(1..n, S)
  BY FS_CardinalityType
<1>2. PICK f \in [1..n -> S] : IsInjective(f)
  BY <1>1 DEF ExistsBijection, Bijection, Injection, IsInjective
<1>3. SetToSeq(S) \in [1..n -> S]
  BY <1>2 DEF SetToSeq
<1>4. SetToSeq(S) \in Seq(S) /\ Len(SetToSeq(S)) = n
  BY <1>1, <1>3
<1>5. S # {} => n # 0
  BY FS_EmptySet
<1>. QED  BY <1>4, <1>5

\* The window is not empty, and a rested pass holds nothing.
LEMMA RestingOK ==
    /\ SearchStart \in SearchStart..SearchEnd /\ SearchStart \in Int /\ SearchEnd \in Int
    /\ Resting \in Passes
    /\ Resting.at = "timer"
<1>1. minDepth \in Nat \ {0} /\ 0 \in SearchStart..SearchEnd
  BY EthValidatorAssumption DEF SearchStart, SearchEnd
<1>. QED  BY <1>1, EthValidatorAssumption DEF SearchStart, SearchEnd, Resting, Passes

\* A step that rests keeps everything the pass is about.
LEMMA Rests ==
    ASSUME pass' = Resting
    PROVE  PassOK' /\ SearchInv'
<1>1. /\ pass'.listed = << >> /\ pass'.orphaned = << >> /\ pass'.matured = << >>
      /\ pass'.at = "timer"
  BY DEF Resting
<1>2. PassOK'
  BY <1>1, RestingOK DEF PassOK
<1>. QED  BY <1>1, <1>2 DEF SearchInv, ListedDeep, PassedBy, FoundBuried, LostOutOfWindow

\* Blocks stay buried and listed ones deep when the chain grows.
LEMMA TallerChain ==
    ASSUME IInv, height' \in Nat, height' >= height, UNCHANGED pass
    PROVE  PassOK' /\ SearchInv' /\ \A c \in Candidates : Buried(c) => Buried(c)'
<1>1. height \in Nat /\ minDepth \in Nat /\ Depth \in Nat
  BY EthValidatorAssumption DEF IInv, VarsOK
<1>2. ASSUME NEW c \in Candidates, Buried(c) PROVE Buried(c)'
  BY <1>1, <1>2, EthValidatorAssumption DEF Buried
<1>3. PassOK'
  BY DEF IInv, PassOK, Passes
<1>4. ListedDeep'
  <2>. SUFFICES ASSUME NEW i \in 1..Len(pass.listed)
                PROVE  Recorded[pass.listed[i]] < height' - Depth
    BY DEF ListedDeep
  <2>1. Recorded[pass.listed[i]] \in Nat
    BY EthValidatorAssumption DEF IInv, PassOK, Passes
  <2>. QED  BY <1>1, <2>1 DEF IInv, SearchInv, ListedDeep
<1>5. FoundBuried'
  <2>. SUFFICES ASSUME NEW i \in 1..Len(pass.matured)
                PROVE  Buried(pass.matured[i])'
    BY DEF FoundBuried
  <2>1. pass.matured[i] \in Candidates
    BY DEF IInv, PassOK, Passes
  <2>. QED  BY <1>2, <2>1 DEF IInv, SearchInv, FoundBuried
<1>6. PassedBy' /\ LostOutOfWindow'
  BY DEF IInv, SearchInv, PassedBy, LostOutOfWindow, OutOfWindow
<1>. QED  BY <1>2, <1>3, <1>4, <1>5, <1>6 DEF SearchInv

\* What a pass goes on with
LEMMA GoesOn ==
    ASSUME IInv, pass.at = "search",
           NEW o \in Seq(Candidates), NEW m \in Seq(Candidates),
           \A i \in 1..Len(o) : OutOfWindow(o[i]), \A i \in 1..Len(m) : Buried(m[i]),
           UNCHANGED height,
           pass' = NextCandidate([pass EXCEPT !.orphaned = o, !.matured = m])
    PROVE  PassOK' /\ SearchInv'
<1>. DEFINE l == pass.listed
<1>1. l \in Seq(Candidates) /\ l # << >>
  BY DEF IInv, PassOK, Passes
<1>2. /\ Tail(l) \in Seq(Candidates) /\ Len(Tail(l)) = Len(l) - 1
      /\ \A i \in 1..Len(Tail(l)) : Tail(l)[i] = l[i + 1]
      /\ Len(l) \in Nat \ {0}
  BY <1>1, HeadTailProperties, EmptySeq
<1>3. /\ pass' = [at |-> IF Len(l) = 1 THEN "report" ELSE "search", listed |-> Tail(l),
                  offset |-> SearchStart, orphaned |-> o, matured |-> m]
  BY DEF NextCandidate, IInv, PassOK, Passes
<1>. HIDE DEF l
<1>4. pass' \in Passes
  <2>. DEFINE next == IF Len(l) = 1 THEN "report" ELSE "search"
  <2>1. next \in {"timer", "search", "report"}
    OBVIOUS
  <2>2. pass' = [at |-> next, listed |-> Tail(l), offset |-> SearchStart,
                 orphaned |-> o, matured |-> m]
    BY <1>3
  <2>3. Tail(l) \in Seq(Candidates) /\ SearchStart \in SearchStart..SearchEnd
    BY <1>2, RestingOK
  <2>4. ASSUME NEW a \in {"timer", "search", "report"}, NEW t \in Seq(Candidates),
               NEW k \in SearchStart..SearchEnd
        PROVE  [at |-> a, listed |-> t, offset |-> k, orphaned |-> o, matured |-> m]
                   \in Passes
    BY DEF Passes
  <2>. HIDE DEF next
  <2>. QED  BY <2>1, <2>2, <2>3, <2>4
<1>5. pass'.at = "search" => pass'.listed # << >>
  <2>1. /\ pass'.at = IF Len(l) = 1 THEN "report" ELSE "search"
        /\ pass'.listed = Tail(l)
    BY <1>3
  <2>2. pass'.at = "search" => Len(Tail(l)) # 0
    BY <1>2, <2>1
  <2>3. Len(<< >>) = 0
    BY EmptySeq
  <2>. QED  BY <2>1, <2>2, <2>3
<1>6. ListedDeep'
  <2>1. pass'.listed = Tail(l)
    BY <1>3
  <2>2. ASSUME NEW i \in 1..Len(Tail(l)) PROVE Recorded[Tail(l)[i]] < height - Depth
    <3>1. i + 1 \in 1..Len(l) /\ Tail(l)[i] = l[i + 1]
      BY <1>2
    <3>2. \A j \in 1..Len(l) : Recorded[l[j]] < height - Depth
      BY DEF IInv, SearchInv, ListedDeep, l
    <3>. QED  BY <3>1, <3>2
  <2>. QED  BY <2>1, <2>2 DEF ListedDeep
<1>7. PassedBy'
  <2>1. pass'.offset = SearchStart
    BY <1>3
  <2>2. SearchStart..(SearchStart - 1) = {}
    BY RestingOK
  <2>. QED  BY <2>1, <2>2 DEF PassedBy, SearchStart
<1>8. FoundBuried' /\ LostOutOfWindow'
  BY <1>3 DEF FoundBuried, LostOutOfWindow, Buried, OutOfWindow
<1>. QED  BY <1>4, <1>5, <1>6, <1>7, <1>8 DEF PassOK, SearchInv

------------------------------------------------------------------------------
(* The steps *)

\* The invariant holds at the start: nothing is listed and nothing known.
LEMMA InitIInv == Init => IInv
<1>. SUFFICES ASSUME Init PROVE IInv
  OBVIOUS
<1>1. VarsOK /\ ValidIsBuried
  <2>1. MaxErrors \in Nat /\ MaxRestarts \in Nat /\ MaxHeight \in Nat \ {0}
    BY EthValidatorAssumption
  <2>2. 1 \in 1..MaxHeight /\ 0 \in 0..MaxErrors /\ 0 \in 0..MaxRestarts
    BY <2>1
  <2>3. \A c \in Candidates : verdict[c] = "unknown"
    BY DEF Init
  <2>. QED  BY <2>2, <2>3 DEF Init, VarsOK, ValidIsBuried
<1>2. pass = Resting
  BY DEF Init
<1>3. PassOK
  BY <1>2, RestingOK DEF PassOK, Passes
<1>4. SearchInv
  BY <1>2 DEF Resting, SearchInv, ListedDeep, PassedBy, FoundBuried, LostOutOfWindow
<1>. QED  BY <1>1, <1>3, <1>4 DEF IInv

\* A pass begins with candidates that are deep enough.
LEMMA WakeKeeps == ASSUME IInv, Wake PROVE IInv'
<1>. DEFINE l == SetToSeq(GetCandidates)
<1>1. /\ pass' = [at |-> "search", listed |-> l, offset |-> SearchStart,
                  orphaned |-> << >>, matured |-> << >>]
      /\ GetCandidates # {} /\ UNCHANGED <<height, verdict, halt, errors, restarts>>
  BY DEF Wake, Resting
<1>2. IsFiniteSet(GetCandidates)
  BY FS_Subset, EthValidatorAssumption DEF GetCandidates
<1>3. l \in Seq(GetCandidates) /\ l # << >>
  BY <1>1, <1>2, ListOfSet
<1>. HIDE DEF l
<1>4. l \in Seq(Candidates) /\ \A i \in 1..Len(l) : Recorded[l[i]] < height - Depth
  <2>1. \A i \in 1..Len(l) : l[i] \in GetCandidates
    BY <1>3
  <2>2. l \in Seq(Candidates)
    BY <1>3, SeqMonotonic DEF GetCandidates
  <2>. QED  BY <2>1, <2>2 DEF GetCandidates
<1>5. PassOK'
  <2>1. pass' \in Passes
    BY <1>1, <1>4, RestingOK DEF Passes
  <2>. QED  BY <1>1, <1>3, <2>1 DEF PassOK
<1>6. SearchInv'
  <2>1. ListedDeep'
    BY <1>1, <1>4 DEF ListedDeep
  <2>2. PassedBy'
    <3>1. SearchStart..(SearchStart - 1) = {}
      BY RestingOK
    <3>. QED  BY <1>1, <3>1 DEF PassedBy, SearchStart
  <2>. QED  BY <1>1, <2>1, <2>2 DEF SearchInv, FoundBuried, LostOutOfWindow
<1>. QED  BY <1>1, <1>5, <1>6 DEF IInv, VarsOK, ValidIsBuried

\* The search goes on to the next height when this one does not have the candidate.
LEMMA SearchGoesOn ==
    ASSUME IInv, pass.at = "search", pass.offset < SearchEnd,
           pass' = [pass EXCEPT !.offset = @ + 1],
           OnChain[pass.listed[1]] = 0 \/
               OnChain[pass.listed[1]] # Recorded[pass.listed[1]] + pass.offset,
           UNCHANGED <<height, verdict, halt, errors, restarts>>
    PROVE  IInv'
<1>1. pass.offset \in SearchStart..SearchEnd /\ pass.offset \in Int
  BY RestingOK DEF IInv, PassOK, Passes
<1>2. pass.offset + 1 \in SearchStart..SearchEnd
  BY <1>1, RestingOK
<1>3. /\ pass'.at = pass.at /\ pass'.listed = pass.listed
      /\ pass'.orphaned = pass.orphaned /\ pass'.matured = pass.matured
      /\ pass'.offset = pass.offset + 1
  BY DEF IInv, PassOK, Passes
<1>4. PassOK'
  <2>1. pass' \in Passes
    BY <1>2 DEF IInv, PassOK, Passes
  <2>. QED  BY <1>3, <2>1 DEF IInv, PassOK
<1>5. PassedBy'
  <2>. DEFINE c == pass.listed[1]
  <2>. SUFFICES ASSUME NEW k \in SearchStart'..(pass'.offset - 1)
                PROVE  OnChain[c] = 0 \/ OnChain[c] # Recorded[c] + k
    BY <1>3 DEF PassedBy
  <2>1. k \in SearchStart..(pass.offset - 1) \/ k = pass.offset
    BY <1>1, <1>3, RestingOK DEF SearchStart
  <2>. QED  BY <2>1 DEF IInv, SearchInv, PassedBy
<1>6. SearchInv'
  BY <1>3, <1>5
     DEF IInv, SearchInv, ListedDeep, FoundBuried, LostOutOfWindow, Buried, OutOfWindow
<1>. QED  BY <1>4, <1>6 DEF IInv, VarsOK, ValidIsBuried

\* The candidate a search is for
LEMMA Searching ==
    ASSUME IInv, At("search")
    PROVE  /\ pass.at = "search" /\ pass.listed[1] \in Candidates
           /\ Head(pass.listed) = pass.listed[1]
           /\ Searched = Recorded[pass.listed[1]] + pass.offset
           /\ Recorded[pass.listed[1]] < height - Depth
           /\ Recorded[pass.listed[1]] \in Nat /\ OnChain[pass.listed[1]] \in Nat
           /\ pass.offset \in SearchStart..SearchEnd
<1>1. pass.at = "search" /\ pass.listed \in Seq(Candidates) /\ pass.listed # << >>
      /\ pass.offset \in SearchStart..SearchEnd
  BY DEF At, IInv, PassOK, Passes
<1>2. 1 \in 1..Len(pass.listed) /\ Head(pass.listed) = pass.listed[1]
  BY <1>1, EmptySeq
<1>3. pass.listed[1] \in Candidates
  BY <1>1, <1>2
<1>4. Recorded[pass.listed[1]] < height - Depth
  BY <1>2 DEF IInv, SearchInv, ListedDeep
<1>5. Recorded[pass.listed[1]] \in Nat /\ OnChain[pass.listed[1]] \in Nat
  BY <1>3, EthValidatorAssumption
<1>. QED  BY <1>1, <1>2, <1>3, <1>4, <1>5 DEF Searched

\* Below the first block there is nothing, and a height that does not match is passed by.
LEMMA PassByKeeps == ASSUME IInv, SkipNegative \/ NoMatch PROVE IInv'
<1>. DEFINE c == pass.listed[1]
<1>1. /\ At("search") /\ pass' = [pass EXCEPT !.offset = @ + 1]
      /\ UNCHANGED <<height, verdict, halt, errors, restarts>>
  BY DEF SkipNegative, NoMatch
<1>2. /\ pass.at = "search" /\ Head(pass.listed) = c
      /\ Searched = Recorded[c] + pass.offset
      /\ Recorded[c] \in Nat /\ OnChain[c] \in Nat /\ pass.offset \in SearchStart..SearchEnd
  BY <1>1, Searching
<1>3. pass.offset < SearchEnd
  <2>1. CASE SkipNegative
    <3>1. Recorded[c] + pass.offset < 0
      BY <1>2, <2>1 DEF SkipNegative
    <3>2. pass.offset \in Int /\ SearchEnd \in Nat
      BY <1>2, RestingOK, EthValidatorAssumption DEF SearchEnd
    <3>. HIDE DEF c
    <3>. QED  BY <1>2, <3>1, <3>2
  <2>2. CASE NoMatch
    BY <2>2 DEF NoMatch
  <2>. QED  BY <2>1, <2>2
<1>4. OnChain[c] = 0 \/ OnChain[c] # Recorded[c] + pass.offset
  <2>1. CASE SkipNegative
    <3>1. Recorded[c] + pass.offset < 0
      BY <1>2, <2>1 DEF SkipNegative
    <3>2. OnChain[c] \in Nat
      BY <1>2
    <3>3. pass.offset \in Int /\ Recorded[c] \in Nat
      BY <1>2, RestingOK
    <3>. HIDE DEF c
    <3>. QED  BY <3>1, <3>2, <3>3
  <2>2. CASE NoMatch
    BY <1>2, <2>2 DEF NoMatch, matchCandidate
  <2>. QED  BY <2>1, <2>2
<1>. QED  BY <1>1, <1>2, <1>3, <1>4, SearchGoesOn

\* A block that is found lies below the recorded height plus minDepth, so it is buried.
LEMMA MatchKeeps == ASSUME IInv, Match PROVE IInv'
<1>. DEFINE c == pass.listed[1]
            m == Append(pass.matured, c)
            o == pass.orphaned
<1>1. /\ At("search") /\ pass.offset < SearchEnd /\ matchCandidate(Head(pass.listed))
      /\ pass' = NextCandidate(handleBlock(pass))
      /\ UNCHANGED <<height, verdict, halt, errors, restarts>>
  BY DEF Match
<1>2. /\ pass.at = "search" /\ c \in Candidates /\ Head(pass.listed) = c
      /\ Searched = Recorded[c] + pass.offset /\ Recorded[c] < height - Depth
      /\ Recorded[c] \in Nat /\ OnChain[c] \in Nat /\ pass.offset \in SearchStart..SearchEnd
  BY <1>1, Searching
<1>3. Buried(c)
  <2>1. OnChain[c] # 0 /\ OnChain[c] = Recorded[c] + pass.offset
    BY <1>1, <1>2 DEF matchCandidate
  <2>2. /\ minDepth \in Nat /\ Depth \in Nat /\ Depth >= minDepth * 2
        /\ height \in Nat /\ pass.offset \in Int /\ pass.offset < minDepth
    BY <1>1, <1>2, RestingOK, EthValidatorAssumption DEF IInv, VarsOK, SearchEnd
  <2>. HIDE DEF c
  <2>3. OnChain[c] + minDepth < height
    BY <1>2, <2>1, <2>2
  <2>. QED  BY <2>1, <2>3 DEF Buried
<1>4. /\ pass.matured \in Seq(Candidates) /\ o \in Seq(Candidates)
      /\ \A i \in 1..Len(o) : OutOfWindow(o[i])
      /\ \A i \in 1..Len(pass.matured) : Buried(pass.matured[i])
  BY DEF IInv, PassOK, Passes, SearchInv, FoundBuried, LostOutOfWindow
<1>5. m \in Seq(Candidates) /\ \A i \in 1..Len(m) : Buried(m[i])
  <2>. HIDE DEF c
  <2>1. m \in Seq(Candidates) /\ Len(m) = Len(pass.matured) + 1
        /\ \A i \in 1..Len(m) : m[i] = IF i <= Len(pass.matured) THEN pass.matured[i] ELSE c
    BY <1>2, <1>4
  <2>2. ASSUME NEW i \in 1..Len(m) PROVE Buried(m[i])
    <3>1. CASE i \in 1..Len(pass.matured)
      BY <1>4, <2>1, <3>1
    <3>2. CASE i \notin 1..Len(pass.matured)
      <4>1. m[i] = c
        BY <1>4, <2>1, <3>2
      <4>. QED  BY <1>3, <4>1
    <3>. QED  BY <3>1, <3>2
  <2>. QED  BY <2>1, <2>2
<1>6. handleBlock(pass) = [pass EXCEPT !.orphaned = o, !.matured = m]
  BY <1>2 DEF handleBlock, IInv, PassOK, Passes
<1>. HIDE DEF c, m, o
<1>7. pass' = NextCandidate([pass EXCEPT !.orphaned = o, !.matured = m])
  BY <1>1, <1>6
<1>8. PassOK' /\ SearchInv'
  BY <1>1, <1>2, <1>4, <1>5, <1>7, GoesOn
<1>. QED  BY <1>1, <1>8 DEF IInv, VarsOK, ValidIsBuried

\* A candidate that no height of the window has is out of the window.
LEMMA OrphanedKeeps == ASSUME IInv, Orphaned PROVE IInv'
<1>. DEFINE c == pass.listed[1]
            o == Append(pass.orphaned, c)
            m == pass.matured
<1>1. /\ At("search") /\ pass.offset = SearchEnd
      /\ pass' = NextCandidate([pass EXCEPT !.orphaned = Append(@, Head(pass.listed))])
      /\ UNCHANGED <<height, verdict, halt, errors, restarts>>
  BY DEF Orphaned
<1>2. /\ pass.at = "search" /\ c \in Candidates /\ Head(pass.listed) = c
      /\ Recorded[c] \in Nat /\ OnChain[c] \in Nat
  BY <1>1, Searching
<1>3. OutOfWindow(c)
  <2>1. \A k \in SearchStart..(SearchEnd - 1) :
            OnChain[c] = 0 \/ OnChain[c] # Recorded[c] + k
    BY <1>1, <1>2 DEF IInv, SearchInv, PassedBy
  <2>. HIDE DEF c
  <2>2. minDepth \in Nat /\ SearchStart = -minDepth /\ SearchEnd = minDepth
    BY EthValidatorAssumption DEF SearchStart, SearchEnd
  <2>3. CASE OnChain[c] # 0 /\ OnChain[c] >= Recorded[c] - minDepth
             /\ OnChain[c] < Recorded[c] + minDepth
    <3>. DEFINE k == OnChain[c] - Recorded[c]
    <3>1. k \in SearchStart..(SearchEnd - 1) /\ OnChain[c] = Recorded[c] + k
      BY <1>2, <2>2, <2>3
    <3>. QED  BY <2>1, <2>3, <3>1
  <2>. QED  BY <1>2, <2>2, <2>3 DEF OutOfWindow
<1>4. /\ pass.orphaned \in Seq(Candidates) /\ m \in Seq(Candidates)
      /\ \A i \in 1..Len(pass.orphaned) : OutOfWindow(pass.orphaned[i])
      /\ \A i \in 1..Len(m) : Buried(m[i])
  BY DEF IInv, PassOK, Passes, SearchInv, FoundBuried, LostOutOfWindow
<1>5. o \in Seq(Candidates) /\ \A i \in 1..Len(o) : OutOfWindow(o[i])
  <2>. HIDE DEF c
  <2>1. o \in Seq(Candidates) /\ Len(o) = Len(pass.orphaned) + 1
        /\ \A i \in 1..Len(o) : o[i] = IF i <= Len(pass.orphaned) THEN pass.orphaned[i] ELSE c
    BY <1>2, <1>4
  <2>2. ASSUME NEW i \in 1..Len(o) PROVE OutOfWindow(o[i])
    <3>1. CASE i \in 1..Len(pass.orphaned)
      BY <1>4, <2>1, <3>1
    <3>2. CASE i \notin 1..Len(pass.orphaned)
      <4>1. o[i] = c
        BY <1>4, <2>1, <3>2
      <4>. QED  BY <1>3, <4>1
    <3>. QED  BY <3>1, <3>2
  <2>. QED  BY <2>1, <2>2
<1>6. [pass EXCEPT !.orphaned = Append(@, Head(pass.listed))]
          = [pass EXCEPT !.orphaned = o, !.matured = m]
  BY <1>2 DEF IInv, PassOK, Passes
<1>. HIDE DEF c, m, o
<1>7. pass' = NextCandidate([pass EXCEPT !.orphaned = o, !.matured = m])
  BY <1>1, <1>6
<1>8. PassOK' /\ SearchInv'
  BY <1>1, <1>2, <1>4, <1>5, <1>7, GoesOn
<1>. QED  BY <1>1, <1>8 DEF IInv, VarsOK, ValidIsBuried

\* Only blocks found buried are reported.
LEMMA ReportKeeps == ASSUME IInv, ReportMatured PROVE IInv'
<1>. DEFINE m == pass.matured
<1>1. /\ pass.at = "report" /\ m # << >> /\ m \in Seq(Candidates)
      /\ verdict' = [verdict EXCEPT ![Head(m)] = "yes"]
      /\ pass' = [pass EXCEPT !.matured = Tail(m)]
      /\ UNCHANGED <<height, halt, errors, restarts>>
  BY DEF ReportMatured, At, IInv, PassOK, Passes
<1>2. /\ Head(m) = m[1] /\ 1 \in 1..Len(m) /\ m[1] \in Candidates
      /\ Tail(m) \in Seq(Candidates) /\ Len(Tail(m)) = Len(m) - 1 /\ Len(m) \in Nat
      /\ \A i \in 1..Len(Tail(m)) : Tail(m)[i] = m[i + 1]
  BY <1>1, HeadTailProperties, EmptySeq
<1>3. \A i \in 1..Len(m) : Buried(m[i])
  BY DEF IInv, SearchInv, FoundBuried
<1>4. /\ pass'.at = "report" /\ pass'.listed = pass.listed /\ pass'.matured = Tail(m)
      /\ pass'.orphaned = pass.orphaned /\ pass' \in Passes
  BY <1>1, <1>2 DEF IInv, PassOK, Passes
<1>. HIDE DEF m
<1>5. FoundBuried'
  <2>1. ASSUME NEW i \in 1..Len(Tail(m)) PROVE Buried(Tail(m)[i])
    <3>1. i + 1 \in 1..Len(m) /\ Tail(m)[i] = m[i + 1]
      BY <1>2
    <3>. QED  BY <1>3, <3>1
  <2>. QED  BY <1>1, <1>4, <2>1 DEF FoundBuried, Buried
<1>6. SearchInv' /\ PassOK'
  BY <1>1, <1>4, <1>5 DEF IInv, PassOK, SearchInv, ListedDeep, PassedBy, LostOutOfWindow, OutOfWindow
<1>7. ValidIsBuried'
  <2>1. ASSUME NEW c \in Candidates, verdict'[c] = "yes"
        PROVE  OnChain[c] # 0 /\ OnChain[c] + minDepth < height'
    <3>1. CASE c = m[1]
      BY <1>1, <1>2, <1>3, <3>1 DEF Buried
    <3>2. CASE c # m[1]
      <4>1. verdict[c] = "yes"
        BY <1>1, <1>2, <2>1, <3>2 DEF IInv, VarsOK
      <4>. QED  BY <1>1, <4>1 DEF IInv, ValidIsBuried
    <3>. QED  BY <3>1, <3>2
  <2>. QED  BY <2>1 DEF ValidIsBuried
<1>8. VarsOK'
  BY <1>1, <1>2 DEF IInv, VarsOK
<1>. QED  BY <1>6, <1>7, <1>8 DEF IInv

\* Errors, deaths and the end of a pass rest, and the chain only grows.
LEMMA RestKeeps ==
    ASSUME IInv, Fail \/ ReportOrphan \/ Rest \/ Restart \/ NewBlock
    PROVE  IInv'
<1>1. VarsOK'
  <2>1. MaxErrors \in Nat /\ MaxRestarts \in Nat /\ MaxHeight \in Nat
    BY EthValidatorAssumption
  <2>2. CASE Fail
    BY <2>1, <2>2 DEF IInv, VarsOK, Fail
  <2>3. CASE ReportOrphan \/ Rest
    BY <2>3 DEF IInv, VarsOK, ReportOrphan, Rest
  <2>4. CASE Restart
    <3>1. restarts' \in 0..MaxRestarts /\ UNCHANGED <<height, verdict, errors>>
      BY <2>1, <2>4 DEF IInv, VarsOK, Restart
    <3>2. halt' \in BOOLEAN
      BY <2>4 DEF Restart
    <3>. QED  BY <3>1, <3>2 DEF IInv, VarsOK
  <2>5. CASE NewBlock
    <3>1. height' \in 1..MaxHeight
      BY <2>1, <2>5 DEF IInv, VarsOK, NewBlock
    <3>. QED  BY <2>5, <3>1 DEF IInv, VarsOK, NewBlock
  <2>. QED  BY <2>2, <2>3, <2>4, <2>5
<1>2. CASE Fail \/ ReportOrphan \/ Rest \/ Restart
  <2>1. pass' = Resting /\ UNCHANGED <<height, verdict>>
    BY <1>2 DEF Fail, ReportOrphan, Rest, Restart
  <2>2. PassOK' /\ SearchInv'
    BY <2>1, Rests
  <2>. QED  BY <1>1, <2>1, <2>2 DEF IInv, ValidIsBuried
<1>3. CASE NewBlock
  <2>1. /\ height' \in Nat /\ height' >= height /\ UNCHANGED <<pass, verdict>>
    BY <1>3 DEF NewBlock, IInv, VarsOK
  <2>2. PassOK' /\ SearchInv' /\ \A c \in Candidates : Buried(c) => Buried(c)'
    BY <2>1, TallerChain
  <2>3. ValidIsBuried'
    BY <2>1, <2>2 DEF IInv, ValidIsBuried, Buried
  <2>. QED  BY <1>1, <2>2, <2>3 DEF IInv
<1>. QED  BY <1>2, <1>3

\* Every step keeps the invariant.
LEMMA NextIInv == IInv /\ [Next]_vars => IInv'
<1>. SUFFICES ASSUME IInv, [Next]_vars PROVE IInv'
  OBVIOUS
<1>1. CASE Wake
  BY <1>1, WakeKeeps
<1>2. CASE SkipNegative \/ NoMatch
  BY <1>2, PassByKeeps
<1>3. CASE Match
  BY <1>3, MatchKeeps
<1>4. CASE Orphaned
  BY <1>4, OrphanedKeeps
<1>5. CASE ReportMatured
  BY <1>5, ReportKeeps
<1>6. CASE Fail \/ ReportOrphan \/ Rest \/ Restart \/ NewBlock
  BY <1>6, RestKeeps
<1>7. CASE UNCHANGED vars
  BY <1>7 DEF vars, IInv, VarsOK, PassOK, SearchInv, ListedDeep, PassedBy, FoundBuried,
              LostOutOfWindow, Buried, OutOfWindow, ValidIsBuried
<1>. QED  BY <1>1, <1>2, <1>3, <1>4, <1>5, <1>6, <1>7 DEF Next, Step

\* The validator's variables hold what the code may put there.
THEOREM TypeCorrect == Spec => []TypeOK
<1>1. IInv => TypeOK
  <2>. SUFFICES ASSUME IInv PROVE TypeOK
    OBVIOUS
  <2>1. /\ pass.listed \in Seq(Candidates) /\ pass.orphaned \in Seq(Candidates)
        /\ pass.matured \in Seq(Candidates)
    BY DEF IInv, PassOK, Passes
  <2>2. \A s \in Seq(Candidates) : ToSet(s) \subseteq Candidates
    BY DEF ToSet
  <2>3. UNION {ToSet(pass.listed), ToSet(pass.orphaned), ToSet(pass.matured)}
            \subseteq Candidates
    BY <2>1, <2>2
  <2>. QED  BY <2>3 DEF IInv, VarsOK, PassOK, Passes, TypeOK
<1>. QED  BY InitIInv, NextIInv, <1>1, PTL DEF Spec

\* No block is paid that is not on the chain with minDepth blocks above it, however
\* far its real height is from the recorded one (handleBlock, validator.go).
THEOREM NoShallowVerdict == Spec => []ValidIsBuried
<1>1. IInv => ValidIsBuried
  BY DEF IInv
<1>. QED  BY InitIInv, NextIInv, <1>1, PTL DEF Spec

\* No block inside the window is taken for lost, in any pass, whatever was listed
\* before it (validatePendingBlocks, validator.go).
THEOREM NoneLostInWindow == Spec => []OrphansOutOfWindow
<1>1. IInv => OrphansOutOfWindow
  <2>. SUFFICES ASSUME IInv, NEW c \in ToSet(pass.orphaned) PROVE OutOfWindow(c)
    BY DEF OrphansOutOfWindow
  <2>1. pass.orphaned \in Seq(Candidates)
    BY DEF IInv, PassOK, Passes
  <2>2. PICK i \in 1..Len(pass.orphaned) : c = pass.orphaned[i]
    BY <2>1 DEF ToSet
  <2>. QED  BY <2>2 DEF IInv, SearchInv, LostOutOfWindow
<1>. QED  BY InitIInv, NextIInv, <1>1, PTL DEF Spec
=================================================================================
