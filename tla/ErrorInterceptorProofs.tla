------------------------ MODULE ErrorInterceptorProofs ------------------------
(***************************************************************************)
(* What the error interceptor tells the client and the log, for any RPCs,  *)
(* responses, errors and number of sends.  First the lists of details: how *)
(* taking the DebugInfos out and adding an ErrorInfo combine.  Then what   *)
(* becomes of one response.  Then the invariants, action by action.        *)
(***************************************************************************)
EXTENDS ErrorInterceptor, SelectionProofs, FiniteSetTheorems

----------------------------------------------------------------------------
(* Lists.                                                                  *)

LEMMA SeqIsList ==
  ASSUME NEW S, NEW s \in Seq(S)
  PROVE  IsList(s)
  BY SeqOfItsElements DEF IsList

LEMMA EmptyIsList == IsList(<<>>) /\ ToSet(<<>>) = {}
<1>1. <<>> \in Seq({})
  OBVIOUS
<1>2. IsList(<<>>)
  BY <1>1, SeqIsList
<1>3. ToSet(<<>>) = {}
  BY DEF ToSet
<1> QED
  BY <1>2, <1>3

LEMMA ListConcat ==
  ASSUME NEW s, NEW t, IsList(s), IsList(t)
  PROVE  IsList(s \o t) /\ ToSet(s \o t) = ToSet(s) \cup ToSet(t)
<1> DEFINE S == ToSet(s) \cup ToSet(t)
<1>1. s \in Seq(S) /\ t \in Seq(S)
  BY DEF IsList
<1> HIDE DEF S
<1>2. s \o t \in Seq(S)
  BY <1>1
<1>3. ASSUME NEW x \in ToSet(s) PROVE x \in ToSet(s \o t)
  <2>1. PICK i \in DOMAIN s : s[i] = x
    BY DEF ToSet
  <2>2. i \in DOMAIN (s \o t) /\ (s \o t)[i] = x
    BY <1>1, <2>1
  <2> QED
    BY <2>2 DEF ToSet
<1>4. ASSUME NEW x \in ToSet(t) PROVE x \in ToSet(s \o t)
  <2>1. PICK i \in DOMAIN t : t[i] = x
    BY DEF ToSet
  <2>2. Len(s) + i \in DOMAIN (s \o t) /\ (s \o t)[Len(s) + i] = x
    BY <1>1, <2>1
  <2> QED
    BY <2>2 DEF ToSet
<1>5. ASSUME NEW x \in ToSet(s \o t) PROVE x \in ToSet(s) \cup ToSet(t)
  <2>1. PICK i \in DOMAIN (s \o t) : (s \o t)[i] = x
    BY DEF ToSet
  <2>2. CASE i \in 1 .. Len(s)
    BY <1>1, <2>1, <2>2 DEF ToSet
  <2>3. CASE i \notin 1 .. Len(s)
    <3>1. i - Len(s) \in DOMAIN t /\ t[i - Len(s)] = x
      BY <1>1, <2>1, <2>3
    <3> QED
      BY <3>1 DEF ToSet
  <2> QED
    BY <2>2, <2>3
<1> QED
  BY <1>2, <1>3, <1>4, <1>5, SeqIsList

LEMMA ListSelected ==
  ASSUME NEW s, IsList(s), NEW T
  PROVE  IsList(Selected(s, T)) /\ ToSet(Selected(s, T)) = ToSet(s) \cap T
<1>1. s \in Seq(ToSet(s))
  BY DEF IsList
<1>2. Selected(s, T) \in Seq(ToSet(s))
  BY <1>1, SelectedType
<1>3. ToSet(Selected(s, T)) = ToSet(s) \cap T
  BY <1>1, SelectedElements
<1> QED
  BY <1>2, <1>3, SeqIsList

\* A list with nothing in it is empty.
LEMMA EmptyList ==
  ASSUME NEW s, IsList(s)
  PROVE  s = <<>> <=> ToSet(s) = {}
<1>1. s \in Seq(ToSet(s))
  BY DEF IsList
<1>2. ASSUME ToSet(s) = {} PROVE s = <<>>
  <2>1. Len(s) = 0
    BY <1>1, <1>2 DEF ToSet
  <2> QED
    BY <1>1, <2>1, EmptySeq
<1> QED
  BY <1>2, EmptyIsList

\* To keep an element is to keep each of two lists' that the test passes.
LEMMA ListSelectedSame ==
  ASSUME NEW s, IsList(s), NEW T, NEW U, \A x \in ToSet(s) : x \in T <=> x \in U
  PROVE  Selected(s, T) = Selected(s, U)
<1>1. s \in Seq(ToSet(s)) /\ ToSet(s) \cap T = ToSet(s) \cap U
  BY DEF IsList
<1> QED
  BY <1>1, SelectedSame

LEMMA ListSelectedAll ==
  ASSUME NEW s, IsList(s), NEW T, ToSet(s) \subseteq T
  PROVE  Selected(s, T) = s
<1>1. s \in Seq(ToSet(s))
  BY DEF IsList
<1> QED
  BY <1>1, SelectedAll

LEMMA ListSelectedTwice ==
  ASSUME NEW s, IsList(s), NEW T, NEW U, NEW V, \A x \in ToSet(s) : x \in V <=> x \in T /\ x \in U
  PROVE  Selected(Selected(s, T), U) = Selected(s, V)
<1>1. s \in Seq(ToSet(s))
  BY DEF IsList
<1>2. Selected(Selected(s, T), U) = Selected(s, T \cap U)
  BY <1>1, SelectedTwice
<1>3. Selected(s, T \cap U) = Selected(s, V)
  BY ListSelectedSame
<1> QED
  BY <1>2, <1>3

LEMMA ListSelectedConcat ==
  ASSUME NEW s, NEW t, IsList(s), IsList(t), NEW T
  PROVE  Selected(s \o t, T) = Selected(s, T) \o Selected(t, T)
<1> DEFINE S == ToSet(s) \cup ToSet(t)
<1>1. s \in Seq(S) /\ t \in Seq(S)
  BY DEF IsList
<1> HIDE DEF S
<1> QED
  BY <1>1, SelectedConcat

----------------------------------------------------------------------------
(* Details.                                                                *)

HasInfo(details) == \E i \in DOMAIN details : details[i].type = "ErrorInfo"

\* The three loops over the details, as far as a reader of their results can tell.
LEMMA FilteredDetails ==
  ASSUME NEW d, IsList(d)
  PROVE  /\ IsList(DebugInfos(d)) /\ ToSet(DebugInfos(d)) = {x \in ToSet(d) : IsReadable(x)}
         /\ IsList(WithoutReadable(d)) /\ ToSet(WithoutReadable(d)) = {x \in ToSet(d) : ~IsReadable(x)}
         /\ IsList(WithoutDebugInfo(d)) /\ ToSet(WithoutDebugInfo(d)) = {x \in ToSet(d) : ~IsDebugInfo(x)}
<1>1. IsList(DebugInfos(d)) /\ ToSet(DebugInfos(d)) = {x \in ToSet(d) : IsReadable(x)}
  BY ListSelected DEF DebugInfos
<1>2. IsList(WithoutReadable(d)) /\ ToSet(WithoutReadable(d)) = {x \in ToSet(d) : ~IsReadable(x)}
  BY ListSelected DEF WithoutReadable
<1>3. IsList(WithoutDebugInfo(d)) /\ ToSet(WithoutDebugInfo(d)) = {x \in ToSet(d) : ~IsDebugInfo(x)}
  BY ListSelected DEF WithoutDebugInfo
<1> QED
  BY <1>1, <1>2, <1>3

LEMMA InfoIsNoDebugInfo ==
  ASSUME NEW x, x.type = "ErrorInfo"
  PROVE  ~IsDebugInfo(x) /\ ~IsReadable(x)
  BY DEF IsDebugInfo, IsReadable

\* None of the loops takes an ErrorInfo out.
LEMMA FiltersKeepInfo ==
  ASSUME NEW d, IsList(d)
  PROVE  /\ HasInfo(WithoutReadable(d)) <=> HasInfo(d)
         /\ HasInfo(WithoutDebugInfo(d)) <=> HasInfo(d)
<1>1. \A s : HasInfo(s) <=> \E x \in ToSet(s) : x.type = "ErrorInfo"
  BY DEF HasInfo, ToSet
<1> QED
  BY <1>1, FilteredDetails, InfoIsNoDebugInfo

LEMMA DefaultDetails ==
  /\ IsList(defaultErrorInfo) /\ IsList(requestInfo)
  /\ \A x \in ToSet(defaultErrorInfo) : x.type = "ErrorInfo" /\ x.by = "interceptor" /\ ~IsDebugInfo(x)
  /\ \A x \in ToSet(requestInfo) : x.type = "RequestInfo" /\ ~IsDebugInfo(x)
  /\ DefaultInfo => defaultErrorInfo = <<Detail("ErrorInfo", "interceptor")>>
  /\ ~DefaultInfo => defaultErrorInfo = <<>>
<1>1. ASSUME NEW x PROVE IsList(<<x>>) /\ ToSet(<<x>>) = {x}
  <2>1. <<x>> \in Seq({x})
    OBVIOUS
  <2>2. IsList(<<x>>)
    BY <2>1, SeqIsList
  <2>3. DOMAIN <<x>> = {1} /\ <<x>>[1] = x
    OBVIOUS
  <2>4. ToSet(<<x>>) = {x}
    BY <2>3 DEF ToSet
  <2> QED
    BY <2>2, <2>4
<1> QED
  BY <1>1, EmptyIsList DEF defaultErrorInfo, requestInfo, Detail, IsDebugInfo

\* The details of an error, with the ErrorInfo they lack.
LEMMA WithDefaultDetails ==
  ASSUME NEW d, IsList(d)
  PROVE  /\ IsList(WithDefaultInfo(d))
         /\ HasInfo(d) => WithDefaultInfo(d) = d
         /\ ~HasInfo(d) => WithDefaultInfo(d) = defaultErrorInfo \o d
         /\ ToSet(d) \subseteq ToSet(WithDefaultInfo(d))
         /\ \A x \in ToSet(WithDefaultInfo(d)) :
              x \in ToSet(d) \/ (x.type = "ErrorInfo" /\ x.by = "interceptor" /\ ~IsDebugInfo(x))
<1>1. CASE HasInfo(d)
  BY <1>1 DEF HasInfo, WithDefaultInfo
<1>2. CASE ~HasInfo(d)
  <2>1. WithDefaultInfo(d) = defaultErrorInfo \o d
    BY <1>2 DEF HasInfo, WithDefaultInfo
  <2>2. IsList(defaultErrorInfo \o d) /\ ToSet(defaultErrorInfo \o d) = ToSet(defaultErrorInfo) \cup ToSet(d)
    BY DefaultDetails, ListConcat
  <2> QED
    BY <1>2, <2>1, <2>2, DefaultDetails
<1> QED
  BY <1>1, <1>2

LEMMA WithDefaultInfoTwice ==
  ASSUME NEW d, IsList(d)
  PROVE  WithDefaultInfo(WithDefaultInfo(d)) = WithDefaultInfo(d)
<1>1. CASE HasInfo(d)
  BY <1>1, WithDefaultDetails
<1>2. CASE ~HasInfo(d) /\ DefaultInfo
  <2>1. WithDefaultInfo(d) = <<Detail("ErrorInfo", "interceptor")>> \o d
    BY <1>2, WithDefaultDetails, DefaultDetails
  <2>2. d \in Seq(ToSet(d))
    BY DEF IsList
  <2>3. 1 \in DOMAIN WithDefaultInfo(d) /\ WithDefaultInfo(d)[1] = Detail("ErrorInfo", "interceptor")
    BY <2>1, <2>2
  <2>4. HasInfo(WithDefaultInfo(d))
    BY <2>3 DEF HasInfo, Detail
  <2> QED
    BY <2>4, WithDefaultDetails
<1>3. CASE ~HasInfo(d) /\ ~DefaultInfo
  <2>1. WithDefaultInfo(d) = <<>> \o d
    BY <1>3, WithDefaultDetails, DefaultDetails
  <2>2. <<>> \o d = d
    BY DEF IsList
  <2> QED
    BY <2>1, <2>2
<1> QED
  BY <1>1, <1>2, <1>3

\* Nothing to take out: nothing is.
LEMMA NothingReadable ==
  ASSUME NEW d, IsList(d), \A x \in ToSet(d) : ~IsReadable(x)
  PROVE  WithoutReadable(d) = d /\ DebugInfos(d) = <<>>
<1>1. WithoutReadable(d) = d
  BY ListSelectedAll DEF WithoutReadable
<1>2. IsList(DebugInfos(d)) /\ ToSet(DebugInfos(d)) = {}
  BY FilteredDetails
<1>3. DebugInfos(d) = <<>>
  BY <1>2, EmptyList
<1> QED
  BY <1>1, <1>3

\* The details an entry is left with, and that they stay as they are.
LEMMA StrippedDetails ==
  ASSUME NEW d, IsList(d)
  PROVE  LET left == WithDefaultInfo(WithoutReadable(d))
         IN /\ IsList(left)
            /\ \A x \in ToSet(left) : ~IsReadable(x)
            /\ DebugInfos(left) = <<>>
            /\ WithDefaultInfo(WithoutReadable(left)) = left
<1> DEFINE kept == WithoutReadable(d)
           left == WithDefaultInfo(kept)
<1>1. IsList(kept) /\ \A x \in ToSet(kept) : ~IsReadable(x)
  BY FilteredDetails
<1> HIDE DEF kept
<1>2. IsList(left) /\ \A x \in ToSet(left) : ~IsReadable(x)
  BY <1>1, WithDefaultDetails DEF IsReadable
<1>3. WithoutReadable(left) = left /\ DebugInfos(left) = <<>>
  BY <1>2, NothingReadable
<1>4. WithDefaultInfo(left) = left
  BY <1>1, WithDefaultInfoTwice
<1> QED
  BY <1>2, <1>3, <1>4 DEF kept

LEMMA FilterConcat ==
  ASSUME NEW s, NEW t, IsList(s), IsList(t)
  PROVE  /\ WithoutDebugInfo(s \o t) = WithoutDebugInfo(s) \o WithoutDebugInfo(t)
         /\ RestOf(s \o t) = RestOf(s) \o RestOf(t)
<1> DEFINE T == {x \in ToSet(s \o t) : ~IsDebugInfo(x)}
           U == {x \in ToSet(s \o t) : x.by # "interceptor" /\ ~IsDebugInfo(x)}
<1>1. ToSet(s \o t) = ToSet(s) \cup ToSet(t)
  BY ListConcat
<1>2. WithoutDebugInfo(s) = Selected(s, T) /\ WithoutDebugInfo(t) = Selected(t, T)
  <2>1. \A x \in ToSet(s) : x \in {y \in ToSet(s) : ~IsDebugInfo(y)} <=> x \in T
    BY <1>1
  <2>2. \A x \in ToSet(t) : x \in {y \in ToSet(t) : ~IsDebugInfo(y)} <=> x \in T
    BY <1>1
  <2> HIDE DEF T
  <2> QED
    BY <2>1, <2>2, ListSelectedSame DEF WithoutDebugInfo
<1>3. RestOf(s) = Selected(s, U) /\ RestOf(t) = Selected(t, U)
  <2>1. \A x \in ToSet(s) : x \in {y \in ToSet(s) : y.by # "interceptor" /\ ~IsDebugInfo(y)} <=> x \in U
    BY <1>1
  <2>2. \A x \in ToSet(t) : x \in {y \in ToSet(t) : y.by # "interceptor" /\ ~IsDebugInfo(y)} <=> x \in U
    BY <1>1
  <2> HIDE DEF U
  <2> QED
    BY <2>1, <2>2, ListSelectedSame DEF RestOf
<1>4. WithoutDebugInfo(s \o t) = Selected(s \o t, T) /\ RestOf(s \o t) = Selected(s \o t, U)
  BY DEF WithoutDebugInfo, RestOf
<1> HIDE DEF T, U
<1>5. Selected(s \o t, T) = Selected(s, T) \o Selected(t, T)
  BY ListSelectedConcat
<1>6. Selected(s \o t, U) = Selected(s, U) \o Selected(t, U)
  BY ListSelectedConcat
<1> QED
  BY <1>2, <1>3, <1>4, <1>5, <1>6

\* An entry stripped and then relieved of what cannot be read is what an answer
\* with its details would be.
LEMMA StrippedAsAnswered ==
  ASSUME NEW d, IsList(d)
  PROVE  WithoutDebugInfo(WithDefaultInfo(WithoutReadable(d))) = WithDefaultInfo(WithoutDebugInfo(d))
<1> DEFINE kept == WithoutReadable(d)
<1>1. IsList(kept)
  BY FilteredDetails
<1>2. WithoutDebugInfo(kept) = WithoutDebugInfo(d)
  <2>1. ToSet(kept) = {x \in ToSet(d) : ~IsReadable(x)}
    BY FilteredDetails
  <2>2. \A x \in ToSet(d) : x \in {y \in ToSet(d) : ~IsDebugInfo(y)}
          <=> x \in {y \in ToSet(d) : ~IsReadable(y)} /\ x \in {y \in ToSet(kept) : ~IsDebugInfo(y)}
    BY <2>1 DEF IsReadable
  <2>3. Selected(kept, {y \in ToSet(kept) : ~IsDebugInfo(y)}) = Selected(d, {y \in ToSet(d) : ~IsDebugInfo(y)})
    BY <2>2, ListSelectedTwice DEF WithoutReadable
  <2> QED
    BY <2>3 DEF WithoutDebugInfo
<1>3. IsList(WithoutDebugInfo(d)) /\ IsList(defaultErrorInfo)
  BY FilteredDetails, DefaultDetails
<1>4. CASE HasInfo(d)
  <2>1. HasInfo(kept) /\ HasInfo(WithoutDebugInfo(d))
    BY <1>4, FiltersKeepInfo
  <2> HIDE DEF kept
  <2>2. WithDefaultInfo(kept) = kept /\ WithDefaultInfo(WithoutDebugInfo(d)) = WithoutDebugInfo(d)
    BY <1>1, <1>3, <2>1, WithDefaultDetails
  <2> QED
    BY <1>2, <2>2 DEF kept
<1>5. CASE ~HasInfo(d)
  <2>1. ~HasInfo(kept) /\ ~HasInfo(WithoutDebugInfo(d))
    BY <1>5, FiltersKeepInfo
  <2> HIDE DEF kept
  <2>2. WithDefaultInfo(kept) = defaultErrorInfo \o kept
    BY <1>1, <2>1, WithDefaultDetails
  <2>3. WithDefaultInfo(WithoutDebugInfo(d)) = defaultErrorInfo \o WithoutDebugInfo(d)
    BY <1>3, <2>1, WithDefaultDetails
  <2>4. WithoutDebugInfo(defaultErrorInfo \o kept) = WithoutDebugInfo(defaultErrorInfo) \o WithoutDebugInfo(kept)
    BY <1>1, <1>3, FilterConcat
  <2>5. WithoutDebugInfo(defaultErrorInfo) = defaultErrorInfo
    BY <1>3, DefaultDetails, ListSelectedAll DEF WithoutDebugInfo
  <2> QED
    BY <1>2, <2>2, <2>3, <2>4, <2>5 DEF kept
<1> QED
  BY <1>4, <1>5

\* What is no DebugInfo of an entry, and not the interceptor's, is left alone.
LEMMA StrippedKeepsTheRest ==
  ASSUME NEW d, IsList(d)
  PROVE  RestOf(WithDefaultInfo(WithoutReadable(d))) = RestOf(d)
<1> DEFINE kept == WithoutReadable(d)
<1>1. IsList(kept) /\ ToSet(kept) = {x \in ToSet(d) : ~IsReadable(x)}
  BY FilteredDetails
<1>2. RestOf(kept) = RestOf(d)
  <2> DEFINE T == {y \in ToSet(d) : ~IsReadable(y)}
             U == {y \in ToSet(kept) : y.by # "interceptor" /\ ~IsDebugInfo(y)}
             V == {y \in ToSet(d) : y.by # "interceptor" /\ ~IsDebugInfo(y)}
  <2>1. \A x \in ToSet(d) : x \in V <=> x \in T /\ x \in U
    BY <1>1 DEF IsReadable
  <2>2. kept = Selected(d, T) /\ RestOf(d) = Selected(d, V) /\ RestOf(kept) = Selected(kept, U)
    BY DEF WithoutReadable, RestOf
  <2> HIDE DEF T, U, V, kept
  <2>3. Selected(Selected(d, T), U) = Selected(d, V)
    BY <2>1, ListSelectedTwice
  <2> QED
    BY <2>2, <2>3
<1> HIDE DEF kept
<1>3. CASE HasInfo(kept)
  BY <1>1, <1>2, <1>3, WithDefaultDetails DEF kept
<1>4. CASE ~HasInfo(kept)
  <2>1. WithDefaultInfo(kept) = defaultErrorInfo \o kept
    BY <1>1, <1>4, WithDefaultDetails
  <2>2. RestOf(defaultErrorInfo \o kept) = RestOf(defaultErrorInfo) \o RestOf(kept)
    BY <1>1, DefaultDetails, FilterConcat
  <2>3. RestOf(defaultErrorInfo) = <<>>
    <3>1. IsList(RestOf(defaultErrorInfo)) /\ ToSet(RestOf(defaultErrorInfo)) = {}
      BY DefaultDetails, ListSelected DEF RestOf
    <3> QED
      BY <3>1, EmptyList
  <2>4. <<>> \o RestOf(kept) = RestOf(kept)
    <3>1. IsList(RestOf(kept))
      BY <1>1, ListSelected DEF RestOf
    <3> QED
      BY <3>1 DEF IsList
  <2> QED
    BY <1>2, <2>1, <2>2, <2>3, <2>4 DEF kept
<1> QED
  BY <1>3, <1>4

\* Selecting from a list leaves it at most one ErrorInfo, if it has no more.
LEMMA SelectedHasOneInfoAtMost ==
  ASSUME NEW d, IsList(d), HasOneInfoAtMost(d), NEW T
  PROVE  HasOneInfoAtMost(Selected(d, T))
<1> DEFINE S == ToSet(d)
           P == {r \in Seq(S) : HasOneInfoAtMost(r) => HasOneInfoAtMost(Selected(r, T))}
<1>1. <<>> \in P
  BY SelectedEmpty
<1>2. ASSUME NEW r \in Seq(S), NEW x \in S, r \in P PROVE Append(r, x) \in P
  <2>1. SUFFICES ASSUME HasOneInfoAtMost(Append(r, x)) PROVE HasOneInfoAtMost(Selected(Append(r, x), T))
    OBVIOUS
  <2>2. Selected(Append(r, x), T) = IF x \in T THEN Append(Selected(r, T), x) ELSE Selected(r, T)
    BY SelectedAppend
  <2>3. \A i, j \in DOMAIN r : r[i].type = "ErrorInfo" /\ r[j].type = "ErrorInfo" => i = j
    BY <2>1 DEF HasOneInfoAtMost, InfosOf
  <2>4. HasOneInfoAtMost(r)
    BY <2>3 DEF HasOneInfoAtMost, InfosOf
  <2>5. HasOneInfoAtMost(Selected(r, T)) /\ Selected(r, T) \in Seq(S)
    BY <1>2, <2>4, SelectedType
  <2>6. ASSUME x \in T, x.type = "ErrorInfo" PROVE ~HasInfo(Selected(r, T))
    <3>1. ASSUME NEW i \in DOMAIN r, r[i].type = "ErrorInfo" PROVE FALSE
      <4>1. i \in InfosOf(Append(r, x)) /\ Len(r) + 1 \in InfosOf(Append(r, x))
        BY <2>6, <3>1 DEF InfosOf
      <4>2. i # Len(r) + 1
        OBVIOUS
      <4> QED
        BY <2>1, <4>1, <4>2 DEF HasOneInfoAtMost
    <3>2. ToSet(Selected(r, T)) = ToSet(r) \cap T
      BY SelectedElements
    <3>3. \A y \in ToSet(r) : y.type # "ErrorInfo"
      BY <3>1 DEF ToSet
    <3>4. \A y \in ToSet(Selected(r, T)) : y.type # "ErrorInfo"
      BY <3>2, <3>3
    <3> QED
      BY <3>4 DEF HasInfo, ToSet
  <2>7. CASE x \in T
    <3> DEFINE s == Selected(r, T)
    <3>1. s \in Seq(S) /\ HasOneInfoAtMost(s) /\ (x.type = "ErrorInfo" => ~HasInfo(s))
      BY <2>5, <2>6, <2>7
    <3> HIDE DEF s
    <3>2. ASSUME NEW i \in InfosOf(Append(s, x)), NEW j \in InfosOf(Append(s, x)) PROVE i = j
      BY <3>1, <3>2 DEF HasOneInfoAtMost, InfosOf, HasInfo
    <3>3. HasOneInfoAtMost(Append(s, x))
      BY <3>2 DEF HasOneInfoAtMost
    <3> QED
      BY <2>2, <2>7, <3>3 DEF s
  <2>8. CASE x \notin T
    BY <2>2, <2>5, <2>8
  <2> QED
    BY <2>7, <2>8
<1> HIDE DEF P
<1>3. Seq(S) \subseteq P
  BY <1>1, <1>2, SeqSetInduction
<1>4. d \in P
  BY <1>3 DEF IsList
<1> QED
  BY <1>4 DEF P

\* With a domain to name, an error has exactly one ErrorInfo.
LEMMA ExactlyOneInfo ==
  ASSUME NEW d, IsList(d), HasOneInfoAtMost(d), DefaultInfo
  PROVE  /\ Cardinality(InfosOf(WithDefaultInfo(d))) = 1
         /\ Cardinality(InfosOf(WithDefaultInfo(d) \o requestInfo)) = 1
<1> DEFINE e == WithDefaultInfo(d)
<1>1. \E k \in DOMAIN e : InfosOf(e) = {k}
  <2>1. CASE HasInfo(d)
    <3>1. e = d
      BY <2>1, WithDefaultDetails
    <3>2. PICK k \in DOMAIN d : d[k].type = "ErrorInfo"
      BY <2>1 DEF HasInfo
    <3>3. InfosOf(d) = {k}
      BY <3>2 DEF HasOneInfoAtMost, InfosOf
    <3> QED
      BY <3>1, <3>3
  <2>2. CASE ~HasInfo(d)
    <3>1. e = <<Detail("ErrorInfo", "interceptor")>> \o d
      BY <2>2, WithDefaultDetails, DefaultDetails
    <3>2. d \in Seq(ToSet(d))
      BY DEF IsList
    <3> HIDE DEF e
    <3>3. 1 \in DOMAIN e /\ e[1] = Detail("ErrorInfo", "interceptor")
      BY <3>1, <3>2
    <3>4. ASSUME NEW i \in DOMAIN e, i # 1 PROVE e[i].type # "ErrorInfo"
      <4>1. i - 1 \in DOMAIN d /\ e[i] = d[i - 1]
        BY <3>1, <3>2, <3>4
      <4> QED
        BY <2>2, <4>1 DEF HasInfo
    <3>5. InfosOf(e) = {1}
      BY <3>3, <3>4 DEF InfosOf, Detail
    <3> QED
      BY <3>3, <3>5
  <2> QED
    BY <2>1, <2>2
<1>2. IsList(e) /\ IsList(requestInfo)
  BY WithDefaultDetails, DefaultDetails
<1> HIDE DEF e
<1>3. InfosOf(e \o requestInfo) = InfosOf(e)
  <2>1. e \in Seq(ToSet(e)) /\ requestInfo \in Seq(ToSet(requestInfo))
    BY <1>2 DEF IsList
  <2>2. \A i \in DOMAIN e : i \in DOMAIN (e \o requestInfo) /\ (e \o requestInfo)[i] = e[i]
    BY <2>1
  <2>3. ASSUME NEW i \in DOMAIN (e \o requestInfo), i \notin DOMAIN e
        PROVE  (e \o requestInfo)[i].type # "ErrorInfo"
    <3>1. i - Len(e) \in DOMAIN requestInfo /\ (e \o requestInfo)[i] = requestInfo[i - Len(e)]
      BY <2>1, <2>3
    <3>2. requestInfo[i - Len(e)] \in ToSet(requestInfo)
      BY <3>1 DEF ToSet
    <3>3. \A x \in ToSet(requestInfo) : x.type = "RequestInfo"
      BY DefaultDetails
    <3> QED
      BY <3>1, <3>2, <3>3
  <2> QED
    BY <2>2, <2>3 DEF InfosOf
<1> QED
  BY <1>1, <1>3, FS_Singleton DEF e

----------------------------------------------------------------------------
(* The inductive invariant.                                                *)

\* What may have become of a response since its handler made it.
Becomes(was, now) ==
  /\ IsResponse(now)
  /\ now.dynamic = was.dynamic
  /\ was.dynamic => now.entries = was.entries
  /\ Len(now.entries) = Len(was.entries)
  /\ \A i \in DOMAIN was.entries :
       /\ Len(now.entries[i]) = Len(was.entries[i])
       /\ \A f \in DOMAIN was.entries[i] : now.entries[i][f] \in {was.entries[i][f], Stripped(was.entries[i][f])}

\* The loop has been over entry i, if it has one status and that is generated.
HasOneStatus(was, i) == ~was.dynamic /\ Len(was.entries[i]) = 1

IsDone(was, now, i) == HasOneStatus(was, i) => now.entries[i][1] = Stripped(was.entries[i][1])

SentAs(was, body) ==
  /\ Becomes(was, body)
  /\ ~body.inputOnly
  /\ \A i \in DOMAIN was.entries : IsDone(was, body, i)

ObjectsInv == \A o \in Response : Becomes(Initially[o], object[o])

IsSending(r) ==
  LET o == sending[r].object
      i == sending[r].entry
  IN /\ sending[r] = [object |-> o, entry |-> i]
     /\ o \in Response
     /\ i \in 1 .. Len(Initially[o].entries) + 1
     /\ pc[r] = "clear" => i = 1
     /\ pc[r] = "entries" => /\ ~object[o].inputOnly
                             /\ \A j \in 1 .. i - 1 : IsDone(Initially[o], object[o], j)

SendingInv ==
  /\ \A r \in RPC : /\ sends[r] \in 0 .. MaxSends
                    /\ IF pc[r] \in {"clear", "entries"} THEN IsSending(r) ELSE sending[r] = NotSending
  /\ \A r, q \in RPC : sending[r].object = sending[q].object => r = q \/ sending[r] = NotSending

WireInv ==
  \A r \in RPC : /\ IsList(wire[r])
                 /\ \A k \in ResponsesSent(r) : SentAs(Initially[wire[r][k].of], wire[r][k].body)

Failing(r) == pc[r] \in {"failed", "logged"} \/ Answered(r)

\* What is an error of the chain's own tells what failed underneath, unless wrapped.
TellsItsCause(e) == e.cause # NoCause \/ e.code = "ok" \/ e.wrapped \/ e \in HandlerErrors \/ e \in PassedOn

ErrorInv ==
  \A r \in RPC : /\ IsError(err[r]) /\ HasOneInfoAtMost(err[r].details)
                 /\ err[r].connect => err[r].text \notin Secrets
                 /\ TellsItsCause(err[r])
                 /\ Failing(r) => err[r].code # "ok"
                 /\ Answered(r) => wire[r] # <<>> /\ Last(wire[r]) = Sent("answer", Answer(err[r]))

LogInv ==
  \A r \in RPC : /\ IsList(log[r])
                 /\ IF pc[r] = "logged" \/ Answered(r)
                    THEN \E k \in DOMAIN log[r] : Records(r, "rpc", 0) = {k} /\ log[r][k] = Record(err[r])
                    ELSE Records(r, "rpc", 0) = {}

\* The loop of this send of o has been over entry i.
IsPast(r, o, i) == sending[r].object = o /\ i < sending[r].entry

SentOf(r, o) == {k \in ResponsesSent(r) : wire[r][k].of = o}

EntriesInv ==
  \A r \in RPC : \A o \in Response : \A i \in DOMAIN Initially[o].entries : HasOneStatus(Initially[o], i) =>
    IF ErrorLogLevel(Initially[o].entries[i][1].code) = "error"
    THEN Cardinality(Records(r, o, i)) >= Cardinality(SentOf(r, o)) + (IF IsPast(r, o, i) THEN 1 ELSE 0)
    ELSE Records(r, o, i) = {}

\* The records, of any RPC, that hold the DebugInfo of entry i.
WithDebug(o, i) == UNION {{<<r, k>> : k \in {n \in Records(r, o, i) : log[r][n].debug # <<>>}} : r \in RPC}

DebugInv ==
  \A o \in Response : \A i \in DOMAIN Initially[o].entries :
    LET was == Initially[o].entries[i][1]
        now == object[o].entries[i][1]
    IN Len(Initially[o].entries[i]) = 1 /\ ErrorLogLevel(was.code) = "error" /\ DebugInfos(was.details) # <<>> =>
         IF DebugInfos(now.details) # <<>> THEN WithDebug(o, i) = {}
         ELSE \E p \in WithDebug(o, i) : /\ WithDebug(o, i) = {p}
                                         /\ log[p[1]][p[2]].debug = LastDebugInfo(was.details)



FunctionsInv ==
  /\ pc \in [RPC -> Places]
  /\ DOMAIN err = RPC /\ DOMAIN sending = RPC /\ DOMAIN sends = RPC
  /\ DOMAIN log = RPC /\ DOMAIN wire = RPC
  /\ Response \subseteq DOMAIN object

IInv ==
  FunctionsInv /\ ObjectsInv /\ SendingInv /\ WireInv /\ ErrorInv /\ LogInv /\ EntriesInv /\ DebugInv

----------------------------------------------------------------------------
(* What becomes of a response.                                             *)

LEMMA ListExcept ==
  ASSUME NEW s, IsList(s), NEW i \in DOMAIN s, NEW v
  PROVE  LET t == [s EXCEPT ![i] = v]
         IN /\ IsList(t) /\ Len(t) = Len(s) /\ DOMAIN t = DOMAIN s
            /\ t[i] = v
            /\ \A j \in DOMAIN s : j # i => t[j] = s[j]
<1> DEFINE S == ToSet(s) \cup {v}
           t == [s EXCEPT ![i] = v]
<1>1. s \in Seq(S) /\ v \in S
  BY DEF IsList
<1> HIDE DEF S
<1>2. t \in Seq(S) /\ Len(t) = Len(s)
  BY <1>1
<1>3. IsList(t)
  BY <1>2, SeqIsList
<1> QED
  BY <1>2, <1>3

LEMMA ListDomain ==
  ASSUME NEW s, IsList(s)
  PROVE  Len(s) \in Nat /\ DOMAIN s = 1 .. Len(s)
  BY DEF IsList

LEMMA StrippedStatus ==
  ASSUME NEW s, IsStatus(s)
  PROVE  /\ IsStatus(Stripped(s))
         /\ Stripped(s).code = s.code /\ Stripped(s).text = s.text
         /\ Stripped(s).details = WithDefaultInfo(WithoutReadable(s.details))
         /\ Stripped(Stripped(s)) = Stripped(s)
         /\ DebugInfos(Stripped(s).details) = <<>>
<1> DEFINE left == WithDefaultInfo(WithoutReadable(s.details))
<1>1. /\ IsList(left)
      /\ DebugInfos(left) = <<>>
      /\ WithDefaultInfo(WithoutReadable(left)) = left
  BY StrippedDetails DEF IsStatus
<1>2. Stripped(s) = Status(s.code, s.text, left)
  <2>1. s = [code |-> s.code, text |-> s.text, details |-> s.details]
    BY DEF IsStatus, Status
  <2>2. [s EXCEPT !.details = left] = [code |-> s.code, text |-> s.text, details |-> left]
    BY <2>1
  <2> QED
    BY <2>2 DEF Stripped, Status
<1> HIDE DEF left
<1>3. \A t : t = Status(s.code, s.text, left) => t.code = s.code /\ t.text = s.text /\ t.details = left /\ IsStatus(t)
  BY <1>1 DEF Status, IsStatus
<1>4. [Status(s.code, s.text, left) EXCEPT !.details = left] = Status(s.code, s.text, left)
  BY DEF Status
<1>5. Stripped(Status(s.code, s.text, left)) = Status(s.code, s.text, left)
  <2>1. Stripped(Status(s.code, s.text, left))
          = [Status(s.code, s.text, left) EXCEPT !.details = WithDefaultInfo(WithoutReadable(Status(s.code, s.text, left).details))]
    BY DEF Stripped
  <2>2. Status(s.code, s.text, left).details = left
    BY DEF Status
  <2> QED
    BY <1>1, <1>4, <2>1, <2>2
<1> QED
  BY <1>1, <1>2, <1>3, <1>5 DEF left

LEMMA BecomesItself ==
  ASSUME NEW was, IsResponse(was)
  PROVE  Becomes(was, was)
  BY DEF Becomes

LEMMA BecomesCleared ==
  ASSUME NEW was, NEW now, Becomes(was, now)
  PROVE  LET new == [now EXCEPT !.inputOnly = FALSE]
         IN Becomes(was, new) /\ ~new.inputOnly /\ new.entries = now.entries
<1> DEFINE new == [now EXCEPT !.inputOnly = FALSE]
<1>1. now = [inputOnly |-> now.inputOnly, dynamic |-> now.dynamic, entries |-> now.entries]
  BY DEF Becomes, IsResponse
<1>2. new = [inputOnly |-> FALSE, dynamic |-> now.dynamic, entries |-> now.entries]
  <2> DEFINE i == now.inputOnly
             d == now.dynamic
             e == now.entries
  <2>1. now = [inputOnly |-> i, dynamic |-> d, entries |-> e]
    BY <1>1
  <2> HIDE DEF i, d, e
  <2>2. \A v : [now EXCEPT !.inputOnly = v] = [inputOnly |-> v, dynamic |-> d, entries |-> e]
    BY <2>1
  <2>3. new = [inputOnly |-> FALSE, dynamic |-> d, entries |-> e]
    BY <2>2, Zenon
  <2> QED
    BY <2>3 DEF d, e
<1>3. new.inputOnly = FALSE /\ new.dynamic = now.dynamic /\ new.entries = now.entries
  BY <1>2
<1> HIDE DEF new
<1>4. IsResponse(new)
  BY <1>2, <1>3 DEF Becomes, IsResponse
<1> QED
  BY <1>3, <1>4 DEF Becomes, new

\* What a Becomes says of one status.
LEMMA BecomesStatus ==
  ASSUME NEW was, IsResponse(was), NEW now, Becomes(was, now), NEW i \in DOMAIN was.entries
  PROVE  /\ DOMAIN now.entries = DOMAIN was.entries
         /\ DOMAIN now.entries[i] = DOMAIN was.entries[i]
         /\ \A f \in DOMAIN was.entries[i] :
              /\ IsStatus(was.entries[i][f]) /\ IsStatus(now.entries[i][f])
              /\ now.entries[i][f].code = was.entries[i][f].code
              /\ Stripped(now.entries[i][f]) = Stripped(was.entries[i][f])
<1>1. DOMAIN now.entries = DOMAIN was.entries
  BY ListDomain DEF Becomes, IsResponse
<1>2. IsList(now.entries[i]) /\ IsList(was.entries[i])
  BY <1>1 DEF Becomes, IsResponse
<1>3. DOMAIN now.entries[i] = DOMAIN was.entries[i]
  BY <1>2, ListDomain DEF Becomes
<1>4. ASSUME NEW f \in DOMAIN was.entries[i]
      PROVE  /\ IsStatus(was.entries[i][f]) /\ IsStatus(now.entries[i][f])
             /\ now.entries[i][f].code = was.entries[i][f].code
             /\ Stripped(now.entries[i][f]) = Stripped(was.entries[i][f])
  <2>1. IsStatus(was.entries[i][f])
    BY DEF IsResponse
  <2>2. IsStatus(now.entries[i][f])
    BY <1>1, <1>3 DEF Becomes, IsResponse
  <2>3. now.entries[i][f] \in {was.entries[i][f], Stripped(was.entries[i][f])}
    BY DEF Becomes
  <2> QED
    BY <2>1, <2>2, <2>3, StrippedStatus
<1> QED
  BY <1>1, <1>3, <1>4

\* One turn of the loop: the status f of entry i is stripped.
StrippedAt(now, i, f) == [now EXCEPT !.entries[i][f] = Stripped(@)]

LEMMA BecomesStripped ==
  ASSUME NEW was, IsResponse(was), NEW now, Becomes(was, now), ~was.dynamic,
         NEW i \in DOMAIN now.entries, NEW f \in DOMAIN now.entries[i]
  PROVE  LET new == StrippedAt(now, i, f)
         IN /\ Becomes(was, new)
            /\ new.inputOnly = now.inputOnly
            /\ new.entries[i][f] = Stripped(was.entries[i][f])
            /\ \A j \in DOMAIN was.entries : \A g \in DOMAIN was.entries[j] :
                 j # i \/ g # f => new.entries[j][g] = now.entries[j][g]
<1> DEFINE entry == [now.entries[i] EXCEPT ![f] = Stripped(@)]
           entries == [now.entries EXCEPT ![i] = entry]
           new == StrippedAt(now, i, f)
<1>1. now = [inputOnly |-> now.inputOnly, dynamic |-> now.dynamic, entries |-> now.entries]
  BY DEF Becomes, IsResponse
<1>2. new = [inputOnly |-> now.inputOnly, dynamic |-> now.dynamic, entries |-> entries]
  BY <1>1 DEF StrippedAt
<1>3. IsList(now.entries) /\ IsList(now.entries[i])
  BY DEF Becomes, IsResponse
<1>4. /\ IsList(entry) /\ Len(entry) = Len(now.entries[i]) /\ DOMAIN entry = DOMAIN now.entries[i]
      /\ entry[f] = Stripped(now.entries[i][f])
      /\ \A g \in DOMAIN now.entries[i] : g # f => entry[g] = now.entries[i][g]
  BY <1>3, ListExcept
<1> HIDE DEF entry
<1>5. /\ IsList(entries) /\ Len(entries) = Len(now.entries) /\ DOMAIN entries = DOMAIN now.entries
      /\ entries[i] = entry
      /\ \A j \in DOMAIN now.entries : j # i => entries[j] = now.entries[j]
  BY <1>3, ListExcept
<1> HIDE DEF entries
<1>6. new.inputOnly = now.inputOnly /\ new.dynamic = now.dynamic /\ new.entries = entries
  BY <1>2
<1> HIDE DEF new
<1>7. DOMAIN now.entries = DOMAIN was.entries /\ i \in DOMAIN was.entries
  BY BecomesStatus, <1>3, ListDomain DEF Becomes, IsResponse
<1>8. DOMAIN now.entries[i] = DOMAIN was.entries[i] /\ IsStatus(now.entries[i][f])
      /\ Stripped(now.entries[i][f]) = Stripped(was.entries[i][f])
  BY <1>7, BecomesStatus
<1>9. IsResponse(new)
  <2>1. new = [inputOnly |-> new.inputOnly, dynamic |-> new.dynamic, entries |-> new.entries]
    BY <1>2, <1>6
  <2>2. {new.inputOnly, new.dynamic} \subseteq BOOLEAN
    BY <1>6 DEF Becomes, IsResponse
  <2>3. ASSUME NEW j \in DOMAIN entries
        PROVE  IsList(entries[j]) /\ \A g \in DOMAIN entries[j] : IsStatus(entries[j][g])
    <3>1. CASE j = i
      <4>1. IsStatus(entry[f])
        BY <1>4, <1>8, StrippedStatus
      <4>2. ASSUME NEW g \in DOMAIN entry, g # f PROVE IsStatus(entry[g])
        BY <1>4, <4>2 DEF Becomes, IsResponse
      <4> QED
        BY <1>4, <1>5, <3>1, <4>1, <4>2
    <3>2. CASE j # i
      BY <1>5, <3>2 DEF Becomes, IsResponse
    <3> QED
      BY <3>1, <3>2
  <2> QED
    BY <1>5, <1>6, <2>1, <2>2, <2>3 DEF IsResponse
<1>10. ASSUME NEW j \in DOMAIN was.entries
       PROVE  /\ Len(entries[j]) = Len(was.entries[j])
              /\ \A g \in DOMAIN was.entries[j] : entries[j][g] \in {was.entries[j][g], Stripped(was.entries[j][g])}
  <2>1. CASE j = i
    BY <1>4, <1>5, <1>8, <2>1 DEF Becomes
  <2>2. CASE j # i
    BY <1>5, <1>7, <2>2 DEF Becomes
  <2> QED
    BY <2>1, <2>2
<1>11. Becomes(was, new)
  BY <1>5, <1>6, <1>9, <1>10 DEF Becomes
<1>12. entries[i][f] = Stripped(was.entries[i][f])
  BY <1>4, <1>5, <1>8
<1>13. ASSUME NEW j \in DOMAIN was.entries, NEW g \in DOMAIN was.entries[j], j # i \/ g # f
       PROVE  entries[j][g] = now.entries[j][g]
  BY <1>4, <1>5, <1>7, <1>8, <1>13
<1> QED
  BY <1>6, <1>11, <1>12, <1>13 DEF new

----------------------------------------------------------------------------
(* The errors that come up the chain.                                      *)

GoodError(e) ==
  IsError(e) /\ HasOneInfoAtMost(e.details) /\ (e.connect => e.text \notin Secrets) /\ TellsItsCause(e)

LEMMA ErrorIsGood ==
  ASSUME NEW code, NEW text, NEW details, NEW cause,
         IsList(details), ~HasInfo(details), text \notin Secrets, cause # NoCause \/ code = "ok"
  PROVE  GoodError(Error(code, text, details, cause))
<1> DEFINE e == Error(code, text, details, cause)
<1>1. e = [connect |-> TRUE, wrapped |-> FALSE, code |-> code, text |-> text, details |-> details, cause |-> cause]
  BY DEF Error
<1>2. e.connect = TRUE /\ e.wrapped = FALSE /\ e.code = code /\ e.text = text /\ e.details = details /\ e.cause = cause
  BY <1>1
<1> HIDE DEF e
<1>3. IsError(e)
  BY <1>1, <1>2 DEF IsError
<1>4. HasOneInfoAtMost(e.details)
  BY <1>2 DEF HasOneInfoAtMost, InfosOf, HasInfo
<1>5. TellsItsCause(e)
  BY <1>2 DEF TellsItsCause
<1> QED
  BY <1>2, <1>3, <1>4, <1>5 DEF GoodError, e

LEMMA WrappedIsGood ==
  ASSUME NEW e, GoodError(e)
  PROVE  GoodError(Wrapped(e)) /\ Wrapped(e).code = e.code
<1> DEFINE w == Wrapped(e)
           c == e.connect
           d == e.details
           code == e.code
           text == e.text
           cause == e.cause
<1>1. e = [connect |-> c, wrapped |-> e.wrapped, code |-> code, text |-> text, details |-> d, cause |-> cause]
  BY DEF GoodError, IsError, Error
<1>2. \A v : [e EXCEPT !.wrapped = v]
               = [connect |-> c, wrapped |-> v, code |-> code, text |-> text, details |-> d, cause |-> cause]
  <2> HIDE DEF c, d, code, text, cause
  <2> QED
    BY <1>1
<1>3. w = [connect |-> c, wrapped |-> TRUE, code |-> code, text |-> text, details |-> d, cause |-> cause]
  BY <1>2, Zenon DEF Wrapped
<1>4. /\ IsList(d) /\ HasOneInfoAtMost(d) /\ c \in BOOLEAN
      /\ (~c => code = "unknown" /\ d = <<>>)
      /\ (c => text \notin Secrets)
  BY DEF GoodError, IsError
<1> HIDE DEF w, c, d, code, text, cause
<1>5. w.connect = c /\ w.wrapped = TRUE /\ w.code = code /\ w.text = text /\ w.details = d /\ w.cause = cause
  BY <1>3
<1>6. IsError(w)
  BY <1>3, <1>4, <1>5 DEF IsError
<1>7. GoodError(w)
  BY <1>4, <1>5, <1>6 DEF GoodError, TellsItsCause
<1> QED
  BY <1>5, <1>7 DEF w, code

LEMMA ChainsErrorsAreGood ==
  /\ GoodError(NoError) /\ NoError.code = "ok"
  /\ GoodError(Malformed)
  /\ GoodError(ValidationFailed)
  /\ \A violations, badRequest \in BOOLEAN :
       GoodError(InvalidParameters(NewErrorDetail("Violations", "fields", violations)
                                     \o NewErrorDetail("BadRequest", "fields", badRequest), "violations"))
  /\ \A namesField, packs \in BOOLEAN : GoodError(rejectPrepare(namesField, packs))
<1>1. {NoText, Malformed.text, InvalidParameters(<<>>, NoCause).text, ValidationFailed.text} \cap Secrets = {}
  BY HandlersAssumption
<1>2. IsList(<<>>) /\ ~HasInfo(<<>>)
  BY EmptyIsList DEF HasInfo
<1>3. GoodError(NoError) /\ NoError.code = "ok"
  <2>1. NoText \notin Secrets
    BY <1>1
  <2>2. GoodError(Error("ok", NoText, <<>>, NoCause))
    BY <1>2, <2>1, ErrorIsGood
  <2> QED
    BY <2>2 DEF NoError, Error
<1>4. GoodError(Malformed)
  <2> DEFINE text == "The request could not be processed due to malformed data"
  <2>1. text \notin Secrets
    BY <1>1 DEF Malformed, Error
  <2> HIDE DEF text
  <2>2. GoodError(Error("invalid_argument", text, <<>>, "parser"))
    BY <1>2, <2>1, ErrorIsGood DEF NoCause
  <2> QED
    BY <2>2 DEF Malformed, text
<1>5. GoodError(ValidationFailed)
  <2> DEFINE text == "validation failed"
  <2>1. text \notin Secrets
    BY <1>1 DEF ValidationFailed, Error
  <2> HIDE DEF text
  <2>2. GoodError(Error("internal", text, <<>>, "diagnostic"))
    BY <1>2, <2>1, ErrorIsGood DEF NoCause
  <2> QED
    BY <2>2 DEF ValidationFailed, text
<1>6. ASSUME NEW details, IsList(details), ~HasInfo(details), NEW cause, cause # NoCause
      PROVE  GoodError(InvalidParameters(details, cause))
  <2> DEFINE text == "The request contains invalid parameters"
  <2>1. text \notin Secrets
    BY <1>1 DEF InvalidParameters, Error
  <2> HIDE DEF text
  <2>2. GoodError(Error("invalid_argument", text, details, cause))
    BY <1>6, <2>1, ErrorIsGood
  <2> QED
    BY <2>2 DEF InvalidParameters, text
<1>7. ASSUME NEW x, x.type # "ErrorInfo" PROVE IsList(<<x>>) /\ ~HasInfo(<<x>>)
  <2>1. <<x>> \in Seq({x})
    OBVIOUS
  <2>2. IsList(<<x>>)
    BY <2>1, SeqIsList
  <2> QED
    BY <1>7, <2>2 DEF HasInfo
<1>8. ASSUME NEW s, NEW t, IsList(s), IsList(t), ~HasInfo(s), ~HasInfo(t)
      PROVE  IsList(s \o t) /\ ~HasInfo(s \o t)
  <2>1. IsList(s \o t) /\ ToSet(s \o t) = ToSet(s) \cup ToSet(t)
    BY <1>8, ListConcat
  <2>2. \A x \in ToSet(s \o t) : x.type # "ErrorInfo"
    BY <1>8, <2>1 DEF HasInfo, ToSet
  <2> QED
    BY <2>1, <2>2 DEF HasInfo, ToSet
<1>9. ASSUME NEW violations \in BOOLEAN, NEW badRequest \in BOOLEAN
      PROVE  GoodError(InvalidParameters(NewErrorDetail("Violations", "fields", violations)
                                           \o NewErrorDetail("BadRequest", "fields", badRequest), "violations"))
  <2> DEFINE v == NewErrorDetail("Violations", "fields", violations)
             b == NewErrorDetail("BadRequest", "fields", badRequest)
  <2>1. IsList(v) /\ ~HasInfo(v)
    BY <1>2, <1>7 DEF NewErrorDetail, Detail
  <2>2. IsList(b) /\ ~HasInfo(b)
    BY <1>2, <1>7 DEF NewErrorDetail, Detail
  <2> HIDE DEF v, b
  <2>3. IsList(v \o b) /\ ~HasInfo(v \o b)
    BY <1>8, <2>1, <2>2
  <2>4. GoodError(InvalidParameters(v \o b, "violations"))
    BY <1>6, <2>3 DEF NoCause
  <2> QED
    BY <2>4 DEF v, b
<1>10. ASSUME NEW namesField \in BOOLEAN, NEW packs \in BOOLEAN PROVE GoodError(rejectPrepare(namesField, packs))
  <2> DEFINE b == IF namesField THEN NewBadRequest("prepare") ELSE <<>>
             d == NewDebugInfo("prepare", packs)
  <2>1. IsList(b) /\ ~HasInfo(b)
    BY <1>2, <1>7 DEF NewBadRequest, NewErrorDetail, Detail
  <2>2. IsList(d) /\ ~HasInfo(d)
    BY <1>2, <1>7 DEF NewDebugInfo, NewErrorDetail, Detail
  <2> HIDE DEF b, d
  <2>3. IsList(b \o d) /\ ~HasInfo(b \o d)
    BY <1>8, <2>1, <2>2
  <2>4. GoodError(InvalidParameters(b \o d, "prepare"))
    BY <1>6, <2>3 DEF NoCause
  <2> QED
    BY <2>4 DEF rejectPrepare, b, d
<1> QED
  BY <1>3, <1>4, <1>5, <1>9, <1>10

LEMMA OthersErrorsAreGood ==
  /\ \A e \in HandlerErrors : GoodError(e)
  /\ \A e \in PassedOn : GoodError(e)
<1>1. PassedOn \subseteq ReadErrors
  BY DEF PassedOn
<1> QED
  BY <1>1, HandlersAssumption DEF GoodError, TellsItsCause

----------------------------------------------------------------------------
(* The steps that send nothing and log nothing: a Receive on its way up,   *)
(* and the end of a handler.                                               *)

Quiet == {"handler", "read", "fields", "prepare"}

\* r goes from one interceptor to another, or ends, with the error e.
Moves(r, to, e) ==
  /\ pc[r] \in Quiet
  /\ to \in Quiet \cup {"failed", "done"}
  /\ pc' = [pc EXCEPT ![r] = to]
  /\ DOMAIN err' = RPC
  /\ err'[r] = e
  /\ \A q \in RPC : q # r => err'[q] = err[q]
  /\ GoodError(e)
  /\ to = "failed" => e.code # "ok"
  /\ to = "done" => e.code = "ok"
  /\ UNCHANGED <<sending, object, sends, log, wire>>

\* What each part of the invariant says of an RPC that a step leaves alone, and of
\* the one that takes it, depends on these only.
LEMMA MovesKeepsIInv ==
  ASSUME IInv, NEW r \in RPC, NEW to, NEW e, Moves(r, to, e)
  PROVE  IInv'
<1>1. /\ FunctionsInv /\ ObjectsInv /\ SendingInv /\ WireInv
      /\ ErrorInv /\ LogInv /\ EntriesInv /\ DebugInv
  BY DEF IInv
<1>2. pc' \in [RPC -> Places] /\ pc'[r] = to /\ \A q \in RPC : q # r => pc'[q] = pc[q]
  BY <1>1 DEF Moves, FunctionsInv, Places, Quiet
<1>3. UNCHANGED <<sending, object, sends, log, wire>>
  BY DEF Moves
<1>4. \A q \in RPC : pc'[q] \in {"clear", "entries"} <=> pc[q] \in {"clear", "entries"}
  BY <1>2 DEF Moves, Quiet
<1>5. \A q \in RPC : Answered(q)' <=> Answered(q)
  <2>1. ~Answered(r)' /\ ~Answered(r)
    BY <1>2 DEF Moves, Quiet, Answered
  <2>2. ASSUME NEW q \in RPC, q # r PROVE Answered(q)' <=> Answered(q)
    BY <1>2, <2>2 DEF Moves, Answered
  <2> QED
    BY <2>1, <2>2
<1>6. \A q \in RPC : ResponsesSent(q)' = ResponsesSent(q)
  BY <1>3 DEF ResponsesSent
<1>7. \A q, of, i : Records(q, of, i)' = Records(q, of, i)
  BY <1>3 DEF Records
<1>8. FunctionsInv'
  BY <1>1, <1>2, <1>3 DEF FunctionsInv, Moves
<1>9. ObjectsInv'
  BY <1>1, <1>3 DEF ObjectsInv
<1>10. SendingInv'
  <2>1. ASSUME NEW q \in RPC, IsSending(q), pc[q] \in {"clear", "entries"} PROVE IsSending(q)'
    <3>1. q # r /\ pc'[q] = pc[q]
      BY <1>2, <2>1 DEF Moves, Quiet
    <3> QED
      BY <1>3, <2>1, <3>1 DEF IsSending
  <2> QED
    BY <1>1, <1>3, <1>4, <2>1 DEF SendingInv
<1>11. WireInv'
  BY <1>1, <1>3, <1>6 DEF WireInv
<1>12. ErrorInv'
  <2>1. ASSUME NEW q \in RPC, q = r
        PROVE  /\ IsError(err'[q]) /\ HasOneInfoAtMost(err'[q].details)
               /\ err'[q].connect => err'[q].text \notin Secrets
               /\ TellsItsCause(err'[q])
               /\ Failing(q)' => err'[q].code # "ok"
               /\ ~Answered(q)'
    BY <1>2, <2>1 DEF Moves, GoodError, Failing, Answered, Quiet
  <2>2. ASSUME NEW q \in RPC, q # r
        PROVE  err'[q] = err[q] /\ (Failing(q)' <=> Failing(q)) /\ (Answered(q)' <=> Answered(q))
    BY <1>2, <1>5, <2>2 DEF Moves, Failing
  <2> QED
    BY <1>1, <1>3, <2>1, <2>2 DEF ErrorInv
<1>13. LogInv'
  <2>1. ASSUME NEW q \in RPC PROVE pc'[q] = "logged" \/ Answered(q)' <=> pc[q] = "logged" \/ Answered(q)
    BY <1>2, <1>5 DEF Moves, Quiet
  <2>2. ASSUME NEW q \in RPC, pc[q] = "logged" \/ Answered(q) PROVE err'[q] = err[q]
    <3>1. q # r
      BY <2>2 DEF Moves, Quiet, Answered
    <3> QED
      BY <3>1 DEF Moves
  <2> QED
    BY <1>1, <1>3, <1>7, <2>1, <2>2 DEF LogInv
<1>14. EntriesInv'
  BY <1>1, <1>3, <1>6, <1>7 DEF EntriesInv, SentOf, IsPast
<1>15. DebugInv'
  BY <1>1, <1>3, <1>7 DEF DebugInv, WithDebug
<1> QED
  BY <1>8, <1>9, <1>10, <1>11, <1>12, <1>13, <1>14, <1>15 DEF IInv

\* A step that sets pc and err of r to values in range Moves.
LEMMA SettingMoves ==
  ASSUME FunctionsInv, NEW r \in RPC, NEW to, NEW e,
         pc[r] \in Quiet, to \in Quiet \cup {"failed", "done"},
         pc' = [pc EXCEPT ![r] = to], err' = [err EXCEPT ![r] = e], GoodError(e),
         to = "failed" => e.code # "ok", to = "done" => e.code = "ok",
         UNCHANGED <<sending, object, sends, log, wire>>
  PROVE  Moves(r, to, e)
  BY DEF FunctionsInv, Moves

LEMMA RefusesMoves ==
  ASSUME FunctionsInv, NEW r \in RPC, NEW from \in Quiet, NEW e, GoodError(e), Refuses(r, from, e)
  PROVE  Moves(r, "handler", e)
<1>1. pc[r] \in Quiet /\ "handler" \in Quiet
  BY DEF Refuses, Quiet
<1> QED
  BY <1>1, SettingMoves DEF Refuses

LEMMA PassesMoves ==
  ASSUME IInv, NEW r \in RPC, NEW from \in Quiet, NEW to \in Quiet, Passes(r, from, to)
  PROVE  Moves(r, to, err[r])
<1>1. GoodError(err[r]) /\ DOMAIN err = RPC
  BY DEF IInv, ErrorInv, GoodError, FunctionsInv
<1> QED
  BY <1>1 DEF Passes, Moves, Quiet

LEMMA QuietSteps ==
  ASSUME IInv, NEW r \in RPC,
         \/ Read(r) \/ \E error \in ReadErrors : ReadFails(r, error)
         \/ Validates(r) \/ Invalid(r) \/ RulesFail(r)
         \/ Prepares(r) \/ PrepareFails(r)
         \/ Receive(r) \/ Succeeds(r) \/ Fails(r)
  PROVE  \E to, e : Moves(r, to, e)
<1>1. FunctionsInv /\ ErrorInv
  BY DEF IInv
<1>2. CASE Read(r)
  <2>1. Passes(r, "read", "fields") /\ "read" \in Quiet /\ "fields" \in Quiet
    BY <1>2 DEF Read, Quiet
  <2> QED
    BY <2>1, PassesMoves
<1>3. CASE \E error \in ReadErrors : ReadFails(r, error)
  <2>1. PICK error \in ReadErrors : ReadFails(r, error)
    BY <1>3
  <2>2. "read" \in Quiet
    BY DEF Quiet
  <2>3. CASE error.connect /\ error.code = "invalid_argument"
    <3>1. Refuses(r, "read", Malformed)
      BY <2>1, <2>3 DEF ReadFails
    <3> QED
      BY <1>1, <2>2, <3>1, ChainsErrorsAreGood, RefusesMoves
  <2>4. CASE ~(error.connect /\ error.code = "invalid_argument")
    <3>1. Refuses(r, "read", error) /\ error \in PassedOn
      BY <2>1, <2>4 DEF ReadFails, PassedOn
    <3> QED
      BY <1>1, <2>2, <3>1, OthersErrorsAreGood, RefusesMoves
  <2> QED
    BY <2>3, <2>4
<1>4. CASE Validates(r)
  <2>1. Passes(r, "fields", "prepare") /\ "fields" \in Quiet /\ "prepare" \in Quiet
    BY <1>4 DEF Validates, Quiet
  <2> QED
    BY <2>1, PassesMoves
<1>5. CASE Invalid(r)
  <2> DEFINE E(violations, badRequest) ==
               InvalidParameters(NewErrorDetail("Violations", "fields", violations)
                                   \o NewErrorDetail("BadRequest", "fields", badRequest), "violations")
  <2>1. PICK violations, badRequest \in BOOLEAN : Refuses(r, "fields", E(violations, badRequest))
    BY <1>5 DEF Invalid
  <2>2. GoodError(E(violations, badRequest)) /\ "fields" \in Quiet
    BY ChainsErrorsAreGood DEF Quiet
  <2> HIDE DEF E
  <2> QED
    BY <1>1, <2>1, <2>2, RefusesMoves
<1>6. CASE RulesFail(r)
  <2>1. Refuses(r, "fields", ValidationFailed) /\ GoodError(ValidationFailed) /\ "fields" \in Quiet
    BY <1>6, ChainsErrorsAreGood DEF Quiet, RulesFail
  <2> QED
    BY <1>1, <2>1, RefusesMoves
<1>7. CASE Prepares(r)
  <2>1. Passes(r, "prepare", "handler") /\ "prepare" \in Quiet /\ "handler" \in Quiet
    BY <1>7 DEF Prepares, Quiet
  <2> QED
    BY <2>1, PassesMoves
<1>8. CASE PrepareFails(r)
  <2>1. PICK namesField, packs \in BOOLEAN : Refuses(r, "prepare", rejectPrepare(namesField, packs))
    BY <1>8 DEF PrepareFails
  <2>2. GoodError(rejectPrepare(namesField, packs)) /\ "prepare" \in Quiet
    BY ChainsErrorsAreGood DEF Quiet
  <2> QED
    BY <1>1, <2>1, <2>2, RefusesMoves
<1>9. CASE Receive(r)
  <2>1. GoodError(NoError) /\ "read" \in Quiet /\ pc[r] \in Quiet
    BY <1>9, ChainsErrorsAreGood DEF Quiet, Receive
  <2>2. Moves(r, "read", NoError)
    BY <1>1, <1>9, <2>1, SettingMoves DEF Receive
  <2> QED
    BY <2>2
<1>10. CASE Succeeds(r)
  <2>1. GoodError(NoError) /\ NoError.code = "ok" /\ pc[r] \in Quiet
    BY <1>10, ChainsErrorsAreGood DEF Quiet, Succeeds
  <2>2. Moves(r, "done", NoError)
    BY <1>1, <1>10, <2>1, SettingMoves DEF Succeeds
  <2> QED
    BY <2>2
<1>11. CASE Fails(r)
  <2>1. PICK error \in HandlerErrors \cup {err[r], Wrapped(err[r])} :
          error.code # "ok" /\ err' = [err EXCEPT ![r] = error]
    BY <1>11 DEF Fails
  <2>2. GoodError(err[r])
    BY <1>1 DEF ErrorInv, GoodError
  <2>3. GoodError(error) /\ pc[r] \in Quiet
    BY <1>11, <2>2, OthersErrorsAreGood, WrappedIsGood DEF Fails, Quiet
  <2>4. Moves(r, "failed", error)
    BY <1>1, <1>11, <2>1, <2>3, SettingMoves DEF Fails
  <2> QED
    BY <2>4
<1> QED
  BY <1>2, <1>3, <1>4, <1>5, <1>6, <1>7, <1>8, <1>9, <1>10, <1>11

----------------------------------------------------------------------------
(* The steps of a Send.                                                    *)

LEMMA InitiallyIsResponse ==
  ASSUME NEW o \in Response
  PROVE  /\ IsResponse(Initially[o])
         /\ Len(Initially[o].entries) \in Nat
         /\ DOMAIN Initially[o].entries = 1 .. Len(Initially[o].entries)
<1>1. IsResponse(Initially[o])
  BY HandlersAssumption
<1>2. IsList(Initially[o].entries)
  BY <1>1 DEF IsResponse
<1> QED
  BY <1>1, <1>2, ListDomain

\* What a step from one interceptor to another leaves as it is.
LEMMA SendingKeepsTheRest ==
  ASSUME FunctionsInv, WireInv, ErrorInv, LogInv, NEW r \in RPC,
         pc[r] \in {"handler", "clear", "entries"}, pc'[r] \in {"handler", "clear", "entries"},
         \A q \in RPC : q # r => pc'[q] = pc[q],
         UNCHANGED <<err, log, wire>>
  PROVE  WireInv' /\ ErrorInv' /\ LogInv'
<1>1. ASSUME NEW q \in RPC
      PROVE  /\ Answered(q)' <=> Answered(q)
             /\ Failing(q)' <=> Failing(q)
             /\ pc'[q] = "logged" <=> pc[q] = "logged"
  <2>1. CASE q = r
    BY <2>1 DEF Answered, Failing
  <2>2. CASE q # r
    BY <2>2 DEF Answered, Failing
  <2> QED
    BY <2>1, <2>2
<1>2. \A q \in RPC : ResponsesSent(q)' = ResponsesSent(q) /\ Records(q, "rpc", 0)' = Records(q, "rpc", 0)
  BY DEF ResponsesSent, Records
<1>3. WireInv'
  BY <1>2 DEF WireInv
<1>4. ErrorInv'
  BY <1>1 DEF ErrorInv
<1>5. LogInv'
  BY <1>1, <1>2 DEF LogInv
<1> QED
  BY <1>3, <1>4, <1>5

LEMMA KeepsEntriesInv ==
  ASSUME EntriesInv, UNCHANGED <<log, wire>>,
         \A q \in RPC : \A o \in Response : \A i \in DOMAIN Initially[o].entries :
           HasOneStatus(Initially[o], i) => (IsPast(q, o, i)' <=> IsPast(q, o, i))
  PROVE  EntriesInv'
<1>1. \A q, o, i : Records(q, o, i)' = Records(q, o, i) /\ SentOf(q, o)' = SentOf(q, o)
  BY DEF Records, SentOf, ResponsesSent
<1> QED
  BY <1>1 DEF EntriesInv

LEMMA KeepsDebugInv ==
  ASSUME DebugInv, UNCHANGED log,
         \A o \in Response : \A i \in DOMAIN Initially[o].entries : object'[o].entries[i] = object[o].entries[i]
  PROVE  DebugInv'
<1>1. \A o, i : WithDebug(o, i)' = WithDebug(o, i)
  BY DEF WithDebug, Records
<1> QED
  BY <1>1 DEF DebugInv

LEMMA SendKeepsIInv ==
  ASSUME IInv, NEW r \in RPC, NEW o \in Response, Send(r, o)
  PROVE  IInv'
<1>1. /\ FunctionsInv /\ ObjectsInv /\ SendingInv /\ WireInv
      /\ ErrorInv /\ LogInv /\ EntriesInv /\ DebugInv
  BY DEF IInv
<1>2. /\ pc[r] = "handler" /\ sends[r] < MaxSends
      /\ \A q \in RPC : sending[q].object # o
      /\ UNCHANGED <<err, object, log, wire>>
  BY DEF Send
<1>3. pc' \in [RPC -> Places] /\ pc'[r] = "clear" /\ \A q \in RPC : q # r => pc'[q] = pc[q]
  BY <1>1 DEF Send, FunctionsInv, Places
<1>4. /\ DOMAIN sending' = RPC /\ sending'[r] = [object |-> o, entry |-> 1]
      /\ \A q \in RPC : q # r => sending'[q] = sending[q]
  BY <1>1 DEF Send, FunctionsInv
<1>5. DOMAIN sends' = RPC /\ sends'[r] = sends[r] + 1 /\ \A q \in RPC : q # r => sends'[q] = sends[q]
  BY <1>1 DEF Send, FunctionsInv
<1>6. sending[r] = NotSending
  BY <1>1, <1>2 DEF SendingInv
<1>7. FunctionsInv'
  BY <1>1, <1>2, <1>3, <1>4, <1>5 DEF FunctionsInv
<1>8. ObjectsInv'
  BY <1>1, <1>2 DEF ObjectsInv
<1>9. SendingInv'
  <2>1. IsSending(r)'
    <3>1. sending'[r].object = o /\ sending'[r].entry = 1
      BY <1>4
    <3>2. 1 \in 1 .. Len(Initially[o].entries) + 1
      BY InitiallyIsResponse
    <3> QED
      BY <1>3, <1>4, <3>1, <3>2 DEF IsSending
  <2>2. sends'[r] \in 0 .. MaxSends
    BY <1>1, <1>2, <1>5, HandlersAssumption DEF SendingInv
  <2>3. ASSUME NEW q \in RPC, q # r
        PROVE  /\ sends'[q] \in 0 .. MaxSends
               /\ IF pc'[q] \in {"clear", "entries"} THEN IsSending(q)' ELSE sending'[q] = NotSending
    BY <1>1, <1>2, <1>3, <1>4, <1>5, <2>3 DEF SendingInv, IsSending
  <2>4. ASSUME NEW q \in RPC, NEW p \in RPC, sending'[q].object = sending'[p].object
        PROVE  q = p \/ sending'[q] = NotSending
    <3>1. sending'[r].object = o
      BY <1>4
    <3> QED
      BY <1>1, <1>2, <1>4, <2>4, <3>1 DEF SendingInv
  <2> QED
    BY <1>3, <2>1, <2>2, <2>3, <2>4 DEF SendingInv
<1>10. WireInv' /\ ErrorInv' /\ LogInv'
  BY <1>1, <1>2, <1>3, SendingKeepsTheRest
<1>11. EntriesInv'
  <2>1. ASSUME NEW q \in RPC, NEW u \in Response, NEW i \in DOMAIN Initially[u].entries
        PROVE  IsPast(q, u, i)' <=> IsPast(q, u, i)
    <3>1. CASE q = r
      <4>1. i \in Nat /\ i >= 1
        BY InitiallyIsResponse
      <4> QED
        BY <1>4, <1>6, <3>1, <4>1 DEF IsPast, NotSending
    <3>2. CASE q # r
      BY <1>4, <3>2 DEF IsPast
    <3> QED
      BY <3>1, <3>2
  <2> QED
    BY <1>1, <1>2, <2>1, KeepsEntriesInv
<1>12. DebugInv'
  BY <1>1, <1>2, KeepsDebugInv
<1> QED
  BY <1>7, <1>8, <1>9, <1>10, <1>11, <1>12 DEF IInv

\* The object that r sends, and the entry it has come to.
LEMMA TheSent ==
  ASSUME IInv, NEW r \in RPC, pc[r] \in {"clear", "entries"}
  PROVE  LET o == sending[r].object
             i == sending[r].entry
         IN /\ o \in Response /\ IsSending(r)
            /\ i \in 1 .. Len(Initially[o].entries) + 1
            /\ sending[r] = [object |-> o, entry |-> i]
            /\ Becomes(Initially[o], object[o])
            /\ Len(object[o].entries) = Len(Initially[o].entries)
            /\ \A q \in RPC : q # r => sending[q].object # o
<1>1. SendingInv /\ ObjectsInv
  BY DEF IInv
<1>2. IsSending(r)
  BY <1>1 DEF SendingInv
<1>3. Becomes(Initially[sending[r].object], object[sending[r].object])
  BY <1>1, <1>2 DEF ObjectsInv, IsSending
<1>4. sending[r] # NotSending
  <2>1. sending[r].object \in Response
    BY <1>2 DEF IsSending
  <2>2. "none" \notin Response
    BY HandlersAssumption
  <2> QED
    BY <2>1, <2>2 DEF NotSending
<1>5. ASSUME NEW q \in RPC, q # r PROVE sending[q].object # sending[r].object
  BY <1>1, <1>4, <1>5 DEF SendingInv
<1> QED
  BY <1>2, <1>3, <1>5 DEF IsSending, Becomes

\* Another RPC's send depends on its own object only.
LEMMA OthersSend ==
  ASSUME NEW q \in RPC, IsSending(q), pc'[q] = pc[q], sending'[q] = sending[q],
         object'[sending[q].object] = object[sending[q].object]
  PROVE  IsSending(q)'
  BY DEF IsSending

LEMMA ClearInputOnlyKeepsIInv ==
  ASSUME IInv, NEW r \in RPC, ClearInputOnly(r)
  PROVE  IInv'
<1> DEFINE o == sending[r].object
           new == [object[o] EXCEPT !.inputOnly = FALSE]
<1>1. /\ FunctionsInv /\ ObjectsInv /\ SendingInv /\ WireInv
      /\ ErrorInv /\ LogInv /\ EntriesInv /\ DebugInv
  BY DEF IInv
<1>2. pc[r] = "clear" /\ UNCHANGED <<err, sending, sends, log, wire>>
  BY DEF ClearInputOnly
<1>3. pc' \in [RPC -> Places] /\ pc'[r] = "entries" /\ \A q \in RPC : q # r => pc'[q] = pc[q]
  BY <1>1 DEF ClearInputOnly, FunctionsInv, Places
<1>4. /\ o \in Response /\ IsSending(r) /\ Becomes(Initially[o], object[o])
      /\ \A q \in RPC : q # r => sending[q].object # o
  BY <1>2, TheSent
<1>5. /\ DOMAIN object' = DOMAIN object
      /\ object'[o] = new
      /\ \A u \in Response : u # o => object'[u] = object[u]
  <2>1. object' = [object EXCEPT ![o] = new]
    BY DEF ClearInputOnly
  <2>2. o \in DOMAIN object /\ Response \subseteq DOMAIN object
    BY <1>1, <1>4 DEF FunctionsInv
  <2> HIDE DEF o, new
  <2> QED
    BY <2>1, <2>2
<1>6. Becomes(Initially[o], new) /\ ~new.inputOnly /\ new.entries = object[o].entries
  BY <1>4, BecomesCleared
<1> HIDE DEF new
<1>7. FunctionsInv'
  BY <1>1, <1>2, <1>3, <1>5 DEF FunctionsInv
<1>8. ObjectsInv'
  BY <1>1, <1>5, <1>6 DEF ObjectsInv
<1>9. SendingInv'
  <2>1. IsSending(r)'
    <3>1. sending[r].entry = 1
      BY <1>2, <1>4 DEF IsSending
    <3>2. \A j \in 1 .. sending[r].entry - 1 : IsDone(Initially[o], new, j)
      BY <3>1
    <3>3. sending'[r] = sending[r] /\ sending'[r].object = o /\ ~object'[o].inputOnly
      BY <1>2, <1>5, <1>6
    <3>4. \A j \in 1 .. sending'[r].entry - 1 : IsDone(Initially[o], object'[o], j)
      BY <1>5, <3>2, <3>3
    <3> QED
      BY <1>3, <1>4, <3>3, <3>4 DEF IsSending
  <2>2. ASSUME NEW q \in RPC, q # r, pc[q] \in {"clear", "entries"} PROVE IsSending(q)'
    <3>1. IsSending(q) /\ sending[q].object \in Response
      BY <1>1, <2>2 DEF SendingInv, IsSending
    <3>2. object'[sending[q].object] = object[sending[q].object]
      BY <1>4, <1>5, <2>2, <3>1
    <3> QED
      BY <1>2, <1>3, <2>2, <3>1, <3>2, OthersSend
  <2> QED
    BY <1>1, <1>2, <1>3, <2>1, <2>2 DEF SendingInv
<1>10. WireInv' /\ ErrorInv' /\ LogInv'
  BY <1>1, <1>2, <1>3, SendingKeepsTheRest
<1>11. EntriesInv'
  BY <1>1, <1>2, KeepsEntriesInv DEF IsPast
<1>12. DebugInv'
  <2>1. \A u \in Response : object'[u].entries = object[u].entries
    BY <1>5, <1>6
  <2> QED
    BY <1>1, <1>2, <2>1, KeepsDebugInv
<1> QED
  BY <1>7, <1>8, <1>9, <1>10, <1>11, <1>12 DEF IInv

\* The loop goes on to the next entry.
LEMMA NextEntry ==
  ASSUME FunctionsInv, NEW r \in RPC, IsSending(r),
         sending' = [sending EXCEPT ![r].entry = @ + 1]
  PROVE  /\ DOMAIN sending' = RPC
         /\ sending'[r] = [object |-> sending[r].object, entry |-> sending[r].entry + 1]
         /\ \A q \in RPC : q # r => sending'[q] = sending[q]
<1> DEFINE o == sending[r].object
           i == sending[r].entry
<1>1. sending[r] = [object |-> o, entry |-> i]
  BY DEF IsSending
<1> HIDE DEF o, i
<1>2. [sending[r] EXCEPT !.entry = @ + 1] = [object |-> o, entry |-> i + 1]
  BY <1>1
<1>3. sending' = [sending EXCEPT ![r] = [sending[r] EXCEPT !.entry = @ + 1]]
  OBVIOUS
<1>4. sending' = [sending EXCEPT ![r] = [object |-> o, entry |-> i + 1]]
  BY <1>2, <1>3
<1> QED
  BY <1>4 DEF FunctionsInv, o, i

\* What is sent once the loop is past one more entry.
LEMMA NextKeepsSendingInv ==
  ASSUME FunctionsInv, SendingInv, NEW r \in RPC, NEW o \in Response, NEW i,
         i \in 1 .. Len(Initially[o].entries), pc[r] = "entries",
         sending[r] = [object |-> o, entry |-> i], sending'[r] = [object |-> o, entry |-> i + 1],
         \A q \in RPC : q # r => sending'[q] = sending[q],
         UNCHANGED <<pc, sends>>,
         \A u \in Response : u # o => object'[u] = object[u],
         object'[o].inputOnly = object[o].inputOnly,
         \A j \in 1 .. i : IsDone(Initially[o], object'[o], j)
  PROVE  SendingInv'
<1>1. sending[r].object = o /\ sending[r].entry = i /\ sending'[r].object = o /\ sending'[r].entry = i + 1
  OBVIOUS
<1>2. o # "none" /\ sending[r] # NotSending
  BY <1>1, HandlersAssumption DEF NotSending
<1>3. i \in Nat /\ i + 1 \in 1 .. Len(Initially[o].entries) + 1
  BY InitiallyIsResponse
<1>4. IsSending(r)'
  <2>1. ~object[o].inputOnly
    BY <1>1 DEF SendingInv, IsSending
  <2>2. \A j \in 1 .. i + 1 - 1 : IsDone(Initially[o], object'[o], j)
    BY <1>3
  <2> QED
    BY <1>1, <1>3, <2>1, <2>2 DEF IsSending
<1>5. ASSUME NEW q \in RPC, q # r, pc[q] \in {"clear", "entries"} PROVE IsSending(q)'
  <2>1. IsSending(q) /\ sending[q].object \in Response
    BY <1>5 DEF SendingInv, IsSending
  <2>2. sending[q].object # o
    BY <1>1, <1>2, <1>5 DEF SendingInv
  <2> QED
    BY <1>5, <2>1, <2>2, OthersSend
<1>6. ASSUME NEW q \in RPC, NEW p \in RPC, sending'[q].object = sending'[p].object
      PROVE  q = p \/ sending'[q] = NotSending
  BY <1>1, <1>2, <1>6 DEF SendingInv
<1> QED
  BY <1>4, <1>5, <1>6 DEF SendingInv

LEMMA SkipEntryKeepsIInv ==
  ASSUME IInv, NEW r \in RPC, SkipEntry(r)
  PROVE  IInv'
<1> DEFINE o == sending[r].object
           i == sending[r].entry
<1>1. /\ FunctionsInv /\ ObjectsInv /\ SendingInv /\ WireInv
      /\ ErrorInv /\ LogInv /\ EntriesInv /\ DebugInv
  BY DEF IInv
<1>2. /\ pc[r] = "entries" /\ UNCHANGED <<pc, err, object, sends, log, wire>>
      /\ sending' = [sending EXCEPT ![r].entry = @ + 1]
      /\ i <= Len(object[o].entries)
      /\ object[o].entries[i] = <<>> \/ object[o].dynamic
  BY DEF SkipEntry, Entry, Entries
<1>3. /\ o \in Response /\ IsSending(r) /\ Becomes(Initially[o], object[o])
      /\ i \in 1 .. Len(Initially[o].entries) + 1
      /\ sending[r] = [object |-> o, entry |-> i]
      /\ Len(object[o].entries) = Len(Initially[o].entries)
  BY <1>2, TheSent
<1> HIDE DEF o, i
<1>4. i \in 1 .. Len(Initially[o].entries) /\ i \in Nat /\ i \in DOMAIN Initially[o].entries
  BY <1>2, <1>3, InitiallyIsResponse
<1>5. /\ DOMAIN sending' = RPC /\ sending'[r] = [object |-> o, entry |-> i + 1]
      /\ \A q \in RPC : q # r => sending'[q] = sending[q]
  BY <1>1, <1>2, <1>3, NextEntry DEF o, i
<1>6. ~HasOneStatus(Initially[o], i)
  <2>1. CASE object[o].dynamic
    BY <1>3, <2>1 DEF Becomes, HasOneStatus
  <2>2. CASE object[o].entries[i] = <<>>
    <3>1. Len(Initially[o].entries[i]) = Len(object[o].entries[i])
      BY <1>3, <1>4 DEF Becomes
    <3> QED
      BY <2>2, <3>1 DEF HasOneStatus
  <2> QED
    BY <1>2, <2>1, <2>2
<1>7. FunctionsInv'
  BY <1>1, <1>2, <1>5 DEF FunctionsInv
<1>8. ObjectsInv'
  BY <1>1, <1>2 DEF ObjectsInv
<1>9. SendingInv'
  <2>1. sending[r].object = o /\ sending[r].entry = i
    BY DEF o, i
  <2>2. \A j \in 1 .. i - 1 : IsDone(Initially[o], object[o], j)
    BY <1>2, <1>3, <2>1 DEF IsSending
  <2>3. IsDone(Initially[o], object[o], i)
    BY <1>6 DEF IsDone
  <2>4. \A j \in 1 .. i : IsDone(Initially[o], object'[o], j)
    BY <1>2, <1>4, <2>2, <2>3
  <2> QED
    BY <1>1, <1>2, <1>3, <1>4, <1>5, <2>4, NextKeepsSendingInv
<1>10. WireInv' /\ ErrorInv' /\ LogInv'
  BY <1>1, <1>2, SendingKeepsTheRest
<1>11. EntriesInv'
  <2>1. ASSUME NEW q \in RPC, NEW u \in Response, NEW j \in DOMAIN Initially[u].entries,
               HasOneStatus(Initially[u], j)
        PROVE  IsPast(q, u, j)' <=> IsPast(q, u, j)
    <3>1. CASE q = r
      <4>1. j \in Nat /\ (u = o => j # i)
        BY <1>6, <2>1, InitiallyIsResponse
      <4> QED
        BY <1>3, <1>4, <1>5, <3>1, <4>1 DEF IsPast
    <3>2. CASE q # r
      BY <1>5, <3>2 DEF IsPast
    <3> QED
      BY <3>1, <3>2
  <2> QED
    BY <1>1, <1>2, <2>1, KeepsEntriesInv
<1>12. DebugInv'
  BY <1>1, <1>2, KeepsDebugInv
<1> QED
  BY <1>7, <1>8, <1>9, <1>10, <1>11, <1>12 DEF IInv

LEMMA Appended ==
  ASSUME NEW s, IsList(s), NEW x
  PROVE  LET t == Append(s, x)
             n == Len(s) + 1
         IN /\ IsList(t) /\ t # <<>> /\ Last(t) = x
            /\ Len(t) = n /\ n \notin DOMAIN s /\ DOMAIN t = DOMAIN s \cup {n}
            /\ t[n] = x
            /\ \A k \in DOMAIN s : t[k] = s[k]
<1> DEFINE S == ToSet(s) \cup {x}
           t == Append(s, x)
           n == Len(s) + 1
<1>1. s \in Seq(S) /\ x \in S
  BY DEF IsList
<1> HIDE DEF S
<1>2. /\ t \in Seq(S) /\ Len(t) = n /\ n \notin DOMAIN s /\ DOMAIN t = DOMAIN s \cup {n}
      /\ t[n] = x /\ \A k \in DOMAIN s : t[k] = s[k]
  BY <1>1
<1>3. IsList(t)
  BY <1>2, SeqIsList
<1>4. t # <<>> /\ Last(t) = x
  BY <1>1, <1>2 DEF Last
<1> QED
  BY <1>2, <1>3, <1>4

LEMMA FiniteDomain ==
  ASSUME NEW s, IsList(s), NEW I, I \subseteq DOMAIN s
  PROVE  IsFiniteSet(I) /\ Cardinality(I) \in Nat
<1>1. Len(s) \in Nat /\ DOMAIN s = 1 .. Len(s)
  BY ListDomain
<1>2. IsFiniteSet(1 .. Len(s))
  BY <1>1, FS_Interval
<1>3. IsFiniteSet(I)
  BY <1>1, <1>2, FS_Subset
<1> QED
  BY <1>3, FS_CardinalityType

\* A record more in the log of r.
Logs(r, record) == log' = [log EXCEPT ![r] = Append(@, record)]

LEMMA OneRecordMore ==
  ASSUME FunctionsInv, \A q \in RPC : IsList(log[q]), NEW r \in RPC, NEW record, Logs(r, record)
  PROVE  LET n == Len(log[r]) + 1
         IN /\ DOMAIN log' = RPC /\ \A q \in RPC : q # r => log'[q] = log[q]
            /\ \A q \in RPC : IsList(log'[q])
            /\ \A q \in RPC : \A k \in DOMAIN log[q] : k \in DOMAIN log'[q] /\ log'[q][k] = log[q][k]
            /\ n \notin DOMAIN log[r] /\ n \in DOMAIN log'[r] /\ log'[r][n] = record
            /\ \A q \in RPC : q # r => \A of, i : Records(q, of, i)' = Records(q, of, i)
            /\ \A of, i : of # record.of \/ i # record.index => Records(r, of, i)' = Records(r, of, i)
            /\ Records(r, record.of, record.index)' = Records(r, record.of, record.index) \cup {n}
<1> DEFINE n == Len(log[r]) + 1
<1>1. DOMAIN log' = RPC /\ log'[r] = Append(log[r], record) /\ \A q \in RPC : q # r => log'[q] = log[q]
  BY DEF FunctionsInv, Logs
<1>2. /\ IsList(log'[r])
      /\ n \notin DOMAIN log[r] /\ DOMAIN log'[r] = DOMAIN log[r] \cup {n}
      /\ log'[r][n] = record
      /\ \A k \in DOMAIN log[r] : log'[r][k] = log[r][k]
  BY <1>1, Appended
<1> HIDE DEF n
<1>3. ASSUME NEW q \in RPC, NEW of, NEW i, q # r PROVE Records(q, of, i)' = Records(q, of, i)
  BY <1>1, <1>3 DEF Records
<1>4. ASSUME NEW of, NEW i, of # record.of \/ i # record.index PROVE Records(r, of, i)' = Records(r, of, i)
  BY <1>2, <1>4 DEF Records
<1>5. Records(r, record.of, record.index)' = Records(r, record.of, record.index) \cup {n}
  BY <1>2 DEF Records
<1>6. ASSUME NEW q \in RPC
      PROVE  /\ IsList(log'[q])
             /\ \A k \in DOMAIN log[q] : k \in DOMAIN log'[q] /\ log'[q][k] = log[q][k]
  BY <1>1, <1>2
<1> QED
  BY <1>1, <1>2, <1>3, <1>4, <1>5, <1>6 DEF n

\* One more on the wire of r.
Wires(r, of, body) == wire' = [wire EXCEPT ![r] = Append(@, Sent(of, body))]

LEMMA OneSentMore ==
  ASSUME FunctionsInv, \A q \in RPC : IsList(wire[q]), NEW r \in RPC, NEW of, NEW body, Wires(r, of, body)
  PROVE  LET n == Len(wire[r]) + 1
         IN /\ DOMAIN wire' = RPC /\ \A q \in RPC : q # r => wire'[q] = wire[q]
            /\ \A q \in RPC : IsList(wire'[q])
            /\ \A k \in DOMAIN wire[r] : wire'[r][k] = wire[r][k]
            /\ wire'[r] # <<>> /\ Last(wire'[r]) = Sent(of, body)
            /\ n \notin DOMAIN wire[r] /\ wire'[r][n].of = of /\ wire'[r][n].body = body
            /\ \A q \in RPC : q # r \/ of \notin Response => ResponsesSent(q)' = ResponsesSent(q)
            /\ of \in Response => ResponsesSent(r)' = ResponsesSent(r) \cup {n}
<1> DEFINE n == Len(wire[r]) + 1
           item == Sent(of, body)
<1>1. DOMAIN wire' = RPC /\ wire'[r] = Append(wire[r], item) /\ \A q \in RPC : q # r => wire'[q] = wire[q]
  BY DEF FunctionsInv, Wires
<1>2. item.of = of /\ item.body = body
  BY DEF Sent
<1> HIDE DEF item
<1>3. /\ IsList(wire'[r]) /\ wire'[r] # <<>> /\ Last(wire'[r]) = item
      /\ n \notin DOMAIN wire[r] /\ DOMAIN wire'[r] = DOMAIN wire[r] \cup {n}
      /\ wire'[r][n] = item
      /\ \A k \in DOMAIN wire[r] : wire'[r][k] = wire[r][k]
  BY <1>1, Appended
<1> HIDE DEF n
<1>4. ASSUME NEW q \in RPC, q # r PROVE ResponsesSent(q)' = ResponsesSent(q)
  BY <1>1, <1>4 DEF ResponsesSent
<1>5. ASSUME of \notin Response PROVE ResponsesSent(r)' = ResponsesSent(r)
  BY <1>2, <1>3, <1>5 DEF ResponsesSent
<1>6. ASSUME of \in Response PROVE ResponsesSent(r)' = ResponsesSent(r) \cup {n}
  BY <1>2, <1>3, <1>6 DEF ResponsesSent
<1> QED
  BY <1>1, <1>2, <1>3, <1>4, <1>5, <1>6 DEF n, item

----------------------------------------------------------------------------
(* The end of a failed RPC.                                                *)

\* A step of r that is outside a Send before and after.
LEMMA OutsideASend ==
  ASSUME SendingInv, NEW r \in RPC, UNCHANGED <<sending, object, sends>>,
         pc[r] \notin {"clear", "entries"}, pc'[r] \notin {"clear", "entries"},
         \A q \in RPC : q # r => pc'[q] = pc[q]
  PROVE  SendingInv'
<1>1. ASSUME NEW q \in RPC, pc[q] \in {"clear", "entries"} PROVE IsSending(q) /\ IsSending(q)'
  <2>1. IsSending(q) /\ q # r
    BY <1>1 DEF SendingInv
  <2> QED
    BY <2>1, OthersSend
<1> QED
  BY <1>1 DEF SendingInv

LEMMA LogKeepsIInv ==
  ASSUME IInv, NEW r \in RPC, Log(r)
  PROVE  IInv'
<1> DEFINE record == Record(err[r])
           n == Len(log[r]) + 1
<1>1. /\ FunctionsInv /\ ObjectsInv /\ SendingInv /\ WireInv
      /\ ErrorInv /\ LogInv /\ EntriesInv /\ DebugInv
  BY DEF IInv
<1>2. pc[r] = "failed" /\ UNCHANGED <<err, sending, object, sends, wire>>
  BY DEF Log
<1>3. pc' \in [RPC -> Places] /\ pc'[r] = "logged" /\ \A q \in RPC : q # r => pc'[q] = pc[q]
  BY <1>1 DEF Log, FunctionsInv, Places
<1>4. record.of = "rpc" /\ record.index = 0
  BY DEF Record
<1>5. Logs(r, record) /\ \A q \in RPC : IsList(log[q])
  BY <1>1 DEF Log, Logs, LogInv
<1> HIDE DEF record
<1>6. /\ DOMAIN log' = RPC
      /\ \A q \in RPC : IsList(log'[q])
      /\ \A q \in RPC : \A k \in DOMAIN log[q] : k \in DOMAIN log'[q] /\ log'[q][k] = log[q][k]
      /\ n \in DOMAIN log'[r] /\ log'[r][n] = record
      /\ \A q \in RPC : q # r => \A of, i : Records(q, of, i)' = Records(q, of, i)
      /\ \A of, i : of # "rpc" \/ i # 0 => Records(r, of, i)' = Records(r, of, i)
      /\ Records(r, "rpc", 0)' = Records(r, "rpc", 0) \cup {n}
  <2>1. FunctionsInv
    BY <1>1
  <2>2. DOMAIN log' = RPC /\ \A q \in RPC : IsList(log'[q])
    BY <1>4, <1>5, <2>1, OneRecordMore
  <2>3. \A q \in RPC : \A k \in DOMAIN log[q] : k \in DOMAIN log'[q] /\ log'[q][k] = log[q][k]
    BY <1>4, <1>5, <2>1, OneRecordMore
  <2>4. n \in DOMAIN log'[r] /\ log'[r][n] = record
    BY <1>4, <1>5, <2>1, OneRecordMore
  <2>5. \A q \in RPC : q # r => \A of, i : Records(q, of, i)' = Records(q, of, i)
    BY <1>4, <1>5, <2>1, OneRecordMore
  <2>6. \A of, i : of # "rpc" \/ i # 0 => Records(r, of, i)' = Records(r, of, i)
    BY <1>4, <1>5, <2>1, OneRecordMore
  <2>7. Records(r, "rpc", 0)' = Records(r, "rpc", 0) \cup {n}
    BY <1>4, <1>5, <2>1, OneRecordMore
  <2> QED
    BY <2>2, <2>3, <2>4, <2>5, <2>6, <2>7
<1> HIDE DEF n
<1>7. \A q \in RPC : \A o \in Response : \A i : Records(q, o, i)' = Records(q, o, i)
  BY <1>4, <1>6, HandlersAssumption
<1>8. ASSUME NEW q \in RPC PROVE Answered(q)' <=> Answered(q)
  <2>1. CASE q = r
    BY <1>2, <1>3, <2>1 DEF Answered
  <2>2. CASE q # r
    BY <1>2, <1>3, <2>2 DEF Answered
  <2> QED
    BY <2>1, <2>2
<1>9. FunctionsInv'
  BY <1>1, <1>2, <1>3, <1>6 DEF FunctionsInv
<1>10. ObjectsInv'
  BY <1>1, <1>2 DEF ObjectsInv
<1>11. SendingInv'
  BY <1>1, <1>2, <1>3, OutsideASend
<1>12. WireInv'
  BY <1>1, <1>2 DEF WireInv, ResponsesSent
<1>13. ErrorInv'
  <2>1. ASSUME NEW q \in RPC PROVE Failing(q)' <=> Failing(q)
    <3>1. CASE q = r
      BY <1>2, <1>3, <3>1 DEF Failing
    <3>2. CASE q # r
      BY <1>3, <1>8, <3>2 DEF Failing
    <3> QED
      BY <3>1, <3>2
  <2> QED
    BY <1>1, <1>2, <1>8, <2>1 DEF ErrorInv
<1>14. LogInv'
  <2>1. Records(r, "rpc", 0)' = {n}
    <3>1. Records(r, "rpc", 0) = {}
      BY <1>1, <1>2 DEF LogInv, Answered
    <3> QED
      BY <1>4, <1>6, <3>1
  <2>2. log'[r][n] = Record(err'[r])
    BY <1>2, <1>6 DEF record
  <2>3. \E k \in DOMAIN log'[r] : Records(r, "rpc", 0)' = {k} /\ log'[r][k] = Record(err'[r])
    BY <1>6, <2>1, <2>2
  <2>4. ASSUME NEW q \in RPC, q # r
        PROVE  IF pc'[q] = "logged" \/ Answered(q)'
               THEN \E k \in DOMAIN log'[q] : Records(q, "rpc", 0)' = {k} /\ log'[q][k] = Record(err'[q])
               ELSE Records(q, "rpc", 0)' = {}
    BY <1>1, <1>2, <1>3, <1>6, <1>8, <2>4 DEF LogInv
  <2> QED
    BY <1>3, <1>6, <2>3, <2>4 DEF LogInv
<1>15. EntriesInv'
  <2>1. \A q, o : SentOf(q, o)' = SentOf(q, o)
    BY <1>2 DEF SentOf, ResponsesSent
  <2>2. \A q, o, i : IsPast(q, o, i)' <=> IsPast(q, o, i)
    BY <1>2 DEF IsPast
  <2> QED
    BY <1>1, <1>7, <2>1, <2>2 DEF EntriesInv
<1>16. DebugInv'
  <2>1. ASSUME NEW o \in Response, NEW i
        PROVE  /\ WithDebug(o, i)' = WithDebug(o, i)
               /\ \A p \in WithDebug(o, i) : log'[p[1]][p[2]] = log[p[1]][p[2]]
    <3>1. \A q \in RPC : \A k \in Records(q, o, i) : log'[q][k] = log[q][k]
      BY <1>6 DEF Records
    <3> QED
      BY <1>7, <3>1 DEF WithDebug
  <2> QED
    BY <1>1, <1>2, <2>1 DEF DebugInv
<1> QED
  BY <1>9, <1>10, <1>11, <1>12, <1>13, <1>14, <1>15, <1>16 DEF IInv

LEMMA AnswersKeepsIInv ==
  ASSUME IInv, NEW r \in RPC, Answers(r)
  PROVE  IInv'
<1> DEFINE answer == Answer(err[r])
<1>1. /\ FunctionsInv /\ ObjectsInv /\ SendingInv /\ WireInv
      /\ ErrorInv /\ LogInv /\ EntriesInv /\ DebugInv
  BY DEF IInv
<1>2. pc[r] = "logged" /\ UNCHANGED <<err, sending, object, sends, log>>
  BY DEF Answers
<1>3. pc' \in [RPC -> Places] /\ pc'[r] = "done" /\ \A q \in RPC : q # r => pc'[q] = pc[q]
  BY <1>1 DEF Answers, FunctionsInv, Places
<1>4. Wires(r, "answer", answer) /\ \A q \in RPC : IsList(wire[q])
  BY <1>1 DEF Answers, Wires, WireInv
<1> HIDE DEF answer
<1>5. "answer" \notin Response
  BY HandlersAssumption
<1>6. /\ DOMAIN wire' = RPC /\ \A q \in RPC : q # r => wire'[q] = wire[q]
      /\ \A q \in RPC : IsList(wire'[q])
      /\ \A k \in DOMAIN wire[r] : wire'[r][k] = wire[r][k]
      /\ wire'[r] # <<>> /\ Last(wire'[r]) = Sent("answer", answer)
      /\ \A q \in RPC : ResponsesSent(q)' = ResponsesSent(q)
  <2>1. FunctionsInv
    BY <1>1
  <2> QED
    BY <1>4, <1>5, <2>1, OneSentMore
<1>7. err[r].code # "ok"
  BY <1>1, <1>2 DEF ErrorInv, Failing
<1>8. Answered(r)' /\ ~Answered(r)
  BY <1>2, <1>3, <1>7 DEF Answered
<1>9. ASSUME NEW q \in RPC, q # r PROVE Answered(q)' <=> Answered(q)
  BY <1>2, <1>3, <1>9 DEF Answered
<1>10. \A q \in RPC : \A k \in ResponsesSent(q) : wire'[q][k] = wire[q][k]
  BY <1>6 DEF ResponsesSent
<1>11. FunctionsInv'
  BY <1>1, <1>2, <1>3, <1>6 DEF FunctionsInv
<1>12. ObjectsInv'
  BY <1>1, <1>2 DEF ObjectsInv
<1>13. SendingInv'
  BY <1>1, <1>2, <1>3, OutsideASend
<1>14. WireInv'
  BY <1>1, <1>6, <1>10 DEF WireInv
<1>15. ErrorInv'
  <2>1. ASSUME NEW q \in RPC PROVE Failing(q)' => err'[q].code # "ok"
    <3>1. CASE q = r
      BY <1>2, <1>7, <3>1
    <3>2. CASE q # r
      BY <1>1, <1>2, <1>3, <1>9, <3>2 DEF ErrorInv, Failing
    <3> QED
      BY <3>1, <3>2
  <2>2. ASSUME NEW q \in RPC, Answered(q)'
        PROVE  wire'[q] # <<>> /\ Last(wire'[q]) = Sent("answer", Answer(err'[q]))
    <3>1. CASE q = r
      BY <1>2, <1>6, <3>1 DEF answer
    <3>2. CASE q # r
      BY <1>1, <1>2, <1>6, <1>9, <2>2, <3>2 DEF ErrorInv
    <3> QED
      BY <3>1, <3>2
  <2> QED
    BY <1>1, <1>2, <2>1, <2>2 DEF ErrorInv
<1>16. LogInv'
  <2>1. \A q, of, i : Records(q, of, i)' = Records(q, of, i)
    BY <1>2 DEF Records
  <2>2. ASSUME NEW q \in RPC PROVE (pc'[q] = "logged" \/ Answered(q)') <=> (pc[q] = "logged" \/ Answered(q))
    <3>1. CASE q = r
      BY <1>2, <1>8, <3>1
    <3>2. CASE q # r
      BY <1>3, <1>9, <3>2
    <3> QED
      BY <3>1, <3>2
  <2> QED
    BY <1>1, <1>2, <2>1, <2>2 DEF LogInv
<1>17. EntriesInv'
  <2>1. \A q, o, i : Records(q, o, i)' = Records(q, o, i) /\ (IsPast(q, o, i)' <=> IsPast(q, o, i))
    BY <1>2 DEF Records, IsPast
  <2>2. \A q \in RPC : \A o : SentOf(q, o)' = SentOf(q, o)
    BY <1>6, <1>10 DEF SentOf
  <2> QED
    BY <1>1, <2>1, <2>2 DEF EntriesInv
<1>18. DebugInv'
  BY <1>1, <1>2, KeepsDebugInv
<1> QED
  BY <1>11, <1>12, <1>13, <1>14, <1>15, <1>16, <1>17, <1>18 DEF IInv

----------------------------------------------------------------------------
(* The end of a Send.                                                      *)

\* Once the loop is over all entries, the response may go.
LEMMA ReadyToSend ==
  ASSUME IInv, NEW r \in RPC, pc[r] = "entries", sending[r].entry > Len(Entries(r))
  PROVE  LET o == sending[r].object
         IN /\ o \in Response /\ SentAs(Initially[o], object[o])
            /\ \A i \in DOMAIN Initially[o].entries : IsPast(r, o, i)
<1> DEFINE o == sending[r].object
           e == sending[r].entry
<1>1. /\ o \in Response /\ IsSending(r) /\ e \in 1 .. Len(Initially[o].entries) + 1
      /\ Becomes(Initially[o], object[o])
      /\ Len(object[o].entries) = Len(Initially[o].entries)
  BY TheSent
<1>2. ~object[o].inputOnly /\ \A j \in 1 .. e - 1 : IsDone(Initially[o], object[o], j)
  BY <1>1 DEF IsSending
<1>3. e > Len(Initially[o].entries)
  BY <1>1 DEF Entries
<1> HIDE DEF e
<1>4. Len(Initially[o].entries) \in Nat /\ DOMAIN Initially[o].entries = 1 .. Len(Initially[o].entries)
  BY <1>1, InitiallyIsResponse
<1>5. \A i \in DOMAIN Initially[o].entries : i \in 1 .. e - 1 /\ i < e
  BY <1>1, <1>3, <1>4
<1> QED
  BY <1>1, <1>2, <1>5 DEF SentAs, IsPast, e

\* The wire after a SendOut: one response more, or none.
LEMMA SentOutOnWire ==
  ASSUME IInv, NEW r \in RPC, SendOut(r)
  PROVE  /\ DOMAIN wire' = RPC /\ \A q \in RPC : q # r => wire'[q] = wire[q]
         /\ WireInv'
         /\ \A o \in Response :
              /\ Cardinality(SentOf(r, o)) \in Nat
              /\ \/ SentOf(r, o)' = SentOf(r, o)
                 \/ /\ o = sending[r].object
                    /\ Cardinality(SentOf(r, o)') = Cardinality(SentOf(r, o)) + 1
<1> DEFINE o == sending[r].object
           body == object[o]
           n == Len(wire[r]) + 1
<1>1. FunctionsInv /\ WireInv /\ \A q \in RPC : IsList(wire[q])
  BY DEF IInv, WireInv
<1>2. o \in Response /\ SentAs(Initially[o], body)
  BY ReadyToSend DEF SendOut
<1>3. \A u : IsFiniteSet(SentOf(r, u)) /\ Cardinality(SentOf(r, u)) \in Nat
  <2>1. \A u : SentOf(r, u) \subseteq DOMAIN wire[r]
    BY DEF SentOf, ResponsesSent
  <2> QED
    BY <1>1, <2>1, FiniteDomain
<1> HIDE DEF o, body
<1>4. CASE Wires(r, o, body)
  <2>1. /\ DOMAIN wire' = RPC /\ \A q \in RPC : q # r => wire'[q] = wire[q]
        /\ \A q \in RPC : IsList(wire'[q])
        /\ \A k \in DOMAIN wire[r] : wire'[r][k] = wire[r][k]
        /\ n \notin DOMAIN wire[r] /\ wire'[r][n].of = o /\ wire'[r][n].body = body
        /\ \A q \in RPC : q # r => ResponsesSent(q)' = ResponsesSent(q)
        /\ ResponsesSent(r)' = ResponsesSent(r) \cup {n}
    BY <1>1, <1>2, <1>4, OneSentMore
  <2> HIDE DEF n
  <2>2. \A q \in RPC : \A k \in ResponsesSent(q) : wire'[q][k] = wire[q][k]
    BY <2>1 DEF ResponsesSent
  <2>3. WireInv'
    <3>1. ASSUME NEW q \in RPC, NEW k \in ResponsesSent(q)'
          PROVE  SentAs(Initially[wire'[q][k].of], wire'[q][k].body)
      <4>1. CASE k \in ResponsesSent(q)
        BY <1>1, <2>2, <4>1 DEF WireInv
      <4>2. CASE k \notin ResponsesSent(q)
        <5>1. q = r /\ k = n
          BY <2>1, <3>1, <4>2
        <5> QED
          BY <1>2, <2>1, <5>1
      <4> QED
        BY <4>1, <4>2
    <3> QED
      BY <2>1, <3>1 DEF WireInv
  <2>4. ASSUME NEW u \in Response, u # o PROVE SentOf(r, u)' = SentOf(r, u)
    BY <2>1, <2>2, <2>4 DEF SentOf
  <2>5. ASSUME NEW u \in Response, u = o PROVE SentOf(r, u)' = SentOf(r, u) \cup {n} /\ n \notin SentOf(r, u)
    BY <2>1, <2>2, <2>5 DEF SentOf, ResponsesSent
  <2>6. ASSUME NEW u \in Response, u = o PROVE Cardinality(SentOf(r, u)') = Cardinality(SentOf(r, u)) + 1
    BY <1>3, <2>5, <2>6, FS_AddElement
  <2>7. \A u \in Response :
          \/ SentOf(r, u)' = SentOf(r, u)
          \/ u = o /\ Cardinality(SentOf(r, u)') = Cardinality(SentOf(r, u)) + 1
    BY <2>4, <2>6
  <2> QED
    BY <1>3, <2>1, <2>3, <2>7 DEF o
<1>5. CASE UNCHANGED wire
  <2>1. WireInv' /\ \A u : SentOf(r, u)' = SentOf(r, u)
    BY <1>1, <1>5 DEF WireInv, SentOf, ResponsesSent
  <2> QED
    BY <1>1, <1>3, <1>5, <2>1 DEF FunctionsInv
<1> QED
  BY <1>4, <1>5 DEF SendOut, Wires, o, body

\* A Send of r is over, with one response more on the wire, the one it was past the
\* entries of, or with none.
Leaves(r, to) ==
  /\ pc[r] = "entries"
  /\ to \in {"handler", "panicked"}
  /\ pc' = [pc EXCEPT ![r] = to]
  /\ sending' = [sending EXCEPT ![r] = NotSending]
  /\ UNCHANGED <<err, object, sends, log>>
  /\ DOMAIN wire' = RPC /\ \A q \in RPC : q # r => wire'[q] = wire[q]
  /\ WireInv'
  /\ \A o \in Response :
       /\ Cardinality(SentOf(r, o)) \in Nat
       /\ \/ SentOf(r, o)' = SentOf(r, o)
          \/ /\ \A i \in DOMAIN Initially[o].entries : IsPast(r, o, i)
             /\ Cardinality(SentOf(r, o)') = Cardinality(SentOf(r, o)) + 1

LEMMA SendOutLeaves ==
  ASSUME IInv, NEW r \in RPC, SendOut(r)
  PROVE  Leaves(r, "handler")
<1>1. /\ DOMAIN wire' = RPC /\ \A q \in RPC : q # r => wire'[q] = wire[q]
      /\ WireInv'
      /\ \A o \in Response :
           /\ Cardinality(SentOf(r, o)) \in Nat
           /\ \/ SentOf(r, o)' = SentOf(r, o)
              \/ /\ o = sending[r].object
                 /\ Cardinality(SentOf(r, o)') = Cardinality(SentOf(r, o)) + 1
  BY SentOutOnWire
<1>2. \A o \in Response : o = sending[r].object => \A i \in DOMAIN Initially[o].entries : IsPast(r, o, i)
  BY ReadyToSend DEF SendOut
<1>3. \A o \in Response :
        \/ SentOf(r, o)' = SentOf(r, o)
        \/ /\ \A i \in DOMAIN Initially[o].entries : IsPast(r, o, i)
           /\ Cardinality(SentOf(r, o)') = Cardinality(SentOf(r, o)) + 1
  BY <1>1, <1>2
<1>4. /\ pc[r] = "entries" /\ pc' = [pc EXCEPT ![r] = "handler"]
      /\ sending' = [sending EXCEPT ![r] = NotSending]
      /\ UNCHANGED <<err, object, sends, log>>
  BY DEF SendOut
<1> QED
  BY <1>1, <1>3, <1>4 DEF Leaves

LEMMA PanicsLeaves ==
  ASSUME IInv, NEW r \in RPC, Panics(r)
  PROVE  Leaves(r, "panicked")
<1>1. /\ pc[r] = "entries" /\ pc' = [pc EXCEPT ![r] = "panicked"]
      /\ sending' = [sending EXCEPT ![r] = NotSending]
      /\ UNCHANGED <<err, object, sends, log, wire>>
  BY DEF Panics
<1>2. FunctionsInv /\ WireInv /\ \A q \in RPC : IsList(wire[q])
  BY DEF IInv, WireInv
<1>3. WireInv' /\ \A o : SentOf(r, o)' = SentOf(r, o)
  BY <1>1, <1>2 DEF WireInv, SentOf, ResponsesSent
<1>4. \A o : Cardinality(SentOf(r, o)) \in Nat
  <2>1. \A o : SentOf(r, o) \subseteq DOMAIN wire[r]
    BY DEF SentOf, ResponsesSent
  <2> QED
    BY <1>2, <2>1, FiniteDomain
<1>5. DOMAIN wire' = RPC /\ \A q \in RPC : q # r => wire'[q] = wire[q]
  BY <1>1, <1>2 DEF FunctionsInv
<1> QED
  BY <1>1, <1>3, <1>4, <1>5 DEF Leaves

LEMMA LeavesKeepsIInv ==
  ASSUME IInv, NEW r \in RPC, NEW to, Leaves(r, to)
  PROVE  IInv'
<1>1. /\ FunctionsInv /\ ObjectsInv /\ SendingInv /\ WireInv
      /\ ErrorInv /\ LogInv /\ EntriesInv /\ DebugInv
  BY DEF IInv
<1>2. pc[r] = "entries" /\ to \in {"handler", "panicked"} /\ UNCHANGED <<err, object, sends, log>>
  BY DEF Leaves
<1>3. pc' \in [RPC -> Places] /\ pc'[r] = to /\ \A q \in RPC : q # r => pc'[q] = pc[q]
  BY <1>1 DEF Leaves, FunctionsInv, Places
<1>4. DOMAIN sending' = RPC /\ sending'[r] = NotSending /\ \A q \in RPC : q # r => sending'[q] = sending[q]
  BY <1>1 DEF Leaves, FunctionsInv
<1>5. /\ DOMAIN wire' = RPC /\ \A q \in RPC : q # r => wire'[q] = wire[q]
      /\ WireInv'
      /\ \A o \in Response :
           /\ Cardinality(SentOf(r, o)) \in Nat
           /\ \/ SentOf(r, o)' = SentOf(r, o)
              \/ /\ \A i \in DOMAIN Initially[o].entries : IsPast(r, o, i)
                 /\ Cardinality(SentOf(r, o)') = Cardinality(SentOf(r, o)) + 1
  BY DEF Leaves
<1>6. FunctionsInv'
  BY <1>1, <1>2, <1>3, <1>4, <1>5 DEF FunctionsInv
<1>7. ObjectsInv'
  BY <1>1, <1>2 DEF ObjectsInv
<1>8. SendingInv'
  <2>1. ASSUME NEW q \in RPC, q # r
        PROVE  IF pc'[q] \in {"clear", "entries"} THEN IsSending(q)' ELSE sending'[q] = NotSending
    BY <1>1, <1>2, <1>3, <1>4, <2>1, OthersSend DEF SendingInv
  <2>2. ASSUME NEW q \in RPC, NEW p \in RPC, sending'[q].object = sending'[p].object
        PROVE  q = p \/ sending'[q] = NotSending
    <3>1. ASSUME NEW u \in RPC, u # r, sending[u].object = "none" PROVE sending[u] = NotSending
      <4>1. "none" \notin Response
        BY HandlersAssumption
      <4> QED
        BY <1>1, <3>1, <4>1 DEF SendingInv, IsSending
    <3>2. CASE q = r
      BY <1>4, <3>2
    <3>3. CASE q # r /\ p = r
      BY <1>4, <2>2, <3>1, <3>3 DEF NotSending
    <3>4. CASE q # r /\ p # r
      BY <1>1, <1>4, <2>2, <3>4 DEF SendingInv
    <3> QED
      BY <3>2, <3>3, <3>4
  <2> QED
    BY <1>1, <1>2, <1>3, <1>4, <2>1, <2>2 DEF SendingInv
<1>9. ASSUME NEW q \in RPC
       PROVE  /\ Answered(q)' <=> Answered(q)
              /\ Failing(q)' <=> Failing(q)
              /\ pc'[q] = "logged" <=> pc[q] = "logged"
              /\ Answered(q) => wire'[q] = wire[q]
  <2>1. CASE q = r
    BY <1>2, <1>3, <2>1 DEF Answered, Failing
  <2>2. CASE q # r
    BY <1>2, <1>3, <1>5, <2>2 DEF Answered, Failing
  <2> QED
    BY <2>1, <2>2
<1>10. ErrorInv'
  BY <1>1, <1>2, <1>9 DEF ErrorInv
<1>11. LogInv'
  <2>1. \A q : Records(q, "rpc", 0)' = Records(q, "rpc", 0)
    BY <1>2 DEF Records
  <2> QED
    BY <1>1, <1>2, <1>9, <2>1 DEF LogInv
<1>12. EntriesInv'
  <2>1. \A q, o, i : Records(q, o, i)' = Records(q, o, i)
    BY <1>2 DEF Records
  <2>2. ASSUME NEW q \in RPC, NEW o \in Response, NEW i \in DOMAIN Initially[o].entries,
               HasOneStatus(Initially[o], i), ErrorLogLevel(Initially[o].entries[i][1].code) = "error"
        PROVE  Cardinality(Records(q, o, i)') >= Cardinality(SentOf(q, o)') + (IF IsPast(q, o, i)' THEN 1 ELSE 0)
    <3>1. Cardinality(Records(q, o, i)) >= Cardinality(SentOf(q, o)) + (IF IsPast(q, o, i) THEN 1 ELSE 0)
      BY <1>1, <2>2 DEF EntriesInv
    <3>2. CASE q # r
      <4>1. SentOf(q, o)' = SentOf(q, o) /\ (IsPast(q, o, i)' <=> IsPast(q, o, i))
        BY <1>4, <1>5, <3>2 DEF SentOf, ResponsesSent, IsPast
      <4> QED
        BY <2>1, <3>1, <4>1
    <3>3. CASE q = r
      <4>1. ~IsPast(r, o, i)'
        <5>1. o # "none"
          BY HandlersAssumption
        <5> QED
          BY <1>4, <5>1 DEF IsPast, NotSending
      <4>2. IsFiniteSet(Records(r, o, i)) /\ Cardinality(Records(r, o, i)) \in Nat
        <5>1. Records(r, o, i) \subseteq DOMAIN log[r] /\ IsList(log[r])
          BY <1>1 DEF Records, LogInv
        <5> QED
          BY <5>1, FiniteDomain
      <4>4. Cardinality(Records(r, o, i)) >= Cardinality(SentOf(r, o)')
        <5>1. CASE SentOf(r, o)' = SentOf(r, o)
          BY <1>5, <3>1, <3>3, <4>2, <5>1
        <5>2. CASE /\ \A j \in DOMAIN Initially[o].entries : IsPast(r, o, j)
                   /\ Cardinality(SentOf(r, o)') = Cardinality(SentOf(r, o)) + 1
          BY <1>5, <2>2, <3>1, <3>3, <4>2, <5>2
        <5> QED
          BY <1>5, <5>1, <5>2
      <4>5. Cardinality(SentOf(r, o)') \in Nat
        <5>1. CASE SentOf(r, o)' = SentOf(r, o)
          BY <1>5, <5>1
        <5>2. CASE Cardinality(SentOf(r, o)') = Cardinality(SentOf(r, o)) + 1
          BY <1>5, <5>2
        <5> QED
          BY <1>5, <5>1, <5>2
      <4> QED
        BY <2>1, <3>3, <4>1, <4>4, <4>5
    <3> QED
      BY <3>2, <3>3
  <2> QED
    BY <1>1, <2>1, <2>2 DEF EntriesInv
<1>13. DebugInv'
  BY <1>1, <1>2, KeepsDebugInv
<1> QED
  BY <1>5, <1>6, <1>7, <1>8, <1>10, <1>11, <1>12, <1>13 DEF IInv

----------------------------------------------------------------------------
(* One turn of the loop over the entries.                                  *)

\* r, sending o and come to entry i, strips the status f of it.
Strips(r, o, i, f) ==
  LET status == object[o].entries[i][f]
  IN /\ pc[r] = "entries"
     /\ IsSending(r) /\ sending[r] = [object |-> o, entry |-> i]
     /\ ~object[o].dynamic
     /\ object' = [object EXCEPT ![o].entries[i][f] = Stripped(@)]
     /\ IF ErrorLogLevel(status.code) = "error"
        THEN Logs(r, EntryRecord(o, i, status))
        ELSE DOMAIN log' = RPC /\ \A q \in RPC : log'[q] = log[q]
     /\ sending' = [sending EXCEPT ![r].entry = @ + 1]
     /\ UNCHANGED <<pc, err, sends, wire>>

LEMMA StripEntryStrips ==
  ASSUME IInv, NEW r \in RPC, StripEntry(r)
  PROVE  \E o \in Response : \E i \in DOMAIN Initially[o].entries : \E f \in DOMAIN object[o].entries[i] :
           Strips(r, o, i, f)
<1> DEFINE o == sending[r].object
           i == sending[r].entry
<1>1. FunctionsInv /\ pc[r] = "entries"
  BY DEF IInv, StripEntry
<1>2. /\ o \in Response /\ IsSending(r)
      /\ i \in 1 .. Len(Initially[o].entries) + 1
      /\ sending[r] = [object |-> o, entry |-> i]
      /\ Len(object[o].entries) = Len(Initially[o].entries)
  BY <1>1, TheSent
<1>3. PICK f \in DOMAIN object[o].entries[i] :
        /\ object' = [object EXCEPT ![o].entries[i][f] = Stripped(@)]
        /\ log' = [log EXCEPT ![r] =
             IF ErrorLogLevel(object[o].entries[i][f].code) = "error"
             THEN Append(@, EntryRecord(o, i, object[o].entries[i][f])) ELSE @]
  BY DEF StripEntry, Entry, Entries
<1>4. i \in DOMAIN Initially[o].entries
  <2>1. i <= Len(Initially[o].entries)
    BY <1>2 DEF StripEntry, Entries
  <2> QED
    BY <1>2, <2>1, InitiallyIsResponse
<1> DEFINE status == object[o].entries[i][f]
<1>5. IF ErrorLogLevel(status.code) = "error"
      THEN Logs(r, EntryRecord(o, i, status))
      ELSE DOMAIN log' = RPC /\ \A q \in RPC : log'[q] = log[q]
  <2>1. CASE ErrorLogLevel(status.code) = "error"
    BY <1>3, <2>1 DEF Logs
  <2>2. CASE ErrorLogLevel(status.code) # "error"
    BY <1>1, <1>3, <2>2 DEF FunctionsInv
  <2> QED
    BY <2>1, <2>2
<1>6. ~object[o].dynamic /\ sending' = [sending EXCEPT ![r].entry = @ + 1] /\ UNCHANGED <<pc, err, sends, wire>>
  BY DEF StripEntry
<1>7. Strips(r, o, i, f)
  BY <1>1, <1>2, <1>3, <1>5, <1>6 DEF Strips
<1> QED
  BY <1>2, <1>3, <1>4, <1>7

\* The log of such a step: one record more, or none.
LEMMA StripsLog ==
  ASSUME IInv, NEW r \in RPC, NEW o, NEW i, NEW f, Strips(r, o, i, f)
  PROVE  LET status == object[o].entries[i][f]
             n      == Len(log[r]) + 1
         IN /\ DOMAIN log' = RPC
            /\ \A q \in RPC : IsList(log'[q])
            /\ \A q \in RPC : \A k \in DOMAIN log[q] : k \in DOMAIN log'[q] /\ log'[q][k] = log[q][k]
            /\ \A q \in RPC : q # r => \A u, j : Records(q, u, j)' = Records(q, u, j)
            /\ \A u, j : u # o \/ j # i => Records(r, u, j)' = Records(r, u, j)
            /\ IF ErrorLogLevel(status.code) = "error"
               THEN /\ n \notin DOMAIN log[r] /\ Records(r, o, i)' = Records(r, o, i) \cup {n}
                    /\ log'[r][n].debug = LastDebugInfo(status.details)
               ELSE Records(r, o, i)' = Records(r, o, i)
<1> DEFINE status == object[o].entries[i][f]
           n == Len(log[r]) + 1
           record == EntryRecord(o, i, status)
<1>1. FunctionsInv /\ \A q \in RPC : IsList(log[q])
  BY DEF IInv, LogInv
<1>2. record.of = o /\ record.index = i /\ record.debug = LastDebugInfo(status.details)
  BY DEF EntryRecord
<1>3. CASE ErrorLogLevel(status.code) = "error"
  <2>1. Logs(r, record)
    BY <1>3 DEF Strips
  <2> HIDE DEF record
  <2>2. /\ DOMAIN log' = RPC
        /\ \A q \in RPC : IsList(log'[q])
        /\ \A q \in RPC : \A k \in DOMAIN log[q] : k \in DOMAIN log'[q] /\ log'[q][k] = log[q][k]
        /\ \A q \in RPC : q # r => \A u, j : Records(q, u, j)' = Records(q, u, j)
    BY <1>1, <2>1, OneRecordMore
  <2>3. n \notin DOMAIN log[r] /\ log'[r][n] = record
    BY <1>1, <2>1, OneRecordMore
  <2>4. \A u, j : u # o \/ j # i => Records(r, u, j)' = Records(r, u, j)
    BY <1>1, <1>2, <2>1, OneRecordMore
  <2>5. Records(r, o, i)' = Records(r, o, i) \cup {n}
    BY <1>1, <1>2, <2>1, OneRecordMore
  <2> QED
    BY <1>2, <1>3, <2>2, <2>3, <2>4, <2>5
<1>4. CASE ErrorLogLevel(status.code) # "error"
  <2>1. DOMAIN log' = RPC /\ \A q \in RPC : log'[q] = log[q]
    BY <1>4 DEF Strips
  <2>2. ASSUME NEW q \in RPC, NEW u, NEW j PROVE Records(q, u, j)' = Records(q, u, j)
    BY <2>1 DEF Records
  <2> QED
    BY <1>1, <1>4, <2>1, <2>2
<1> QED
  BY <1>3, <1>4

\* The objects of such a step: the status is stripped, and no other changes.
LEMMA StripsObject ==
  ASSUME IInv, NEW r \in RPC, NEW o \in Response, NEW i \in DOMAIN Initially[o].entries,
         NEW f \in DOMAIN object[o].entries[i], Strips(r, o, i, f)
  PROVE  /\ DOMAIN object' = DOMAIN object
         /\ \A u \in Response : u # o => object'[u] = object[u]
         /\ Becomes(Initially[o], object[o]) /\ Becomes(Initially[o], object'[o])
         /\ object'[o].inputOnly = object[o].inputOnly
         /\ object'[o].entries[i][f] = Stripped(Initially[o].entries[i][f])
         /\ \A j \in DOMAIN Initially[o].entries : \A g \in DOMAIN Initially[o].entries[j] :
              j # i \/ g # f => object'[o].entries[j][g] = object[o].entries[j][g]
<1> DEFINE was == Initially[o]
           now == object[o]
           new == StrippedAt(now, i, f)
<1>1. Becomes(was, now) /\ IsResponse(was) /\ Response \subseteq DOMAIN object
  BY InitiallyIsResponse DEF IInv, ObjectsInv, FunctionsInv
<1>2. ~was.dynamic /\ i \in DOMAIN now.entries
  BY <1>1, BecomesStatus DEF Strips, Becomes
<1>3. object' = [object EXCEPT ![o] = new]
  BY DEF Strips, StrippedAt
<1>4. /\ Becomes(was, new)
      /\ new.inputOnly = now.inputOnly
      /\ new.entries[i][f] = Stripped(was.entries[i][f])
      /\ \A j \in DOMAIN was.entries : \A g \in DOMAIN was.entries[j] :
           j # i \/ g # f => new.entries[j][g] = now.entries[j][g]
  BY <1>1, <1>2, BecomesStripped
<1> HIDE DEF new
<1>5. DOMAIN object' = DOMAIN object /\ object'[o] = new /\ \A u \in Response : u # o => object'[u] = object[u]
  BY <1>1, <1>3
<1> QED
  BY <1>1, <1>4, <1>5

\* What the record of a stripped entry is worth to the DebugInfo it held.
LEMMA StripsDebugInv ==
  ASSUME IInv, NEW r \in RPC, NEW o \in Response, NEW i \in DOMAIN Initially[o].entries,
         NEW f \in DOMAIN object[o].entries[i], Strips(r, o, i, f)
  PROVE  DebugInv'
<1> DEFINE status == object[o].entries[i][f]
           was == Initially[o].entries[i][1]
           n == Len(log[r]) + 1
<1>1. /\ \A q \in RPC : \A k \in DOMAIN log[q] : k \in DOMAIN log'[q] /\ log'[q][k] = log[q][k]
      /\ \A q \in RPC : q # r => \A u, j : Records(q, u, j)' = Records(q, u, j)
      /\ \A u, j : u # o \/ j # i => Records(r, u, j)' = Records(r, u, j)
      /\ IF ErrorLogLevel(status.code) = "error"
         THEN /\ n \notin DOMAIN log[r] /\ Records(r, o, i)' = Records(r, o, i) \cup {n}
              /\ log'[r][n].debug = LastDebugInfo(status.details)
         ELSE Records(r, o, i)' = Records(r, o, i)
  BY StripsLog
<1>2. /\ \A u \in Response : u # o => object'[u] = object[u]
      /\ Becomes(Initially[o], object[o])
      /\ object'[o].entries[i][f] = Stripped(Initially[o].entries[i][f])
      /\ \A j \in DOMAIN Initially[o].entries : \A g \in DOMAIN Initially[o].entries[j] :
           j # i \/ g # f => object'[o].entries[j][g] = object[o].entries[j][g]
  BY StripsObject
<1> HIDE DEF n
<1>3. DebugInv /\ IsResponse(Initially[o])
  BY InitiallyIsResponse DEF IInv
<1>4. \A q, u, j : Records(q, u, j) \subseteq DOMAIN log[q]
  BY DEF Records
<1>5. ASSUME NEW u \in Response, NEW j, u # o \/ j # i
      PROVE  /\ WithDebug(u, j)' = WithDebug(u, j)
             /\ \A p \in WithDebug(u, j) : log'[p[1]][p[2]] = log[p[1]][p[2]]
  <2>1. \A q \in RPC : Records(q, u, j)' = Records(q, u, j)
    BY <1>1, <1>5
  <2>2. \A q \in RPC : \A k \in Records(q, u, j) : log'[q][k] = log[q][k]
    BY <1>1, <1>4
  <2> QED
    BY <2>1, <2>2 DEF WithDebug
<1>6. ASSUME Len(Initially[o].entries[i]) = 1, ErrorLogLevel(was.code) = "error", DebugInfos(was.details) # <<>>
      PROVE  /\ DebugInfos(object'[o].entries[i][1].details) = <<>>
             /\ \E p \in WithDebug(o, i)' : /\ WithDebug(o, i)' = {p}
                                            /\ log'[p[1]][p[2]].debug = LastDebugInfo(was.details)
  <2>1. DOMAIN Initially[o].entries[i] = {1}
    <3>1. IsList(Initially[o].entries[i]) /\ Len(Initially[o].entries[i]) = 1
      BY <1>3, <1>6 DEF IsResponse
    <3> QED
      BY <3>1, ListDomain
  <2>2. f = 1 /\ IsStatus(was) /\ status.code = was.code /\ status \in {was, Stripped(was)}
    <3>1. /\ DOMAIN object[o].entries[i] = DOMAIN Initially[o].entries[i]
          /\ \A g \in DOMAIN Initially[o].entries[i] :
               /\ IsStatus(Initially[o].entries[i][g])
               /\ object[o].entries[i][g].code = Initially[o].entries[i][g].code
      BY <1>2, <1>3, BecomesStatus
    <3>2. f = 1
      BY <2>1, <3>1
    <3>3. status \in {was, Stripped(was)}
      BY <1>2, <2>1, <3>2 DEF Becomes
    <3> QED
      BY <2>1, <3>1, <3>2, <3>3
  <2>3. object'[o].entries[i][1] = Stripped(was) /\ DebugInfos(Stripped(was).details) = <<>>
    BY <1>2, <2>2, StrippedStatus
  <2>4. n \notin DOMAIN log[r] /\ Records(r, o, i)' = Records(r, o, i) \cup {n}
        /\ log'[r][n].debug = LastDebugInfo(status.details)
    BY <1>1, <1>6, <2>2
  <2>5. \A q \in RPC : \A k \in Records(q, o, i) : log'[q][k] = log[q][k]
    BY <1>1, <1>4
  <2>6. CASE DebugInfos(status.details) # <<>>
    <3>1. status = was
      BY <2>2, <2>3, <2>6
    <3>2. WithDebug(o, i) = {}
      BY <1>3, <1>6, <2>2, <2>6 DEF DebugInv
    <3>3. ASSUME NEW q \in RPC, NEW k \in Records(q, o, i), log[q][k].debug # <<>> PROVE FALSE
      <4> DEFINE S(q1) == {<<q1, m>> : m \in {x \in Records(q1, o, i) : log[q1][x].debug # <<>>}}
      <4>1. <<q, k>> \in S(q)
        BY <3>3
      <4>2. WithDebug(o, i) = UNION {S(q1) : q1 \in RPC}
        BY DEF WithDebug
      <4> HIDE DEF S
      <4>3. <<q, k>> \in WithDebug(o, i)
        BY <4>1, <4>2
      <4> QED
        BY <3>2, <4>3
    <3>4. log'[r][n].debug = LastDebugInfo(was.details) /\ log'[r][n].debug # <<>>
      <4>1. LastDebugInfo(was.details) # <<>>
        BY <1>6 DEF LastDebugInfo
      <4> QED
        BY <2>4, <3>1, <4>1
    <3>5. \A q \in RPC : {k \in Records(q, o, i)' : log'[q][k].debug # <<>>} = IF q = r THEN {n} ELSE {}
      <4>1. {k \in Records(r, o, i)' : log'[r][k].debug # <<>>} = {n}
        BY <2>4, <2>5, <3>3, <3>4
      <4>2. ASSUME NEW q \in RPC, q # r PROVE {k \in Records(q, o, i)' : log'[q][k].debug # <<>>} = {}
        BY <1>1, <2>5, <3>3, <4>2
      <4> QED
        BY <4>1, <4>2
    <3>6. WithDebug(o, i)' = {<<r, n>>}
      <4>1. <<r, n>> \in WithDebug(o, i)'
        BY <3>5 DEF WithDebug
      <4>2. ASSUME NEW p \in WithDebug(o, i)' PROVE p = <<r, n>>
        BY <3>5, <4>2 DEF WithDebug
      <4> QED
        BY <4>1, <4>2
    <3> QED
      BY <2>3, <3>4, <3>6
  <2>7. CASE DebugInfos(status.details) = <<>>
    <3>1. log'[r][n].debug = <<>>
      BY <2>4, <2>7 DEF LastDebugInfo
    <3>2. \A q \in RPC : {k \in Records(q, o, i)' : log'[q][k].debug # <<>>}
                           = {k \in Records(q, o, i) : log[q][k].debug # <<>>}
      BY <1>1, <2>4, <2>5, <3>1
    <3>3. WithDebug(o, i)' = WithDebug(o, i)
      BY <3>2 DEF WithDebug
    <3>4. \A p \in WithDebug(o, i) : log'[p[1]][p[2]] = log[p[1]][p[2]]
      BY <2>5 DEF WithDebug
    <3>5. PICK p \in WithDebug(o, i) : WithDebug(o, i) = {p} /\ log[p[1]][p[2]].debug = LastDebugInfo(was.details)
      BY <1>3, <1>6, <2>2, <2>7 DEF DebugInv
    <3> QED
      BY <2>3, <3>3, <3>4, <3>5
  <2> QED
    BY <2>6, <2>7
<1>7. ASSUME NEW u \in Response, NEW j \in DOMAIN Initially[u].entries, u # o \/ j # i,
             Len(Initially[u].entries[j]) = 1
      PROVE  object'[u].entries[j][1] = object[u].entries[j][1]
  <2>1. CASE u # o
    BY <1>2, <2>1
  <2>2. CASE u = o
    <3>1. IsList(Initially[o].entries[j]) /\ Len(Initially[o].entries[j]) = 1
      BY <1>3, <1>7, <2>2 DEF IsResponse
    <3>2. 1 \in DOMAIN Initially[o].entries[j]
      BY <3>1, ListDomain
    <3> QED
      BY <1>2, <1>7, <2>2, <3>2
  <2> QED
    BY <2>1, <2>2
<1>8. ASSUME NEW u \in Response, NEW j \in DOMAIN Initially[u].entries, Len(Initially[u].entries[j]) = 1,
             ErrorLogLevel(Initially[u].entries[j][1].code) = "error",
             DebugInfos(Initially[u].entries[j][1].details) # <<>>
      PROVE  IF DebugInfos(object'[u].entries[j][1].details) # <<>> THEN WithDebug(u, j)' = {}
             ELSE \E p \in WithDebug(u, j)' :
                    /\ WithDebug(u, j)' = {p}
                    /\ log'[p[1]][p[2]].debug = LastDebugInfo(Initially[u].entries[j][1].details)
  <2>1. CASE u # o \/ j # i
    BY <1>3, <1>5, <1>7, <1>8, <2>1 DEF DebugInv
  <2>2. CASE u = o /\ j = i
    BY <1>6, <1>8, <2>2
  <2> QED
    BY <2>1, <2>2
<1> QED
  BY <1>8 DEF DebugInv

LEMMA StripsEntriesInv ==
  ASSUME IInv, NEW r \in RPC, NEW o \in Response, NEW i \in DOMAIN Initially[o].entries,
         NEW f \in DOMAIN object[o].entries[i], Strips(r, o, i, f)
  PROVE  EntriesInv'
<1> DEFINE status == object[o].entries[i][f]
           n == Len(log[r]) + 1
<1>1. /\ \A q \in RPC : q # r => \A u, j : Records(q, u, j)' = Records(q, u, j)
      /\ \A u, j : u # o \/ j # i => Records(r, u, j)' = Records(r, u, j)
      /\ IF ErrorLogLevel(status.code) = "error"
         THEN n \notin DOMAIN log[r] /\ Records(r, o, i)' = Records(r, o, i) \cup {n}
         ELSE Records(r, o, i)' = Records(r, o, i)
  BY StripsLog
<1> HIDE DEF n
<1>2. EntriesInv /\ FunctionsInv /\ IsSending(r) /\ sending[r] = [object |-> o, entry |-> i] /\ i \in Nat
  BY InitiallyIsResponse DEF IInv, Strips
<1>3. sending'[r] = [object |-> o, entry |-> i + 1] /\ \A q \in RPC : q # r => sending'[q] = sending[q]
  <2>1. sending[r].object = o /\ sending[r].entry = i
    BY <1>2
  <2>2. /\ sending'[r] = [object |-> sending[r].object, entry |-> sending[r].entry + 1]
        /\ \A q \in RPC : q # r => sending'[q] = sending[q]
    BY <1>2, NextEntry DEF Strips
  <2> QED
    BY <2>1, <2>2
<1>4. \A q, u : SentOf(q, u)' = SentOf(q, u)
  BY DEF Strips, SentOf, ResponsesSent
<1>5. Becomes(Initially[o], object[o]) /\ IsResponse(Initially[o])
  BY StripsObject, InitiallyIsResponse
<1>6. ASSUME NEW q \in RPC, NEW u \in Response, NEW j \in DOMAIN Initially[u].entries, q # r \/ u # o \/ j # i
      PROVE  Records(q, u, j)' = Records(q, u, j) /\ (IsPast(q, u, j)' <=> IsPast(q, u, j))
  <2>1. CASE q # r
    BY <1>1, <1>3, <2>1 DEF IsPast
  <2>2. CASE q = r
    <3>1. j \in Nat
      BY InitiallyIsResponse
    <3>2. Records(r, u, j)' = Records(r, u, j)
      BY <1>1, <1>6, <2>2
    <3>3. IsPast(r, u, j)' <=> IsPast(r, u, j)
      BY <1>2, <1>3, <1>6, <2>2, <3>1 DEF IsPast
    <3> QED
      BY <2>2, <3>2, <3>3
  <2> QED
    BY <2>1, <2>2
<1>7. ASSUME HasOneStatus(Initially[o], i)
      PROVE  IF ErrorLogLevel(Initially[o].entries[i][1].code) = "error"
             THEN Cardinality(Records(r, o, i)') >= Cardinality(SentOf(r, o)') + (IF IsPast(r, o, i)' THEN 1 ELSE 0)
             ELSE Records(r, o, i)' = {}
  <2>1. IsList(Initially[o].entries[i]) /\ Len(Initially[o].entries[i]) = 1
    BY <1>5, <1>7 DEF IsResponse, HasOneStatus
  <2>2. DOMAIN Initially[o].entries[i] = {1}
    BY <2>1, ListDomain
  <2>3. status.code = Initially[o].entries[i][1].code
    BY <1>5, <2>2, BecomesStatus
  <2>4. CASE ErrorLogLevel(status.code) = "error"
    <3>1. Records(r, o, i) \subseteq DOMAIN log[r] /\ SentOf(r, o) \subseteq DOMAIN wire[r]
          /\ IsList(log[r]) /\ IsList(wire[r])
      BY DEF Records, SentOf, ResponsesSent, IInv, LogInv, WireInv
    <3>2. /\ IsFiniteSet(Records(r, o, i)) /\ Cardinality(Records(r, o, i)) \in Nat
          /\ Cardinality(SentOf(r, o)) \in Nat
      BY <3>1, FiniteDomain
    <3>3. Records(r, o, i)' = Records(r, o, i) \cup {n} /\ n \notin Records(r, o, i)
      BY <1>1, <2>4, <3>1
    <3>4. Cardinality(Records(r, o, i)') = Cardinality(Records(r, o, i)) + 1
      BY <3>2, <3>3, FS_AddElement
    <3>5. ~IsPast(r, o, i)
      BY <1>2 DEF IsPast
    <3>6. Cardinality(Records(r, o, i)) >= Cardinality(SentOf(r, o))
      BY <1>2, <1>7, <2>3, <2>4, <3>2, <3>5 DEF EntriesInv
    <3>7. Cardinality(Records(r, o, i)') >= Cardinality(SentOf(r, o)') + (IF IsPast(r, o, i)' THEN 1 ELSE 0)
      <4> DEFINE a == Cardinality(Records(r, o, i))
                 b == Cardinality(SentOf(r, o))
      <4>1. a \in Nat /\ b \in Nat /\ a >= b
        BY <3>2, <3>6
      <4> HIDE DEF a, b
      <4>2. a + 1 >= b + 1 /\ a + 1 >= b + 0
        BY <4>1
      <4> QED
        BY <1>4, <3>4, <4>2 DEF a, b
    <3> QED
      BY <2>3, <2>4, <3>7
  <2>5. CASE ErrorLogLevel(status.code) # "error"
    <3>1. Records(r, o, i)' = Records(r, o, i) /\ Records(r, o, i) = {}
      BY <1>1, <1>2, <1>7, <2>3, <2>5 DEF EntriesInv
    <3> QED
      BY <2>3, <2>5, <3>1
  <2> QED
    BY <2>4, <2>5
<1>8. ASSUME NEW q \in RPC, NEW u \in Response, NEW j \in DOMAIN Initially[u].entries, HasOneStatus(Initially[u], j)
      PROVE  IF ErrorLogLevel(Initially[u].entries[j][1].code) = "error"
             THEN Cardinality(Records(q, u, j)') >= Cardinality(SentOf(q, u)') + (IF IsPast(q, u, j)' THEN 1 ELSE 0)
             ELSE Records(q, u, j)' = {}
  <2>1. CASE q # r \/ u # o \/ j # i
    BY <1>2, <1>4, <1>6, <1>8, <2>1 DEF EntriesInv
  <2>2. CASE q = r /\ u = o /\ j = i
    BY <1>7, <1>8, <2>2
  <2> QED
    BY <2>1, <2>2
<1> QED
  BY <1>8 DEF EntriesInv

LEMMA StripsKeepsIInv ==
  ASSUME IInv, NEW r \in RPC, NEW o \in Response, NEW i \in DOMAIN Initially[o].entries,
         NEW f \in DOMAIN object[o].entries[i], Strips(r, o, i, f)
  PROVE  IInv'
<1>1. /\ FunctionsInv /\ ObjectsInv /\ SendingInv /\ WireInv
      /\ ErrorInv /\ LogInv
  BY DEF IInv
<1>2. /\ pc[r] = "entries" /\ UNCHANGED <<pc, err, sends, wire>>
      /\ IsSending(r) /\ sending[r] = [object |-> o, entry |-> i]
      /\ sending' = [sending EXCEPT ![r].entry = @ + 1]
  BY DEF Strips
<1>3. /\ DOMAIN log' = RPC
      /\ \A q \in RPC : IsList(log'[q])
      /\ \A q \in RPC : \A k \in DOMAIN log[q] : k \in DOMAIN log'[q] /\ log'[q][k] = log[q][k]
      /\ \A q \in RPC : q # r => \A u, j : Records(q, u, j)' = Records(q, u, j)
      /\ \A u, j : u # o \/ j # i => Records(r, u, j)' = Records(r, u, j)
  BY StripsLog
<1>4. /\ DOMAIN object' = DOMAIN object
      /\ \A u \in Response : u # o => object'[u] = object[u]
      /\ Becomes(Initially[o], object'[o])
      /\ object'[o].inputOnly = object[o].inputOnly
      /\ object'[o].entries[i][f] = Stripped(Initially[o].entries[i][f])
      /\ \A j \in DOMAIN Initially[o].entries : \A g \in DOMAIN Initially[o].entries[j] :
           j # i \/ g # f => object'[o].entries[j][g] = object[o].entries[j][g]
  BY StripsObject
<1>5. /\ DOMAIN sending' = RPC /\ sending'[r] = [object |-> o, entry |-> i + 1]
      /\ \A q \in RPC : q # r => sending'[q] = sending[q]
  <2>1. sending[r].object = o /\ sending[r].entry = i
    BY <1>2
  <2>2. /\ DOMAIN sending' = RPC
        /\ sending'[r] = [object |-> sending[r].object, entry |-> sending[r].entry + 1]
        /\ \A q \in RPC : q # r => sending'[q] = sending[q]
    BY <1>1, <1>2, NextEntry
  <2> QED
    BY <2>1, <2>2
<1>6. IsResponse(Initially[o]) /\ i \in Nat /\ DOMAIN Initially[o].entries = 1 .. Len(Initially[o].entries)
  BY InitiallyIsResponse
<1>7. FunctionsInv'
  BY <1>1, <1>2, <1>3, <1>4, <1>5 DEF FunctionsInv
<1>8. ObjectsInv'
  BY <1>1, <1>4 DEF ObjectsInv
<1>9. SendingInv'
  <2>1. ASSUME NEW j \in 1 .. i, HasOneStatus(Initially[o], j)
        PROVE  object'[o].entries[j][1] = Stripped(Initially[o].entries[j][1])
    <3>1. j \in DOMAIN Initially[o].entries
      BY <1>6
    <3>2. IsList(Initially[o].entries[j]) /\ Len(Initially[o].entries[j]) = 1
      BY <1>6, <2>1, <3>1 DEF IsResponse, HasOneStatus
    <3>3. DOMAIN Initially[o].entries[j] = {1}
      BY <3>2, ListDomain
    <3>4. CASE j = i
      <4>1. f = 1
        <5>1. Becomes(Initially[o], object[o])
          BY <1>1 DEF ObjectsInv
        <5> QED
          BY <1>6, <3>3, <3>4, <5>1, BecomesStatus
      <4> QED
        BY <1>4, <3>4, <4>1
    <3>5. CASE j # i
      <4>1. j \in 1 .. i - 1 /\ sending[r].object = o /\ sending[r].entry = i
        BY <1>2, <1>6, <3>5
      <4>2. object[o].entries[j][1] = Stripped(Initially[o].entries[j][1])
        BY <1>2, <2>1, <4>1 DEF IsSending, IsDone
      <4> QED
        BY <1>4, <3>1, <3>3, <3>5, <4>2
    <3> QED
      BY <3>4, <3>5
  <2>2. \A j \in 1 .. i : IsDone(Initially[o], object'[o], j)
    BY <2>1 DEF IsDone
  <2> QED
    BY <1>1, <1>2, <1>4, <1>5, <1>6, <2>2, NextKeepsSendingInv
<1>10. \A q \in RPC : Answered(q)' <=> Answered(q)
  BY <1>2 DEF Answered
<1>11. WireInv'
  BY <1>1, <1>2 DEF WireInv, ResponsesSent
<1>12. ErrorInv'
  BY <1>1, <1>2, <1>10 DEF ErrorInv, Failing
<1>13. LogInv'
  <2>1. o # "rpc"
    BY HandlersAssumption
  <2>2. \A q \in RPC : Records(q, "rpc", 0)' = Records(q, "rpc", 0)
    BY <1>3, <2>1
  <2>3. ASSUME NEW q \in RPC
        PROVE  IF pc'[q] = "logged" \/ Answered(q)'
               THEN \E k \in DOMAIN log'[q] : Records(q, "rpc", 0)' = {k} /\ log'[q][k] = Record(err'[q])
               ELSE Records(q, "rpc", 0)' = {}
    BY <1>1, <1>2, <1>3, <1>10, <2>2 DEF LogInv
  <2> QED
    BY <1>3, <2>3 DEF LogInv
<1>14. EntriesInv' /\ DebugInv'
  BY StripsEntriesInv, StripsDebugInv
<1> QED
  BY <1>7, <1>8, <1>9, <1>11, <1>12, <1>13, <1>14 DEF IInv

----------------------------------------------------------------------------
(* The inductive invariant holds.                                          *)

LEMMA InitIInv == Init => IInv
<1> SUFFICES ASSUME Init PROVE IInv
  OBVIOUS
<1>1. \A r \in RPC : pc[r] = "handler" /\ err[r] = NoError /\ sending[r] = NotSending
                     /\ sends[r] = 0 /\ log[r] = <<>> /\ wire[r] = <<>>
  BY DEF Init
<1>2. \A r \in RPC : ~Answered(r) /\ ~Failing(r)
  BY <1>1 DEF Answered, Failing
<1>3. DOMAIN <<>> = {}
  OBVIOUS
<1>4. \A r \in RPC : \A of, i : ResponsesSent(r) = {} /\ SentOf(r, of) = {} /\ Records(r, of, i) = {}
  BY <1>1, <1>3 DEF ResponsesSent, SentOf, Records
<1>5. FunctionsInv
  BY HandlersAssumption DEF Init, FunctionsInv, Places
<1>6. ObjectsInv
  BY InitiallyIsResponse, BecomesItself DEF Init, ObjectsInv
<1>7. SendingInv
  BY <1>1, HandlersAssumption DEF SendingInv
<1>8. WireInv
  BY <1>1, <1>4, EmptyIsList DEF WireInv
<1>9. ErrorInv
  BY <1>1, <1>2, ChainsErrorsAreGood DEF ErrorInv, GoodError
<1>10. LogInv
  BY <1>1, <1>2, <1>4, EmptyIsList DEF LogInv
<1>11. EntriesInv
  <2>1. \A r \in RPC : \A o \in Response : ~IsPast(r, o, 0) /\ \A i : ~IsPast(r, o, i)
    <3>1. "none" \notin Response
      BY HandlersAssumption
    <3> QED
      BY <1>1, <3>1 DEF IsPast, NotSending
  <2>2. Cardinality({}) = 0
    BY FS_EmptySet
  <2> QED
    BY <1>4, <2>1, <2>2 DEF EntriesInv
<1>12. DebugInv
  <2>1. \A o, i : WithDebug(o, i) = {}
    BY <1>4 DEF WithDebug
  <2>2. \A o \in Response : object[o] = Initially[o]
    BY DEF Init
  <2> QED
    BY <2>1, <2>2 DEF DebugInv
<1> QED
  BY <1>5, <1>6, <1>7, <1>8, <1>9, <1>10, <1>11, <1>12 DEF IInv

LEMMA NextIInv == IInv /\ [Next]_vars => IInv'
<1> SUFFICES ASSUME IInv, [Next]_vars PROVE IInv'
  OBVIOUS
<1>1. CASE UNCHANGED vars
  <2>1. UNCHANGED <<pc, err, sending, object, sends, log, wire>>
    BY <1>1 DEF vars
  <2>2. FunctionsInv' /\ ObjectsInv'
    BY <2>1 DEF IInv, FunctionsInv, ObjectsInv
  <2>3. SendingInv'
    BY <2>1 DEF IInv, SendingInv, IsSending
  <2>4. \A r, of, i : /\ ResponsesSent(r)' = ResponsesSent(r) /\ SentOf(r, of)' = SentOf(r, of)
                      /\ Records(r, of, i)' = Records(r, of, i)
                      /\ IsPast(r, of, i)' <=> IsPast(r, of, i)
                      /\ Answered(r)' <=> Answered(r)
                      /\ Failing(r)' <=> Failing(r)
    BY <2>1 DEF ResponsesSent, SentOf, Records, IsPast, Answered, Failing
  <2>5. WireInv' /\ ErrorInv' /\ LogInv'
    BY <2>1, <2>4 DEF IInv, WireInv, ErrorInv, LogInv
  <2>6. EntriesInv'
    BY <2>4 DEF IInv, EntriesInv
  <2>7. DebugInv'
    BY <2>1, KeepsDebugInv DEF IInv
  <2> QED
    BY <2>2, <2>3, <2>5, <2>6, <2>7 DEF IInv
<1>2. CASE Next
  <2>1. PICK r \in RPC : Proceed(r) \/ Handler(r)
    BY <1>2 DEF Next
  <2>2. CASE \/ Read(r) \/ \E error \in ReadErrors : ReadFails(r, error)
             \/ Validates(r) \/ Invalid(r) \/ RulesFail(r)
             \/ Prepares(r) \/ PrepareFails(r)
             \/ Receive(r) \/ Succeeds(r) \/ Fails(r)
    <3>1. PICK to, e : Moves(r, to, e)
      BY <2>2, QuietSteps
    <3> QED
      BY <3>1, MovesKeepsIInv
  <2>3. CASE \E o \in Response : Send(r, o)
    BY <2>3, SendKeepsIInv
  <2>4. CASE ClearInputOnly(r)
    BY <2>4, ClearInputOnlyKeepsIInv
  <2>5. CASE StripEntry(r)
    BY <2>5, StripEntryStrips, StripsKeepsIInv
  <2>6. CASE SkipEntry(r)
    BY <2>6, SkipEntryKeepsIInv
  <2>7. CASE SendOut(r) \/ Panics(r)
    BY <2>7, SendOutLeaves, PanicsLeaves, LeavesKeepsIInv
  <2>8. CASE Log(r)
    BY <2>8, LogKeepsIInv
  <2>9. CASE Answers(r)
    BY <2>9, AnswersKeepsIInv
  <2> QED
    BY <2>1, <2>2, <2>3, <2>4, <2>5, <2>6, <2>7, <2>8, <2>9 DEF Proceed, Handler
<1> QED
  BY <1>1, <1>2

\* The inductive invariant: what has become of each response, in memory and on the
\* wire, where each loop over the entries is, and what the log and the wire hold for
\* each RPC.
THEOREM InterceptorInvariant == Spec => []IInv
  BY InitIInv, NextIInv, PTL DEF Spec

\* Type correctness: an RPC holds a response exactly while it sends it, and the
\* entry it has come to is one of that response or past the last.
THEOREM TypeCorrect == Spec => []TypeOK
<1>1. IInv => TypeOK
  <2> SUFFICES ASSUME IInv PROVE TypeOK
    OBVIOUS
  <2>1. FunctionsInv /\ SendingInv /\ ErrorInv
    BY DEF IInv
  <2>2. ASSUME NEW r \in RPC
        PROVE  /\ sending[r] # NotSending <=> pc[r] \in {"clear", "entries"}
               /\ sending[r] # NotSending => sending[r].entry \in 1 .. Len(object[sending[r].object].entries) + 1
               /\ sends[r] \in 0 .. MaxSends
               /\ err[r].code = "ok" => pc[r] \notin {"failed", "logged"}
    <3>1. CASE pc[r] \in {"clear", "entries"}
      <4>1. sending[r].object # "none"
        <5>1. sending[r].object \in Response
          BY <3>1, TheSent
        <5> QED
          BY <5>1, HandlersAssumption
      <4>2. sending[r] # NotSending
        BY <4>1 DEF NotSending
      <4>3. sending[r].entry \in 1 .. Len(object[sending[r].object].entries) + 1
        BY <3>1, TheSent
      <4> QED
        BY <2>1, <3>1, <4>2, <4>3 DEF SendingInv
    <3>2. CASE pc[r] \notin {"clear", "entries"}
      BY <2>1, <3>2 DEF SendingInv, ErrorInv, Failing
    <3> QED
      BY <3>1, <3>2
  <2>3. pc \in [RPC -> Places]
    BY <2>1 DEF FunctionsInv
  <2>4. \A r, q \in RPC : sending[r].object = sending[q].object => r = q \/ sending[r] = NotSending
    BY <2>1 DEF SendingInv
  <2> QED
    BY <2>2, <2>3, <2>4 DEF TypeOK
<1> QED
  BY <1>1, InterceptorInvariant, PTL

----------------------------------------------------------------------------
(* What the client sees.                                                   *)

LEMMA TypesContain ==
  ASSUME NEW d, IsList(d), NEW type
  PROVE  Contains(Types(d), type) <=> \E x \in ToSet(d) : x.type = type
<1>1. DOMAIN d = 1 .. Len(d) /\ Len(d) \in Nat
  BY ListDomain
<1>2. DOMAIN Types(d) = 1 .. Len(d) /\ Len(Types(d)) = Len(d) /\ \A i \in 1 .. Len(d) : Types(d)[i] = d[i].type
  BY <1>1 DEF Types
<1> QED
  BY <1>1, <1>2 DEF Contains, ToSet

\* The answer of a failed RPC.
LEMMA TheAnswerIs ==
  ASSUME IInv, NEW r \in RPC, Answered(r)
  PROVE  /\ TheAnswer(r) = Answer(err[r])
         /\ TheAnswer(r).code = err[r].code
         /\ err[r].connect => TheAnswer(r).text = err[r].text
         /\ ~err[r].connect => TheAnswer(r).text = NoText /\ TheAnswer(r).details = <<>>
         /\ err[r].connect => TheAnswer(r).details = WithDefaultInfo(WithoutDebugInfo(err[r].details)) \o requestInfo
<1>1. Last(wire[r]) = Sent("answer", Answer(err[r])) /\ IsError(err[r])
  BY DEF IInv, ErrorInv
<1>2. TheAnswer(r) = Answer(err[r])
  BY <1>1 DEF TheAnswer, Sent
<1>3. CASE err[r].connect
  BY <1>2, <1>3 DEF Answer, Status
<1>4. CASE ~err[r].connect
  BY <1>1, <1>2, <1>4 DEF Answer, Status, IsError
<1> QED
  BY <1>2, <1>3, <1>4

\* What becomes of an entry with one generated status by the time it is sent.
LEMMA TheEntryIs ==
  ASSUME IInv, NEW r \in RPC, NEW k \in ResponsesSent(r), NEW at \in Statuses(wire[r][k].body),
         ~wire[r][k].body.dynamic, Len(wire[r][k].body.entries[at[1]]) = 1
  PROVE  LET was == Initially[wire[r][k].of].entries[at[1]][1]
             now == wire[r][k].body.entries[at[1]][1]
         IN IsStatus(was) /\ HasOneInfoAtMost(was.details) /\ now = Stripped(was)
<1> DEFINE o == wire[r][k].of
           body == wire[r][k].body
           i == at[1]
<1>1. o \in Response /\ SentAs(Initially[o], body)
  BY DEF IInv, WireInv, ResponsesSent
<1>2. Becomes(Initially[o], body) /\ IsResponse(Initially[o])
  BY <1>1, InitiallyIsResponse DEF SentAs
<1>3. i \in DOMAIN Initially[o].entries
  <2>1. i \in DOMAIN body.entries
    BY DEF Statuses
  <2> HIDE DEF o, body, i
  <2>2. DOMAIN body.entries = 1 .. Len(body.entries) /\ DOMAIN Initially[o].entries = 1 .. Len(Initially[o].entries)
    BY <1>2, ListDomain DEF Becomes, IsResponse
  <2> QED
    BY <1>2, <2>1, <2>2 DEF Becomes
<1>4. HasOneStatus(Initially[o], i)
  <2> HIDE DEF o, i
  <2>1. ~body.dynamic /\ Len(body.entries[i]) = 1
    BY DEF i
  <2> HIDE DEF body
  <2> QED
    BY <1>2, <1>3, <2>1 DEF Becomes, HasOneStatus
<1> HIDE DEF o, body, i
<1>5. 1 \in DOMAIN Initially[o].entries[i]
  <2>1. IsList(Initially[o].entries[i]) /\ Len(Initially[o].entries[i]) = 1
    BY <1>2, <1>3, <1>4 DEF HasOneStatus, IsResponse
  <2> QED
    BY <2>1, ListDomain
<1>6. IsStatus(Initially[o].entries[i][1]) /\ HasOneInfoAtMost(Initially[o].entries[i][1].details)
  BY <1>1, <1>2, <1>3, <1>5, HandlersAssumption DEF IsResponse
<1>7. body.entries[i][1] = Stripped(Initially[o].entries[i][1])
  BY <1>1, <1>3, <1>4 DEF SentAs, IsDone
<1> QED
  BY <1>6, <1>7 DEF o, body, i

\* No client is told what is for the log or the server: neither the text of an error
\* that is no *connect.Error or of the parser, nor an INPUT_ONLY value, nor a DebugInfo
\* of an error, nor one that can be read of an entry.
THEOREM NoInternals == Spec => []ClientSeesNoInternals
<1>1. IInv => ClientSeesNoInternals
  <2> SUFFICES ASSUME IInv PROVE ClientSeesNoInternals
    OBVIOUS
  <2>1. ASSUME NEW r \in RPC, Answered(r)
        PROVE  /\ TheAnswer(r).text \notin Secrets
               /\ ~Contains(Types(TheAnswer(r).details), "DebugInfo")
    <3> DEFINE d == err[r].details
               kept == WithoutDebugInfo(d)
               all == WithDefaultInfo(kept) \o requestInfo
    <3>1. IsError(err[r]) /\ IsList(d) /\ (err[r].connect => err[r].text \notin Secrets)
      BY DEF IInv, ErrorInv, IsError
    <3>2. TheAnswer(r).text \notin Secrets
      <4>1. NoText \notin Secrets
        BY HandlersAssumption
      <4> QED
        BY <2>1, <3>1, <4>1, TheAnswerIs
    <3>3. CASE err[r].connect
      <4>1. TheAnswer(r).details = all
        BY <2>1, <3>3, TheAnswerIs
      <4>2. IsList(kept) /\ \A x \in ToSet(kept) : ~IsDebugInfo(x)
        BY <3>1, FilteredDetails
      <4> HIDE DEF kept
      <4>3. IsList(WithDefaultInfo(kept)) /\ \A x \in ToSet(WithDefaultInfo(kept)) : ~IsDebugInfo(x)
        BY <4>2, WithDefaultDetails
      <4>4. IsList(requestInfo) /\ \A x \in ToSet(requestInfo) : ~IsDebugInfo(x)
        BY DefaultDetails
      <4>5. IsList(all) /\ \A x \in ToSet(all) : ~IsDebugInfo(x)
        BY <4>3, <4>4, ListConcat
      <4> HIDE DEF all
      <4> QED
        BY <3>2, <4>1, <4>5, TypesContain DEF IsDebugInfo
    <3>4. CASE ~err[r].connect
      <4>1. TheAnswer(r).details = <<>>
        BY <2>1, <3>4, TheAnswerIs
      <4> QED
        BY <3>2, <4>1, EmptyIsList, TypesContain
    <3> QED
      BY <3>3, <3>4
  <2>2. ASSUME NEW r \in RPC, NEW k \in ResponsesSent(r) PROVE ~wire[r][k].body.inputOnly
    BY DEF IInv, WireInv, SentAs
  <2>3. ASSUME NEW r \in RPC, NEW k \in ResponsesSent(r), NEW at \in Statuses(wire[r][k].body),
               ~wire[r][k].body.dynamic, Len(wire[r][k].body.entries[at[1]]) = 1
        PROVE  DebugInfos(wire[r][k].body.entries[at[1]][1].details) = <<>>
    <3> DEFINE was == Initially[wire[r][k].of].entries[at[1]][1]
               now == wire[r][k].body.entries[at[1]][1]
    <3>1. IsStatus(was) /\ now = Stripped(was)
      BY <2>3, TheEntryIs
    <3> HIDE DEF was
    <3> QED
      BY <3>1, StrippedStatus
  <2> QED
    BY <2>1, <2>2, <2>3 DEF ClientSeesNoInternals
<1> QED
  BY <1>1, InterceptorInvariant, PTL

\* A failed entry of a batch tells the client what its error would have told as the
\* answer of an RPC, each time its response is sent and whichever RPC sends it.
THEOREM EntriesAreAnswers == Spec => []EntriesTellWhatAnAnswerTells
<1>1. IInv => EntriesTellWhatAnAnswerTells
  <2> SUFFICES ASSUME IInv, NEW r \in RPC, NEW k \in ResponsesSent(r), NEW at \in Statuses(wire[r][k].body),
                      ~wire[r][k].body.dynamic, Len(wire[r][k].body.entries[at[1]]) = 1
               PROVE  LET was == Initially[wire[r][k].of].entries[at[1]][1]
                          now == wire[r][k].body.entries[at[1]][1]
                      IN Status(now.code, now.text, WithoutDebugInfo(now.details) \o requestInfo)
                           = Answer(Error(was.code, was.text, was.details, NoCause))
    BY DEF EntriesTellWhatAnAnswerTells
  <2> DEFINE was == Initially[wire[r][k].of].entries[at[1]][1]
             now == wire[r][k].body.entries[at[1]][1]
  <2>1. IsStatus(was) /\ now = Stripped(was)
    BY TheEntryIs
  <2> HIDE DEF was, now
  <2>2. /\ now.code = was.code /\ now.text = was.text
        /\ now.details = WithDefaultInfo(WithoutReadable(was.details))
    BY <2>1, StrippedStatus
  <2>3. WithoutDebugInfo(now.details) = WithDefaultInfo(WithoutDebugInfo(was.details))
    BY <2>1, <2>2, StrippedAsAnswered DEF IsStatus
  <2>4. \A c, t, d : Answer(Error(c, t, d, NoCause)) = Status(c, t, WithDefaultInfo(WithoutDebugInfo(d)) \o requestInfo)
    BY DEF Answer, Error
  <2>5. Status(now.code, now.text, WithoutDebugInfo(now.details) \o requestInfo)
          = Answer(Error(was.code, was.text, was.details, NoCause))
    BY <2>2, <2>3, <2>4
  <2> QED
    BY <2>5 DEF was, now
<1> QED
  BY <1>1, InterceptorInvariant, PTL

\* All else of a response gets to the client as the handler made it: an entry that
\* succeeded, a status that is no generated one, and of the others the code, the text
\* and each detail that is neither the interceptor's nor a DebugInfo that can be read.
THEOREM TheRestIsSentAsItWas == Spec => []SendsTheRestAsItWas
<1>1. IInv => SendsTheRestAsItWas
  <2> SUFFICES ASSUME IInv, NEW r \in RPC, NEW k \in ResponsesSent(r)
               PROVE  LET was == Initially[wire[r][k].of]
                          now == wire[r][k].body
                      IN IF was.dynamic
                         THEN now.entries = was.entries
                         ELSE /\ Statuses(now) = Statuses(was) /\ Len(now.entries) = Len(was.entries)
                              /\ \A at \in Statuses(was) : Len(was.entries[at[1]]) = 1 =>
                                   LET before == was.entries[at[1]][1]
                                       after  == now.entries[at[1]][1]
                                   IN Status(after.code, after.text, RestOf(after.details))
                                        = Status(before.code, before.text, RestOf(before.details))
    BY DEF SendsTheRestAsItWas
  <2> DEFINE was == Initially[wire[r][k].of]
             now == wire[r][k].body
  <2>1. IsResponse(was) /\ Becomes(was, now)
    BY InitiallyIsResponse DEF IInv, WireInv, SentAs, ResponsesSent
  <2>2. /\ ~was.dynamic => Statuses(now) = Statuses(was)
        /\ ~was.dynamic => \A at \in Statuses(was) : at \in Statuses(now)
    <3> HIDE DEF was, now
    <3>1. DOMAIN now.entries = DOMAIN was.entries
      BY <2>1, ListDomain DEF Becomes, IsResponse
    <3>2. \A i \in DOMAIN was.entries : DOMAIN now.entries[i] = DOMAIN was.entries[i]
      BY <2>1, BecomesStatus
    <3> QED
      BY <3>1, <3>2 DEF Statuses
  <2>3. ASSUME ~was.dynamic, NEW at \in Statuses(was), Len(was.entries[at[1]]) = 1
        PROVE  LET before == was.entries[at[1]][1]
                   after  == now.entries[at[1]][1]
               IN Status(after.code, after.text, RestOf(after.details))
                    = Status(before.code, before.text, RestOf(before.details))
    <3> DEFINE before == was.entries[at[1]][1]
               after  == now.entries[at[1]][1]
    <3>1. at \in Statuses(now) /\ ~now.dynamic /\ Len(now.entries[at[1]]) = 1
      <4>1. at[1] \in DOMAIN was.entries
        BY DEF Statuses
      <4> HIDE DEF was, now
      <4> QED
        BY <2>1, <2>2, <2>3, <4>1 DEF Becomes
    <3>2. IsStatus(before) /\ after = Stripped(before)
      BY <3>1, TheEntryIs
    <3> HIDE DEF before, after
    <3>3. /\ after.code = before.code /\ after.text = before.text
          /\ after.details = WithDefaultInfo(WithoutReadable(before.details))
      BY <3>2, StrippedStatus
    <3>4. RestOf(after.details) = RestOf(before.details)
      BY <3>2, <3>3, StrippedKeepsTheRest DEF IsStatus
    <3>5. Status(after.code, after.text, RestOf(after.details))
            = Status(before.code, before.text, RestOf(before.details))
      BY <3>3, <3>4
    <3> QED
      BY <3>5 DEF before, after
  <2>4. Len(now.entries) = Len(was.entries) /\ (was.dynamic => now.entries = was.entries)
    BY <2>1 DEF Becomes
  <2> QED
    BY <2>2, <2>3, <2>4
<1> QED
  BY <1>1, InterceptorInvariant, PTL

\* With a domain to name, each error a client is sent, as an answer or an entry, has
\* exactly one ErrorInfo.
THEOREM OneInfo == Spec => []EveryErrorHasOneInfo
<1>1. IInv => EveryErrorHasOneInfo
  <2> SUFFICES ASSUME IInv PROVE EveryErrorHasOneInfo
    OBVIOUS
  <2>1. ASSUME NEW d, IsList(d), HasOneInfoAtMost(d), DefaultInfo
        PROVE  /\ Cardinality(InfosOf(WithDefaultInfo(WithoutDebugInfo(d)) \o requestInfo)) = 1
               /\ Cardinality(InfosOf(WithDefaultInfo(WithoutReadable(d)))) = 1
    <3>1. IsList(WithoutDebugInfo(d)) /\ IsList(WithoutReadable(d))
      BY <2>1, FilteredDetails
    <3>2. HasOneInfoAtMost(WithoutDebugInfo(d)) /\ HasOneInfoAtMost(WithoutReadable(d))
      BY <2>1, SelectedHasOneInfoAtMost DEF WithoutDebugInfo, WithoutReadable
    <3> QED
      BY <2>1, <3>1, <3>2, ExactlyOneInfo
  <2>2. ASSUME NEW r \in RPC, Answered(r), err[r].connect, DefaultInfo
        PROVE  Cardinality(InfosOf(TheAnswer(r).details)) = 1
    <3>1. IsList(err[r].details) /\ HasOneInfoAtMost(err[r].details)
      BY DEF IInv, ErrorInv, IsError
    <3>2. TheAnswer(r).details = WithDefaultInfo(WithoutDebugInfo(err[r].details)) \o requestInfo
      BY <2>2, TheAnswerIs
    <3> QED
      BY <2>1, <2>2, <3>1, <3>2
  <2>3. ASSUME NEW r \in RPC, NEW k \in ResponsesSent(r), NEW at \in Statuses(wire[r][k].body),
               ~wire[r][k].body.dynamic, Len(wire[r][k].body.entries[at[1]]) = 1, DefaultInfo
        PROVE  Cardinality(InfosOf(wire[r][k].body.entries[at[1]][1].details)) = 1
    <3> DEFINE was == Initially[wire[r][k].of].entries[at[1]][1]
               now == wire[r][k].body.entries[at[1]][1]
    <3>1. IsStatus(was) /\ HasOneInfoAtMost(was.details) /\ now = Stripped(was)
      BY <2>3, TheEntryIs
    <3> HIDE DEF was, now
    <3>2. IsList(was.details) /\ now.details = WithDefaultInfo(WithoutReadable(was.details))
      BY <3>1, StrippedStatus DEF IsStatus
    <3>3. Cardinality(InfosOf(now.details)) = 1
      BY <2>1, <2>3, <3>1, <3>2
    <3> QED
      BY <3>3 DEF now
  <2> QED
    BY <2>2, <2>3 DEF EveryErrorHasOneInfo
<1> QED
  BY <1>1, InterceptorInvariant, PTL

----------------------------------------------------------------------------
(* What the log records.                                                   *)

\* A failed RPC is logged exactly once, before the client has its answer, at the
\* level of the code the client is told, with every DebugInfo that is kept from the
\* client and with what failed underneath; and something has failed underneath each
\* error of the chain's own, unless it has come up from the read or been wrapped.
THEOREM RPCLoggedOnce == Spec => []FailedRPCLoggedOnce
<1>1. IInv => FailedRPCLoggedOnce
  <2> SUFFICES ASSUME IInv, NEW r \in RPC
               PROVE  /\ Cardinality(Records(r, "rpc", 0)) = IF pc[r] = "logged" \/ Answered(r) THEN 1 ELSE 0
                      /\ Answered(r) => \A k \in Records(r, "rpc", 0) :
                           /\ log[r][k].level = ErrorLogLevel(TheAnswer(r).code)
                           /\ \A d \in ToSet(err[r].details) : IsReadable(d) => Contains(log[r][k].debug, d)
                           /\ log[r][k].cause = err[r].cause \/ err[r].wrapped
                           /\ log[r][k].cause = NoCause => err[r] \in HandlerErrors \cup PassedOn \/ err[r].wrapped
    BY DEF FailedRPCLoggedOnce
  <2>1. LogInv /\ IsError(err[r])
    BY DEF IInv, ErrorInv
  <2>2. CASE pc[r] = "logged" \/ Answered(r)
    <3>1. PICK k \in DOMAIN log[r] : Records(r, "rpc", 0) = {k} /\ log[r][k] = Record(err[r])
      BY <2>1, <2>2 DEF LogInv
    <3>2. Cardinality(Records(r, "rpc", 0)) = 1
      BY <3>1, FS_Singleton
    <3>3. ASSUME Answered(r) PROVE log[r][k].level = ErrorLogLevel(TheAnswer(r).code)
      BY <3>1, <3>3, TheAnswerIs DEF Record
    <3>4. ASSUME NEW d \in ToSet(err[r].details), IsReadable(d) PROVE Contains(log[r][k].debug, d)
      <4>1. log[r][k].debug = DebugInfos(err[r].details)
        BY <3>1 DEF Record
      <4>2. IsList(DebugInfos(err[r].details)) /\ d \in ToSet(DebugInfos(err[r].details))
        BY <2>1, <3>4, FilteredDetails DEF IsError
      <4>3. DOMAIN DebugInfos(err[r].details) = 1 .. Len(DebugInfos(err[r].details))
        BY <4>2, ListDomain
      <4> QED
        BY <4>1, <4>2, <4>3 DEF Contains, ToSet
    <3>5. log[r][k].cause = err[r].cause \/ err[r].wrapped
      BY <3>1 DEF Record
    <3>6. ASSUME Answered(r), log[r][k].cause = NoCause, ~err[r].wrapped
          PROVE  err[r] \in HandlerErrors \cup PassedOn
      <4>1. TellsItsCause(err[r]) /\ err[r].code # "ok"
        BY <3>6 DEF IInv, ErrorInv, Failing
      <4> QED
        BY <3>5, <3>6, <4>1 DEF TellsItsCause
    <3> QED
      BY <2>2, <3>1, <3>2, <3>3, <3>4, <3>5, <3>6
  <2>3. CASE ~(pc[r] = "logged" \/ Answered(r))
    <3>1. Records(r, "rpc", 0) = {}
      BY <2>1, <2>3 DEF LogInv
    <3> QED
      BY <2>3, <3>1, FS_EmptySet
  <2> QED
    BY <2>2, <2>3
<1> QED
  BY <1>1, InterceptorInvariant, PTL

LEMMA StatusesIndex ==
  ASSUME NEW response, NEW at \in Statuses(response)
  PROVE  at[1] \in DOMAIN response.entries
  BY DEF Statuses

\* An entry that failed on the server's side is logged at least as often as its
\* response has been sent, by the RPC that sent it; one that failed on the client's
\* side never is.
THEOREM EntriesLogged == Spec => []FailedEntriesLogged
<1>1. IInv => FailedEntriesLogged
  <2> SUFFICES ASSUME IInv, NEW r \in RPC, NEW o \in Response, NEW at \in Statuses(Initially[o]),
                      ~Initially[o].dynamic, Len(Initially[o].entries[at[1]]) = 1
               PROVE  IF ErrorLogLevel(Initially[o].entries[at[1]][1].code) = "error"
                      THEN Cardinality(Records(r, o, at[1])) >= Cardinality({k \in ResponsesSent(r) : wire[r][k].of = o})
                      ELSE Records(r, o, at[1]) = {}
    BY DEF FailedEntriesLogged
  <2> DEFINE i == at[1]
  <2>1. i \in DOMAIN Initially[o].entries /\ HasOneStatus(Initially[o], i) /\ EntriesInv
    BY StatusesIndex DEF HasOneStatus, IInv
  <2>2. {k \in ResponsesSent(r) : wire[r][k].of = o} = SentOf(r, o)
    BY DEF SentOf
  <2> HIDE DEF i
  <2>3. Cardinality(Records(r, o, i)) \in Nat /\ Cardinality(SentOf(r, o)) \in Nat
    <3>1. Records(r, o, i) \subseteq DOMAIN log[r] /\ SentOf(r, o) \subseteq DOMAIN wire[r]
          /\ IsList(log[r]) /\ IsList(wire[r])
      BY DEF Records, SentOf, ResponsesSent, IInv, LogInv, WireInv
    <3> QED
      BY <3>1, FiniteDomain
  <2>4. CASE ErrorLogLevel(Initially[o].entries[i][1].code) = "error"
    <3>1. Cardinality(Records(r, o, i)) >= Cardinality(SentOf(r, o)) + (IF IsPast(r, o, i) THEN 1 ELSE 0)
      BY <2>1, <2>4 DEF EntriesInv
    <3>2. Cardinality(Records(r, o, i)) >= Cardinality(SentOf(r, o))
      BY <2>3, <3>1
    <3> QED
      BY <2>2, <2>4, <3>2 DEF i
  <2>5. CASE ErrorLogLevel(Initially[o].entries[i][1].code) # "error"
    BY <2>1, <2>5 DEF EntriesInv, i
  <2> QED
    BY <2>4, <2>5 DEF i
<1> QED
  BY <1>1, InterceptorInvariant, PTL

\* Of an entry that failed on the server's side, and has one status, the last DebugInfo
\* that can be read is in its response or in exactly one record of the log, whichever
\* RPC sends the response first and whether it gets out or not.  (Of several, those
\* before the last are logged by nobody.)
THEOREM LastDebugInfoKept == Spec => []LastDebugInfoIsNotLost
<1>1. IInv => LastDebugInfoIsNotLost
  <2> SUFFICES ASSUME IInv, NEW o \in Response, NEW at \in Statuses(Initially[o]),
                      Len(Initially[o].entries[at[1]]) = 1,
                      ErrorLogLevel(Initially[o].entries[at[1]][1].code) = "error",
                      DebugInfos(Initially[o].entries[at[1]][1].details) # <<>>
               PROVE  IF DebugInfos(object[o].entries[at[1]][1].details) # <<>> THEN WithDebug(o, at[1]) = {}
                      ELSE /\ Cardinality(WithDebug(o, at[1])) = 1
                           /\ \A p \in WithDebug(o, at[1]) :
                                log[p[1]][p[2]].debug = LastDebugInfo(Initially[o].entries[at[1]][1].details)
    BY DEF LastDebugInfoIsNotLost, WithDebug
  <2>1. DebugInv /\ at[1] \in DOMAIN Initially[o].entries
    BY StatusesIndex DEF IInv
  <2>2. CASE DebugInfos(object[o].entries[at[1]][1].details) # <<>>
    BY <2>1, <2>2 DEF DebugInv
  <2>3. CASE DebugInfos(object[o].entries[at[1]][1].details) = <<>>
    <3>1. PICK p \in WithDebug(o, at[1]) :
            /\ WithDebug(o, at[1]) = {p}
            /\ log[p[1]][p[2]].debug = LastDebugInfo(Initially[o].entries[at[1]][1].details)
      BY <2>1, <2>3 DEF DebugInv
    <3>2. Cardinality(WithDebug(o, at[1])) = 1
      BY <3>1, FS_Singleton
    <3> QED
      BY <2>3, <3>1, <3>2
  <2> QED
    BY <2>2, <2>3
<1> QED
  BY <1>1, InterceptorInvariant, PTL

=============================================================================
