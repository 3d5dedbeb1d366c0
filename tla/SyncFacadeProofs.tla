--------------------------- MODULE SyncFacadeProofs ---------------------------
(***************************************************************************)
(* Theorems of SyncFacade, for any number of overlapping calls and rows,   *)
(* any inputs the contract tells apart, and any caps and limits.           *)
(***************************************************************************)
EXTENDS SyncFacade, SequenceTheorems, FiniteSetTheorems, TLAPS

(***************************************************************************)
(* What validation accepts.                                                *)
(***************************************************************************)

\* Every shape of an argument of enqueue.
AnyInput == {NonObject} \cup SyncItemInput(Seq(STRING))

\* The issues validation can raise.
AnyField == {"input", "method", "url", "body", "contentType", "priority", "headers", "metadata"}
AnyValue == HttpMethod \cup SyncPriority \cup Optional
AnyIssue == [code : {"INVALID_PAYLOAD", "INVALID_URL"}, field : AnyField, key : STRING \cup {""},
             value : AnyValue]

\* A clause raises its issue exactly when it is violated (collectIssuesWithCode).
LEMMA WhenRaises ==
  ASSUME NEW violated \in BOOLEAN, NEW issue \in AnyIssue
  PROVE  When(violated, issue) \in Seq(AnyIssue) /\ (When(violated, issue) = <<>> <=> ~violated)
  BY DEF When

\* A map raises none exactly when it is no scalar and all its entries are strings.
LEMMA MapRaises ==
  ASSUME NEW field \in AnyField, NEW map \in StringMap(Seq(STRING))
  PROVE  /\ MapIssues(field, map) \in Seq(AnyIssue)
         /\ MapIssues(field, map) = <<>> <=> (map.is # "other" /\ map.bad = <<>>)
<1>1. map.bad \in Seq(STRING) /\ Len(map.bad) \in Nat
  <2>1. <<>> \in Seq(STRING)
    OBVIOUS
  <2>2. map.bad \in Seq(STRING)
    BY <2>1 DEF StringMap
  <2> QED BY <2>2, LenProperties
<1> DEFINE whole == When(map.is = "other", Issue("INVALID_PAYLOAD", field, "absent"))
           each == [k \in 1..Len(map.bad) |->
                      [Issue("INVALID_PAYLOAD", field, "absent") EXCEPT !.key = map.bad[k]]]
<1>2. Issue("INVALID_PAYLOAD", field, "absent") \in AnyIssue
  BY DEF Issue, AnyIssue, AnyField, AnyValue, Optional
<1>3. whole \in Seq(AnyIssue) /\ (whole = <<>> <=> map.is # "other")
  BY <1>2, WhenRaises
<1>4. each \in Seq(AnyIssue) /\ Len(each) = Len(map.bad)
  <2>1. \A k \in 1..Len(map.bad) :
          [Issue("INVALID_PAYLOAD", field, "absent") EXCEPT !.key = map.bad[k]] \in AnyIssue
    BY <1>1, <1>2, ElementOfSeq DEF AnyIssue
  <2> QED BY <1>1, <2>1
<1>5. each = <<>> <=> map.bad = <<>>
  BY <1>1, <1>4, EmptySeq
<1>6. MapIssues(field, map) = whole \o each
  BY DEF MapIssues
<1>7. whole \o each \in Seq(AnyIssue) /\ (whole \o each = <<>> <=> whole = <<>> /\ each = <<>>)
  BY <1>3, <1>4, ConcatProperties, ConcatEqualIffEmpty
<1> HIDE DEF whole, each
<1> QED BY <1>3, <1>5, <1>6, <1>7

\* Validation raises issues of an input exactly when it breaks the contract of
\* SyncItemInput (collectIssuesWithCode).
LEMMA CollectExact ==
  ASSUME NEW input \in AnyInput
  PROVE  /\ CollectIssuesWithCode(input) \in Seq(AnyIssue)
         /\ CollectIssuesWithCode(input) = <<>> <=> WellFormed(input)
<1>1. CASE input.is = "other"
  <2>1. Issue("INVALID_PAYLOAD", "input", "absent") \in AnyIssue
    BY DEF Issue, AnyIssue, AnyField, AnyValue, Optional
  <2> QED BY <1>1, <2>1 DEF CollectIssuesWithCode, WellFormed, IllFormed
<1>2. CASE input.is # "other"
  <2>1. input \in SyncItemInput(Seq(STRING))
    BY <1>2 DEF AnyInput, NonObject
  <2>2. /\ input.method \in AnyValue /\ input.contentType \in AnyValue /\ input.priority \in AnyValue
        /\ input.headers \in StringMap(Seq(STRING)) /\ input.metadata \in StringMap(Seq(STRING))
        /\ input.body \in Optional /\ input.contentType \in Optional
    BY <2>1 DEF SyncItemInput, HttpMethod, Optional, SyncPriority, AnyValue
  <2> DEFINE m == When(input.method \notin HttpMethod, Issue("INVALID_PAYLOAD", "method", input.method))
             u == When(input.url # "absolute", Issue("INVALID_URL", "url", "absent"))
             b == When(input.body = "other", Issue("INVALID_PAYLOAD", "body", "absent"))
             t == When(input.contentType = "other", Issue("INVALID_PAYLOAD", "contentType", input.contentType))
             p == When(input.priority \notin SyncPriority \cup {"absent"},
                       Issue("INVALID_PAYLOAD", "priority", input.priority))
             h == MapIssues("headers", input.headers)
             d == MapIssues("metadata", input.metadata)
  <2>3. /\ Issue("INVALID_PAYLOAD", "method", input.method) \in AnyIssue
        /\ Issue("INVALID_URL", "url", "absent") \in AnyIssue
        /\ Issue("INVALID_PAYLOAD", "body", "absent") \in AnyIssue
        /\ Issue("INVALID_PAYLOAD", "contentType", input.contentType) \in AnyIssue
        /\ Issue("INVALID_PAYLOAD", "priority", input.priority) \in AnyIssue
    BY <2>2 DEF Issue, AnyIssue, AnyField, AnyValue, Optional
  <2>4. /\ m \in Seq(AnyIssue) /\ (m = <<>> <=> input.method \in HttpMethod)
        /\ u \in Seq(AnyIssue) /\ (u = <<>> <=> input.url = "absolute")
        /\ b \in Seq(AnyIssue) /\ (b = <<>> <=> input.body # "other")
        /\ t \in Seq(AnyIssue) /\ (t = <<>> <=> input.contentType # "other")
        /\ p \in Seq(AnyIssue) /\ (p = <<>> <=> input.priority \in SyncPriority \cup {"absent"})
    BY <2>3, WhenRaises
  <2>5. /\ h \in Seq(AnyIssue) /\ (h = <<>> <=> (input.headers.is # "other" /\ input.headers.bad = <<>>))
        /\ d \in Seq(AnyIssue) /\ (d = <<>> <=> (input.metadata.is # "other" /\ input.metadata.bad = <<>>))
    BY <2>2, MapRaises DEF AnyField
  <2>6. CollectIssuesWithCode(input) = m \o u \o b \o t \o p \o h \o d
    BY <1>2 DEF CollectIssuesWithCode
  <2> HIDE DEF m, u, b, t, p, h, d
  <2>7. ASSUME NEW r \in Seq(AnyIssue), NEW s \in Seq(AnyIssue)
        PROVE  r \o s \in Seq(AnyIssue) /\ (r \o s = <<>> <=> r = <<>> /\ s = <<>>)
    BY ConcatProperties, ConcatEqualIffEmpty
  <2>8. /\ m \o u \o b \o t \o p \o h \o d \in Seq(AnyIssue)
        /\ (m \o u \o b \o t \o p \o h \o d = <<>>
             <=> m = <<>> /\ u = <<>> /\ b = <<>> /\ t = <<>> /\ p = <<>> /\ h = <<>> /\ d = <<>>)
    <3>1. m \o u \in Seq(AnyIssue) /\ (m \o u = <<>> <=> m = <<>> /\ u = <<>>)
      BY <2>4, <2>7
    <3>2. m \o u \o b \in Seq(AnyIssue) /\ (m \o u \o b = <<>> <=> m \o u = <<>> /\ b = <<>>)
      BY <3>1, <2>4, <2>7
    <3>3. m \o u \o b \o t \in Seq(AnyIssue) /\ (m \o u \o b \o t = <<>> <=> m \o u \o b = <<>> /\ t = <<>>)
      BY <3>2, <2>4, <2>7
    <3>4. /\ m \o u \o b \o t \o p \in Seq(AnyIssue)
          /\ m \o u \o b \o t \o p = <<>> <=> (m \o u \o b \o t = <<>> /\ p = <<>>)
      BY <3>3, <2>4, <2>7
    <3>5. /\ m \o u \o b \o t \o p \o h \in Seq(AnyIssue)
          /\ m \o u \o b \o t \o p \o h = <<>> <=> (m \o u \o b \o t \o p = <<>> /\ h = <<>>)
      BY <3>4, <2>5, <2>7
    <3>6. /\ m \o u \o b \o t \o p \o h \o d \in Seq(AnyIssue)
          /\ m \o u \o b \o t \o p \o h \o d = <<>> <=> (m \o u \o b \o t \o p \o h = <<>> /\ d = <<>>)
      BY <3>5, <2>5, <2>7
    <3> QED BY <3>1, <3>2, <3>3, <3>4, <3>5, <3>6
  <2>9. WellFormed(input) <=>
          /\ input.method \in HttpMethod /\ input.url = "absolute"
          /\ input.body # "other" /\ input.contentType # "other"
          /\ input.priority \in SyncPriority \cup {"absent"}
          /\ input.headers.is # "other" /\ input.headers.bad = <<>>
          /\ input.metadata.is # "other" /\ input.metadata.bad = <<>>
    BY <1>2, <2>2 DEF WellFormed, IllFormed, Optional
  <2> QED BY <2>4, <2>5, <2>6, <2>8, <2>9
<1> QED BY <1>1, <1>2

\* enqueue accepts exactly the inputs the contract allows, and the code of its error is one
\* of the two that mean a malformed argument (validateSyncItem).
LEMMA ValidateExact ==
  ASSUME NEW input \in AnyInput
  PROVE  /\ ValidateSyncItem(input) = NoError <=> WellFormed(input)
         /\ ~WellFormed(input) => ValidateSyncItem(input).code \in {"INVALID_PAYLOAD", "INVALID_URL"}
<1>1. PICK issues : issues = CollectIssuesWithCode(input)
  OBVIOUS
<1>2. issues \in Seq(AnyIssue) /\ (issues = <<>> <=> WellFormed(input))
  BY <1>1, CollectExact
<1>3. CASE issues = <<>>
  BY <1>1, <1>2, <1>3 DEF ValidateSyncItem
<1>4. CASE issues # <<>>
  <2>1. Len(issues) \in Nat \ {0}
    BY <1>2, <1>4, EmptySeq
  <2>2. issues[1] \in AnyIssue
    BY <1>2, <2>1, ElementOfSeq
  <2>3. ValidateSyncItem(input) = SyncError(issues[1].code, CollectSyncItemIssues(input))
    BY <1>1, <1>4 DEF ValidateSyncItem
  <2>4. issues[1].code \in {"INVALID_PAYLOAD", "INVALID_URL"} /\ issues[1].code # "none"
    BY <2>2 DEF AnyIssue
  <2>5. ValidateSyncItem(input).code = issues[1].code
    BY <2>3 DEF SyncError
  <2>6. ValidateSyncItem(input) # NoError
    BY <2>4, <2>5 DEF NoError, SyncError
  <2> QED BY <1>2, <1>4, <2>4, <2>5, <2>6
<1> QED BY <1>3, <1>4

\* The public issues of an input are none exactly when it is well formed
\* (collectSyncItemIssues).
LEMMA PublicExact ==
  ASSUME NEW input \in AnyInput
  PROVE  ToSet(CollectSyncItemIssues(input)) = {} <=> WellFormed(input)
<1>1. PICK issues : issues = CollectIssuesWithCode(input)
  OBVIOUS
<1>2. issues \in Seq(AnyIssue) /\ (issues = <<>> <=> WellFormed(input)) /\ Len(issues) \in Nat
  BY <1>1, CollectExact, LenProperties
<1>3. CollectSyncItemIssues(input) = [k \in 1..Len(issues) |-> ToPublicIssue(issues[k])]
  BY <1>1 DEF CollectSyncItemIssues
<1>4. ToSet(CollectSyncItemIssues(input)) = {ToPublicIssue(issues[k]) : k \in 1..Len(issues)}
  BY <1>3 DEF ToSet
<1>5. CASE issues = <<>>
  <2>1. 1..Len(issues) = {}
    BY <1>5
  <2> QED BY <1>2, <1>4, <1>5, <2>1
<1>6. CASE issues # <<>>
  <2>1. Len(issues) \in Nat \ {0}
    BY <1>2, <1>6, EmptySeq
  <2>2. 1 \in 1..Len(issues)
    BY <2>1
  <2> QED BY <1>2, <1>4, <1>6, <2>2
<1> QED BY <1>5, <1>6

\* The items a batch is refused for are the malformed ones, and there are none in a batch
\* that is passed on (enqueueBatch).
LEMMA BatchExact ==
  ASSUME NEW items \in Batches
  PROVE  /\ {issue.itemIndex : issue \in BatchIssues(items)} = {k \in 0..1 : k < Len(items) /\ ~WellFormed(items[k + 1])}
         /\ BatchIssues(items) = {} <=> {k \in 0..1 : k < Len(items) /\ ~WellFormed(items[k + 1])} = {}
         /\ Len(items) \in 0..2
<1>1. PICK m \in 0..2 : items \in [1..m -> Inputs]
  BY DEF Batches, SeqOf
<1>2. items \in Seq(Inputs) /\ Len(items) = m
  BY <1>1
<1>3. \A k \in 1..Len(items) : items[k] \in AnyInput
  BY <1>1, <1>2, FacadeAssumption DEF AnyInput
<1> DEFINE of(k) == {[itemIndex |-> k - 1, field |-> issue.field] : issue \in ToSet(CollectSyncItemIssues(items[k]))}
<1>4. BatchIssues(items) = UNION {of(k) : k \in 1..Len(items)}
  BY DEF BatchIssues
<1>5. ASSUME NEW k \in 1..Len(items)
      PROVE  /\ of(k) = {} <=> WellFormed(items[k])
             /\ \A x \in of(k) : x.itemIndex = k - 1
  <2>1. PICK T : T = ToSet(CollectSyncItemIssues(items[k]))
    OBVIOUS
  <2>2. T = {} <=> WellFormed(items[k])
    BY <2>1, <1>3, PublicExact
  <2>3. of(k) = {[itemIndex |-> k - 1, field |-> issue.field] : issue \in T}
    BY <2>1
  <2> HIDE DEF of
  <2>4. of(k) = {} <=> T = {}
    BY <2>3
  <2>5. \A x \in of(k) : x.itemIndex = k - 1
    BY <2>3
  <2> QED BY <2>2, <2>4, <2>5
<1> HIDE DEF of
<1>6. ASSUME NEW x \in BatchIssues(items)
      PROVE  x.itemIndex \in {k \in 0..1 : k < Len(items) /\ ~WellFormed(items[k + 1])}
  <2>1. PICK k \in 1..Len(items) : x \in of(k)
    BY <1>4
  <2>2. x.itemIndex = k - 1 /\ ~WellFormed(items[k])
    BY <2>1, <1>5
  <2>3. k - 1 \in 0..1 /\ k - 1 < Len(items) /\ (k - 1) + 1 = k
    BY <1>2
  <2> QED BY <2>2, <2>3
<1>7. ASSUME NEW j \in 0..1, j < Len(items), ~WellFormed(items[j + 1])
      PROVE  \E x \in BatchIssues(items) : x.itemIndex = j
  <2>1. j + 1 \in 1..Len(items) /\ (j + 1) - 1 = j
    BY <1>2, <1>7
  <2>2. PICK x : x \in of(j + 1)
    BY <2>1, <1>5, <1>7
  <2>3. x \in BatchIssues(items)
    BY <2>1, <2>2, <1>4
  <2>4. x.itemIndex = (j + 1) - 1
    BY <2>1, <2>2, <1>5
  <2> QED BY <2>1, <2>3, <2>4
<1>8. Len(items) \in 0..2
  BY <1>2
<1> QED BY <1>6, <1>7, <1>8
-----------------------------------------------------------------------------
(***************************************************************************)
(* What is remembered of the native object.                                *)
(***************************************************************************)

\* Nothing is remembered yet.
LEMMA InitMemo == Init => MemoInv
  BY DEF Init, MemoInv

\* The look for the object creates it at most once and never takes its answer back
\* (getNativeSyncProvider).
LEMMA MemoStep ==
  ASSUME TypeOK, MemoInv, GetNativeSyncProvider, entry = "native", UNCHANGED entry
  PROVE  /\ MemoInv' /\ resolved' \in BOOLEAN /\ available' \in BOOLEAN
         /\ seen' \in [created : Nat, reached : BOOLEAN, refused : BOOLEAN]
         /\ available => available'
         /\ seen.refused => seen'.refused
         /\ ~available' => seen'.refused
<1>1. /\ seen \in [created : Nat, reached : BOOLEAN, refused : BOOLEAN]
      /\ resolved \in BOOLEAN /\ available \in BOOLEAN
  BY DEF TypeOK
<1>2. resolved' = TRUE /\ available' \in BOOLEAN /\ (resolved => available' = available)
  BY <1>1 DEF GetNativeSyncProvider
<1>3. /\ seen'.created = IF resolved THEN seen.created ELSE seen.created + 1
      /\ seen'.reached = (seen.reached \/ available')
      /\ seen'.refused = (seen.refused \/ ~available')
      /\ seen' \in [created : Nat, reached : BOOLEAN, refused : BOOLEAN]
  <2>1. PICK k \in Nat, r \in BOOLEAN, f \in BOOLEAN :
          /\ k = IF resolved THEN seen.created ELSE seen.created + 1
          /\ r = (seen.reached \/ available')
          /\ f = (seen.refused \/ ~available')
    <3>1. (IF resolved THEN seen.created ELSE seen.created + 1) \in Nat
      BY <1>1
    <3>2. (seen.reached \/ available') \in BOOLEAN /\ (seen.refused \/ ~available') \in BOOLEAN
      OBVIOUS
    <3> QED BY <3>1, <3>2
  <2>2. seen' = [seen EXCEPT !.created = k, !.reached = r, !.refused = f]
    BY <2>1 DEF GetNativeSyncProvider
  <2>3. /\ seen'.created = k /\ seen'.reached = r /\ seen'.refused = f
        /\ seen' \in [created : Nat, reached : BOOLEAN, refused : BOOLEAN]
    BY <2>2, <1>1
  <2> QED BY <2>1, <2>3
<1>4. MemoInv'
  BY <1>1, <1>2, <1>3 DEF MemoInv
<1> QED BY <1>1, <1>2, <1>3, <1>4 DEF MemoInv
-----------------------------------------------------------------------------
(***************************************************************************)
(* What calls may say.                                                     *)
(***************************************************************************)

\* What holds of a call is not undone by what others find out about the object.
LEMMA StaysHonest ==
  ASSUME NEW call \in Call, NEW there \in BOOLEAN, NEW barred \in BOOLEAN, Honest(call, there, barred),
         NEW there2 \in BOOLEAN, NEW barred2 \in BOOLEAN, there => there2, barred => barred2,
         NEW a \in BOOLEAN
  PROVE  /\ Honest(call, there2, barred2)
         /\ [call EXCEPT !.alone = a] \in Call
         /\ Honest([call EXCEPT !.alone = a], there2, barred2)
<1>1. Honest(call, there2, barred2)
  BY DEF Honest
<1>2. PICK next : next = [call EXCEPT !.alone = a]
  OBVIOUS
<1>3. /\ next \in Call
      /\ next.phase = call.phase /\ next.op = call.op /\ next.n = call.n /\ next.value = call.value
      /\ next.code = call.code /\ next.blamed = call.blamed /\ next.bad = call.bad
      /\ next.wrote = call.wrote /\ next.found = call.found
  BY <1>2 DEF Call
<1>4. Honest(next, there2, barred2)
  BY <1>1, <1>3 DEF Honest
<1> QED BY <1>1, <1>2, <1>3, <1>4

\* A step that changes one call, and at most tells the others that they are overtaken.
Changes(c, r) ==
  \/ calls' = [calls EXCEPT ![c] = r]
  \/ calls' = [Outdated(c) EXCEPT ![c] = r]

\* Only that call has to be looked at.
LEMMA OneChanges ==
  ASSUME TypeOK, CallsInv, NEW c \in Slot, NEW r \in Call, Changes(c, r), UNCHANGED entry,
         available' \in BOOLEAN, seen' \in [created : Nat, reached : BOOLEAN, refused : BOOLEAN],
         available => available', seen.refused => seen'.refused,
         Honest(r, available', (seen'.refused \/ entry = "web"))
  PROVE  /\ calls' \in [Slot -> Call] /\ CallsInv' /\ calls'[c] = r
         /\ \A d \in Slot \ {c} : /\ calls'[d].phase = calls[d].phase /\ calls'[d].n = calls[d].n
                                  /\ calls'[d].alone => calls[d].alone
<1>1. calls \in [Slot -> Call] /\ available \in BOOLEAN /\ seen.refused \in BOOLEAN /\ seen'.refused \in BOOLEAN
  BY DEF TypeOK
<1>2. PICK b1 \in BOOLEAN, b2 \in BOOLEAN : b1 = (seen.refused \/ entry = "web") /\ b2 = (seen'.refused \/ entry = "web")
  OBVIOUS
<1>3. (b1 => b2) /\ \A d \in Slot : Honest(calls[d], available, b1)
  BY <1>2 DEF CallsInv
<1>4. ASSUME NEW d \in Slot \ {c}
      PROVE  /\ calls'[d] \in Call /\ Honest(calls'[d], available', b2)
             /\ calls'[d].phase = calls[d].phase /\ calls'[d].n = calls[d].n
             /\ calls'[d].alone => calls[d].alone
  <2>1. CASE calls' = [calls EXCEPT ![c] = r]
    <3>1. calls'[d] = calls[d]
      BY <1>1, <2>1
    <3>2. Honest(calls[d], available', b2)
      BY <1>1, <1>3, StaysHonest
    <3> QED BY <1>1, <3>1, <3>2
  <2>2. CASE calls' = [Outdated(c) EXCEPT ![c] = r]
    <3>1. PICK a \in BOOLEAN : a = (calls[d].alone /\ d = c)
      OBVIOUS
    <3>2. ~a
      BY <3>1
    <3>3. calls'[d] = [calls[d] EXCEPT !.alone = a]
      BY <1>1, <2>2, <3>1 DEF Outdated
    <3>4. calls'[d] \in Call /\ Honest(calls'[d], available', b2)
      BY <1>1, <1>3, <3>3, StaysHonest
    <3>5. calls'[d].phase = calls[d].phase /\ calls'[d].n = calls[d].n /\ calls'[d].alone = a
      BY <1>1, <3>3 DEF Call
    <3> QED BY <3>2, <3>4, <3>5
  <2> QED BY <2>1, <2>2 DEF Changes
<1>5. calls'[c] = r
  BY <1>1 DEF Changes, Outdated
<1>6. calls' \in [Slot -> Call]
  <2>1. DOMAIN calls' = Slot /\ calls' = [d \in Slot |-> calls'[d]]
    BY <1>1 DEF Changes, Outdated
  <2> QED BY <2>1, <1>4, <1>5
<1>7. \A d \in Slot : Honest(calls'[d], available', b2)
  BY <1>4, <1>5, <1>2
<1>8. CallsInv'
  BY <1>2, <1>7 DEF CallsInv
<1> QED BY <1>4, <1>5, <1>6, <1>8

\* A new call, before it is told anything.
LEMMA FreshCall ==
  ASSUME NEW op \in Ops
  PROVE  /\ NewCall(op) \in Call /\ NewCall(op).op = op
         /\ NewCall(op).wrote = {} /\ NewCall(op).blamed = {} /\ NewCall(op).bad = {}
<1>1. NoCall \in Call
  BY DEF NoCall, Call, Phases
<1>2. /\ [NoCall EXCEPT !.op = op] \in Call /\ [NoCall EXCEPT !.op = op].op = op
      /\ [NoCall EXCEPT !.op = op].wrote = NoCall.wrote
      /\ [NoCall EXCEPT !.op = op].blamed = NoCall.blamed
      /\ [NoCall EXCEPT !.op = op].bad = NoCall.bad
  BY <1>1 DEF Call
<1> QED BY <1>2 DEF NewCall, NoCall

\* With its number and the malformed items that were passed.
Passing(op, n, bad) == [NewCall(op) EXCEPT !.n = n, !.bad = bad]

\* It has written nothing and blames nobody.
LEMMA NewCallIs ==
  ASSUME NEW op \in Ops, NEW n \in Int, NEW bad \in SUBSET Nat
  PROVE  /\ Passing(op, n, bad) \in Call
         /\ Passing(op, n, bad).op = op /\ Passing(op, n, bad).bad = bad
         /\ Passing(op, n, bad).wrote = {} /\ Passing(op, n, bad).blamed = {}
<1>1. PICK fresh \in Call : fresh = NewCall(op) /\ fresh.op = op /\ fresh.wrote = {} /\ fresh.blamed = {}
  BY FreshCall
<1>2. PICK call : call = [fresh EXCEPT !.n = n, !.bad = bad]
  OBVIOUS
<1>3. call = Passing(op, n, bad)
  BY <1>1, <1>2 DEF Passing
<1>4. /\ call \in Call /\ call.op = fresh.op /\ call.bad = bad
      /\ call.wrote = fresh.wrote /\ call.blamed = fresh.blamed
  BY <1>2 DEF Call
<1> QED BY <1>1, <1>3, <1>4
-----------------------------------------------------------------------------
(***************************************************************************)
(* Each step keeps all of it.                                              *)
(***************************************************************************)
SafeInv == TypeOK /\ MemoInv /\ CallsInv /\ CapInv

\* The other calls stay where they are.
OthersKept(c) == \A d \in Slot \ {c} : calls'[d].phase = calls[d].phase

\* What TypeOK says beside the calls.
RestTypes ==
  /\ entry \in {"native", "web"} /\ resolved \in BOOLEAN /\ available \in BOOLEAN
  /\ stored \subseteq Item /\ gone \subseteq Item /\ stored \cap gone = {}
  /\ cap \in Nat \ {0} /\ results \in 0..MaxResults
  /\ seen \in [created : Nat, reached : BOOLEAN, refused : BOOLEAN]

\* Rows that are taken away leave what was counted within the cap.
LEMMA CapStays ==
  ASSUME SafeInv, NEW c \in Slot, stored' \subseteq stored, UNCHANGED cap, calls'[c].phase # "counted",
         \A d \in Slot \ {c} : /\ calls'[d].phase = calls[d].phase /\ calls'[d].n = calls[d].n
                               /\ calls'[d].alone => calls[d].alone
  PROVE  CapInv'
<1>1. /\ stored \subseteq Item /\ cap \in Nat /\ calls \in [Slot -> Call]
      /\ \A d \in Slot : calls[d].n \in Int
  BY DEF SafeInv, TypeOK, Call
<1>2. /\ IsFiniteSet(stored) /\ IsFiniteSet(stored')
      /\ Cardinality(stored') <= Cardinality(stored)
      /\ Cardinality(stored) \in Nat /\ Cardinality(stored') \in Nat
  BY <1>1, FacadeAssumption, FS_Subset, FS_CardinalityType
<1>3. ASSUME NEW d \in Slot, calls'[d].phase = "counted", calls'[d].alone
      PROVE  Cardinality(stored') + calls'[d].n <= cap'
  <2>1. calls[d].phase = "counted" /\ calls[d].alone /\ calls'[d].n = calls[d].n
    BY <1>3
  <2>2. Cardinality(stored) + calls[d].n <= cap
    BY <2>1 DEF SafeInv, CapInv
  <2> QED BY <1>1, <1>2, <2>1, <2>2
<1> QED BY <1>3 DEF CapInv

\* A step that changes one call, says only what is so, and takes rows away at most, keeps
\* everything.
LEMMA StepOne ==
  ASSUME SafeInv, NEW c \in Slot, NEW r \in Call, Changes(c, r), UNCHANGED entry, RestTypes', MemoInv',
         available => available', seen.refused => seen'.refused,
         Honest(r, available', (seen'.refused \/ entry = "web")),
         stored' \subseteq stored, UNCHANGED cap, r.phase # "counted"
  PROVE  SafeInv' /\ OthersKept(c)
<1>1. /\ calls' \in [Slot -> Call] /\ CallsInv' /\ calls'[c] = r
      /\ \A d \in Slot \ {c} : /\ calls'[d].phase = calls[d].phase /\ calls'[d].n = calls[d].n
                               /\ calls'[d].alone => calls[d].alone
  <2>1. available' \in BOOLEAN /\ seen' \in [created : Nat, reached : BOOLEAN, refused : BOOLEAN]
    BY DEF RestTypes
  <2>2. TypeOK /\ CallsInv
    BY DEF SafeInv
  <2> QED BY <2>1, <2>2, OneChanges
<1>2. CapInv'
  BY <1>1, CapStays
<1>3. TypeOK'
  BY <1>1 DEF TypeOK, RestTypes
<1>4. OthersKept(c)
  BY <1>1 DEF OthersKept
<1> QED BY <1>1, <1>2, <1>3, <1>4 DEF SafeInv

\* The same for a step that does not look for the object.
LEMMA StepCall ==
  ASSUME SafeInv, NEW c \in Slot, NEW r \in Call, Changes(c, r), UNCHANGED <<entry, memoVars, seen>>, RestTypes',
         Honest(r, available, (seen.refused \/ entry = "web")),
         stored' \subseteq stored, UNCHANGED cap, r.phase # "counted"
  PROVE  SafeInv' /\ OthersKept(c)
<1>1. UNCHANGED <<resolved, available, entry, seen>>
  BY DEF memoVars
<1>2. MemoInv'
  BY <1>1 DEF SafeInv, MemoInv
<1>3. Honest(r, available', (seen'.refused \/ entry = "web"))
  BY <1>1
<1> QED BY <1>1, <1>2, <1>3, StepOne

\* A call that passed validation is handed to native, or refused for want of it
\* (nativeOrThrow).
LEMMA StepInvoke ==
  ASSUME SafeInv, NEW c \in Slot, NEW call \in Call, call.wrote = {}, call.blamed = {}, call.bad = {},
         Invoke(c, call)
  PROVE  SafeInv' /\ OthersKept(c)
<1>1. GetNativeSyncProvider /\ entry = "native" /\ UNCHANGED <<entry, stored, gone, cap, results>>
  BY DEF Invoke, NativeOrThrow, nativeVars, rowVars
<1>2. /\ MemoInv' /\ resolved' \in BOOLEAN /\ available' \in BOOLEAN
      /\ seen' \in [created : Nat, reached : BOOLEAN, refused : BOOLEAN]
      /\ available => available'
      /\ seen.refused => seen'.refused
      /\ ~available' => seen'.refused
  BY <1>1, MemoStep DEF SafeInv
<1>3. RestTypes'
  BY <1>1, <1>2 DEF SafeInv, TypeOK, RestTypes
<1>4. CASE available'
  <2>1. PICK r : r = [call EXCEPT !.phase = "native"]
    OBVIOUS
  <2>2. /\ r \in Call /\ r.phase = "native" /\ r.wrote = {} /\ r.blamed = {} /\ r.bad = {}
    BY <2>1 DEF Call, Phases
  <2>3. Changes(c, r)
    BY <2>1, <1>4 DEF Invoke, NativeOrThrow, Changes
  <2>4. Honest(r, available', (seen'.refused \/ entry = "web"))
    BY <2>2, <1>4 DEF Honest
  <2> QED BY <1>1, <1>2, <1>3, <2>2, <2>3, <2>4, StepOne
<1>5. CASE ~available'
  <2>1. PICK r : r = [call EXCEPT !.phase = "rejected", !.code = "NATIVE_MODULE_UNAVAILABLE"]
    OBVIOUS
  <2>2. /\ r \in Call /\ r.phase = "rejected" /\ r.wrote = {} /\ r.blamed = {} /\ r.bad = {}
        /\ r.code = "NATIVE_MODULE_UNAVAILABLE"
    BY <2>1 DEF Call, Phases, SyncErrorCode
  <2>3. Changes(c, r)
    BY <2>1, <1>5 DEF Invoke, NativeOrThrow, Reject, Changes
  <2>4. Honest(r, available', (seen'.refused \/ entry = "web"))
    BY <2>2, <1>2, <1>5 DEF Honest, SyncErrorCode
  <2> QED BY <1>1, <1>2, <1>3, <2>2, <2>3, <2>4, StepOne
<1> QED BY <1>4, <1>5

\* A call that is refused for its argument names what is wrong with it (SyncError).
LEMMA StepRefuse ==
  ASSUME SafeInv, NEW c \in Slot, NEW call \in Call, NEW error,
         call.wrote = {}, call.blamed = call.bad,
         error.code \in {"INVALID_PAYLOAD", "INVALID_URL"},
         error.code = "INVALID_URL" => call.op = "enqueue" /\ call.bad # {},
         Refuse(c, call, error)
  PROVE  SafeInv' /\ OthersKept(c)
<1>1. UNCHANGED <<entry, memoVars, seen, resolved, available, stored, gone, cap, results>>
  BY DEF Refuse, nativeVars, rowVars, memoVars
<1>2. RestTypes'
  BY <1>1 DEF SafeInv, TypeOK, RestTypes
<1>3. PICK r : r = [call EXCEPT !.phase = "rejected", !.code = error.code]
  OBVIOUS
<1>4. /\ r \in Call /\ r.phase = "rejected" /\ r.wrote = {} /\ r.blamed = r.bad /\ r.code = error.code
      /\ r.op = call.op /\ r.bad = call.bad
  BY <1>3 DEF Call, Phases, SyncErrorCode
<1>5. Changes(c, r)
  BY <1>3 DEF Refuse, Reject, Changes
<1>6. Honest(r, available, (seen.refused \/ entry = "web"))
  BY <1>4 DEF Honest, SyncErrorCode
<1> QED BY <1>1, <1>2, <1>4, <1>5, <1>6, StepCall

\* The public functions (enqueue, enqueueBatch and those without an argument to refuse).
LEMMA StepPublic ==
  ASSUME SafeInv, NEW c \in Slot, QueueCall(c) \/ SyncCall(c) \/ HistoryCall(c) \/ DeviceCall(c)
  PROVE  SafeInv' /\ OthersKept(c)
<1>n. \A op \in Ops : NewCall(op) \in Call /\ NewCall(op).op = op /\ NewCall(op).wrote = {}
                      /\ NewCall(op).blamed = {} /\ NewCall(op).bad = {}
  BY FreshCall
<1>a. \A op \in Ops, n \in Int :
        LET call == [NewCall(op) EXCEPT !.n = n]
        IN call \in Call /\ call.wrote = {} /\ call.blamed = {} /\ call.bad = {}
  BY <1>n DEF Call
<1>o. /\ "enqueue" \in Ops /\ "enqueueBatch" \in Ops /\ "removeItem" \in Ops /\ "clearQueue" \in Ops /\ "read" \in Ops
      /\ "flush" \in Ops /\ "set" \in Ops /\ "configureSync" \in Ops /\ "getLastSyncResult" \in Ops
      /\ "getSyncHistory" \in Ops /\ "clearSyncHistory" \in Ops /\ "background" \in Ops /\ "listener" \in Ops
  BY DEF Ops, QueueOps, SyncOps, ConfigOps, HistoryOps, DeviceOps, ListenerOps
<1>p. ASSUME NEW op \in Ops, Invoke(c, NewCall(op)) PROVE SafeInv' /\ OthersKept(c)
  BY <1>p, <1>n, StepInvoke
<1>1. CASE Enqueue(c)
  <2>1. PICK item \in Inputs :
          LET error == ValidateSyncItem(item)
              call == [NewCall("enqueue") EXCEPT !.n = 1, !.bad = {k \in {0} : ~WellFormed(item)}]
          IN IF error = NoError THEN Invoke(c, call)
             ELSE Refuse(c, [call EXCEPT !.blamed = {0}], error)
    BY <1>1 DEF Enqueue
  <2>2. item \in AnyInput
    BY FacadeAssumption DEF AnyInput
  <2>3. PICK bad : bad = {k \in {0} : ~WellFormed(item)}
    OBVIOUS
  <2>9. bad \in SUBSET Nat
    BY <2>3
  <2>10. PICK call : call = [NewCall("enqueue") EXCEPT !.n = 1, !.bad = bad]
    OBVIOUS
  <2>4. call \in Call /\ call.op = "enqueue" /\ call.wrote = {} /\ call.blamed = {} /\ call.bad = bad
    <3>1. call = Passing("enqueue", 1, bad)
      BY <2>10 DEF Passing
    <3>2. "enqueue" \in Ops /\ 1 \in Int /\ bad \in SUBSET Nat
      BY <2>9, <1>o
    <3>3. PICK made \in Call :
            /\ made = Passing("enqueue", 1, bad)
            /\ made.op = "enqueue" /\ made.wrote = {} /\ made.blamed = {} /\ made.bad = bad
      BY <3>2, NewCallIs
    <3> QED BY <3>1, <3>3
  <2>5. CASE ValidateSyncItem(item) = NoError
    <3>1. bad = {}
      BY <2>2, <2>3, <2>5, ValidateExact
    <3>2. Invoke(c, call)
      BY <2>1, <2>3, <2>10, <2>5
    <3> QED BY <2>4, <3>1, <3>2, StepInvoke
  <2>6. CASE ValidateSyncItem(item) # NoError
    <3>1. bad = {0} /\ ValidateSyncItem(item).code \in {"INVALID_PAYLOAD", "INVALID_URL"}
      BY <2>2, <2>3, <2>6, ValidateExact
    <3>2. PICK next : next = [call EXCEPT !.blamed = {0}]
      OBVIOUS
    <3>3. /\ next \in Call
          /\ next.op = "enqueue" /\ next.wrote = {} /\ next.blamed = {0} /\ next.bad = bad
      BY <2>4, <3>2 DEF Call
    <3>4. Refuse(c, next, ValidateSyncItem(item))
      BY <2>1, <2>3, <2>10, <2>6, <3>2
    <3> QED BY <3>1, <3>3, <3>4, StepRefuse
  <2> QED BY <2>5, <2>6
<1>2. CASE EnqueueBatch(c)
  <2>1. PICK items \in Batches :
          LET error == BatchError[items]
              call == [NewCall("enqueueBatch") EXCEPT !.n = Len(items),
                       !.bad = {k \in 0..1 : k < Len(items) /\ ~WellFormed(items[k + 1])}]
          IN IF error.code = "none" THEN Invoke(c, call)
             ELSE Refuse(c, [call EXCEPT !.blamed = {issue.itemIndex : issue \in error.validationErrors}], error)
    BY <1>2 DEF EnqueueBatch
  <2>2. PICK bad : bad = {k \in 0..1 : k < Len(items) /\ ~WellFormed(items[k + 1])}
    OBVIOUS
  <2>8. bad \in SUBSET Nat
    BY <2>2
  <2>3. /\ {issue.itemIndex : issue \in BatchIssues(items)} = bad
        /\ BatchIssues(items) = {} <=> bad = {}
        /\ Len(items) \in Int
    BY <2>2, BatchExact
  <2>9. PICK call : call = [NewCall("enqueueBatch") EXCEPT !.n = Len(items), !.bad = bad]
    OBVIOUS
  <2>4. call \in Call /\ call.op = "enqueueBatch" /\ call.wrote = {} /\ call.blamed = {} /\ call.bad = bad
    <3>1. call = Passing("enqueueBatch", Len(items), bad)
      BY <2>9 DEF Passing
    <3>2. "enqueueBatch" \in Ops /\ Len(items) \in Int /\ bad \in SUBSET Nat
      BY <2>3, <2>8, <1>o
    <3>3. PICK made \in Call :
            /\ made = Passing("enqueueBatch", Len(items), bad)
            /\ made.op = "enqueueBatch" /\ made.wrote = {} /\ made.blamed = {} /\ made.bad = bad
      BY <3>2, NewCallIs
    <3> QED BY <3>1, <3>3
  <2>5. BatchError[items] = IF BatchIssues(items) = {} THEN NoError
                            ELSE SyncError("INVALID_PAYLOAD", BatchIssues(items))
    BY DEF BatchError
  <2>6. CASE BatchIssues(items) = {}
    <3>1. BatchError[items].code = "none"
      BY <2>5, <2>6 DEF NoError, SyncError
    <3>2. Invoke(c, call)
      BY <2>1, <2>2, <2>9, <3>1
    <3> QED BY <2>3, <2>4, <2>6, <3>2, StepInvoke
  <2>7. CASE BatchIssues(items) # {}
    <3>1. BatchError[items].code = "INVALID_PAYLOAD" /\ BatchError[items].validationErrors = BatchIssues(items)
      BY <2>5, <2>7 DEF SyncError
    <3>2. PICK next : next = [call EXCEPT !.blamed = bad]
      OBVIOUS
    <3>3. next \in Call /\ next.wrote = {} /\ next.blamed = bad /\ next.bad = bad
      BY <2>4, <2>8, <3>2 DEF Call
    <3>4. Refuse(c, next, BatchError[items])
      BY <2>1, <2>2, <2>3, <2>9, <3>1, <3>2
    <3> QED BY <3>1, <3>3, <3>4, StepRefuse
  <2> QED BY <2>6, <2>7
<1>3. CASE EnqueueNoBatch(c)
  <2>1. PICK error : error = SyncError("INVALID_PAYLOAD", <<>>)
    OBVIOUS
  <2>2. error.code = "INVALID_PAYLOAD"
    BY <2>1 DEF SyncError
  <2>3. Refuse(c, NewCall("enqueueBatch"), error)
    BY <1>3, <2>1 DEF EnqueueNoBatch
  <2> QED BY <1>n, <1>o, <2>2, <2>3, StepRefuse
<1>4. CASE RemoveItem(c)
  <2>1. PICK i \in Item : Invoke(c, [NewCall("removeItem") EXCEPT !.id = i])
    BY <1>4 DEF RemoveItem
  <2>2. PICK call \in Call : call = NewCall("removeItem") /\ call.wrote = {} /\ call.blamed = {} /\ call.bad = {}
    BY <1>n, <1>o
  <2>3. PICK next : next = [call EXCEPT !.id = i]
    OBVIOUS
  <2>4. next \in Call /\ next.wrote = {} /\ next.blamed = {} /\ next.bad = {}
    BY <2>2, <2>3 DEF Call
  <2> QED BY <2>1, <2>2, <2>3, <2>4, StepInvoke
<1>5. CASE ConfigureSync(c)
  <2>1. PICK m \in Caps : Invoke(c, [NewCall("configureSync") EXCEPT !.n = m])
    BY <1>5 DEF ConfigureSync
  <2>2. m \in Int
    BY FacadeAssumption
  <2>3. PICK call : call = [NewCall("configureSync") EXCEPT !.n = m]
    OBVIOUS
  <2>4. call \in Call /\ call.wrote = {} /\ call.blamed = {} /\ call.bad = {}
    BY <2>2, <2>3, <1>a, <1>o
  <2> QED BY <2>1, <2>3, <2>4, StepInvoke
<1>6. CASE GetSyncHistory(c)
  <2>1. PICK limit \in Limits \cup {Omitted} :
          Invoke(c, [NewCall("getSyncHistory") EXCEPT !.n = IF limit = Omitted THEN 0 ELSE limit])
    BY <1>6 DEF GetSyncHistory
  <2>2. PICK n : n = IF limit = Omitted THEN 0 ELSE limit
    OBVIOUS
  <2>3. n \in Int
    BY <2>2, FacadeAssumption
  <2>4. PICK call : call = [NewCall("getSyncHistory") EXCEPT !.n = n]
    OBVIOUS
  <2>5. call \in Call /\ call.wrote = {} /\ call.blamed = {} /\ call.bad = {}
    BY <2>3, <2>4, <1>a, <1>o
  <2> QED BY <2>1, <2>2, <2>4, <2>5, StepInvoke
<1>7. CASE \/ ClearQueue(c) \/ GetQueueSize(c) \/ GetPendingItems(c)
           \/ Flush(c) \/ PauseSync(c) \/ ResumeSync(c) \/ IsSyncing(c) \/ GetSyncConfig(c)
           \/ GetLastSyncResult(c) \/ ClearSyncHistory(c) \/ DeviceCall(c)
  BY <1>7, <1>o, <1>p
     DEF ClearQueue, GetQueueSize, GetPendingItems, Flush, PauseSync, ResumeSync, IsSyncing, GetSyncConfig,
         GetLastSyncResult, ClearSyncHistory, DeviceCall, GetConnectionStatus, EnableBackgroundSync,
         DisableBackgroundSync, IsBackgroundSyncEnabled, AddSyncEventListener, RemoveSyncEventListener
<1> QED BY <1>1, <1>2, <1>3, <1>4, <1>5, <1>6, <1>7 DEF QueueCall, SyncCall, HistoryCall

\* The web bundle refuses every call but the listeners, which it ignores (index.web.tsx).
LEMMA StepWeb ==
  ASSUME SafeInv, NEW c \in Slot, WebCall(c)
  PROVE  SafeInv' /\ OthersKept(c)
<1>1. UNCHANGED <<entry, memoVars, seen, resolved, available, stored, gone, cap, results>> /\ entry = "web"
  BY DEF WebCall, nativeVars, rowVars, memoVars
<1>2. RestTypes'
  BY <1>1 DEF SafeInv, TypeOK, RestTypes
<1>3. PICK op \in Ops :
        IF op \in ListenerOps THEN calls' = [calls EXCEPT ![c] = [NewCall(op) EXCEPT !.phase = "resolved"]]
                              ELSE Reject(c, NewCall(op), "NATIVE_MODULE_UNAVAILABLE")
  BY DEF WebCall
<1>4. PICK call \in Call : /\ call = NewCall(op) /\ call.op = op
                           /\ call.wrote = {} /\ call.blamed = {} /\ call.bad = {}
  BY FreshCall
<1>5. CASE op \in ListenerOps
  <2>4. PICK r : r = [call EXCEPT !.phase = "resolved"]
    OBVIOUS
  <2>1. r \in Call /\ r = [call EXCEPT !.phase = "resolved"] /\ r.phase = "resolved" /\ r.op = "listener"
    BY <1>4, <1>5, <2>4 DEF Call, Phases, ListenerOps
  <2>2. Changes(c, r)
    BY <1>3, <1>4, <1>5, <2>1 DEF Changes
  <2>3. Honest(r, available, (seen.refused \/ entry = "web"))
    BY <2>1 DEF Honest
  <2> QED BY <1>1, <1>2, <2>1, <2>2, <2>3, StepCall
<1>6. CASE op \notin ListenerOps
  <2>4. PICK r : r = [call EXCEPT !.phase = "rejected", !.code = "NATIVE_MODULE_UNAVAILABLE"]
    OBVIOUS
  <2>1. /\ r \in Call /\ r = [call EXCEPT !.phase = "rejected", !.code = "NATIVE_MODULE_UNAVAILABLE"]
        /\ r.phase = "rejected" /\ r.code = "NATIVE_MODULE_UNAVAILABLE"
        /\ r.wrote = {} /\ r.blamed = {} /\ r.bad = {}
    BY <1>4, <2>4 DEF Call, Phases, SyncErrorCode
  <2>2. Changes(c, r)
    BY <1>3, <1>4, <1>6, <2>1 DEF Changes, Reject
  <2>3. Honest(r, available, (seen.refused \/ entry = "web"))
    BY <1>1, <2>1 DEF Honest, SyncErrorCode
  <2> QED BY <1>1, <1>2, <2>1, <2>2, <2>3, StepCall
<1> QED BY <1>5, <1>6

\* Native answers a call whose answer is not looked at, and takes rows away at most.
LEMMA StepAnswer ==
  ASSUME SafeInv, NEW c \in Slot, NEW value \in Int, calls[c].phase = "native",
         calls[c].op \notin {"getLastSyncResult", "getSyncHistory"}, Answer(c, value),
         UNCHANGED <<entry, memoVars, seen, cap>>, RestTypes', stored' \subseteq stored
  PROVE  SafeInv' /\ OthersKept(c)
<1>1. calls \in [Slot -> Call] /\ calls[c] \in Call /\ Honest(calls[c], available, (seen.refused \/ entry = "web"))
  BY DEF SafeInv, TypeOK, CallsInv
<1>2. PICK r : r = [calls[c] EXCEPT !.phase = "answered", !.value = value]
  OBVIOUS
<1>3. /\ r \in Call /\ r.phase = "answered" /\ r.op = calls[c].op /\ r.blamed = calls[c].blamed /\ r.bad = calls[c].bad
  BY <1>1, <1>2 DEF Call, Phases
<1>4. Changes(c, r)
  BY <1>1, <1>2 DEF Answer, Changes
<1>5. Honest(r, available, (seen.refused \/ entry = "web"))
  BY <1>1, <1>3 DEF Honest
<1> QED BY <1>3, <1>4, <1>5, StepCall

\* Native throws before anything was written.
LEMMA StepThrow ==
  ASSUME SafeInv, NEW c \in Slot, NEW code \in NativeCode, calls[c].phase \in {"native", "counted"}, Throw(c, code),
         UNCHANGED <<entry, memoVars, nativeVars, seen>>
  PROVE  SafeInv' /\ OthersKept(c)
<1>1. calls \in [Slot -> Call] /\ calls[c] \in Call /\ Honest(calls[c], available, (seen.refused \/ entry = "web"))
  BY DEF SafeInv, TypeOK, CallsInv
<1>2. PICK r : r = [calls[c] EXCEPT !.phase = "threw", !.code = code]
  OBVIOUS
<1>3. /\ r \in Call /\ r.phase = "threw" /\ r.wrote = calls[c].wrote /\ r.blamed = calls[c].blamed /\ r.bad = calls[c].bad
  BY <1>1, <1>2 DEF Call, Phases
<1>4. Changes(c, r)
  BY <1>1, <1>2 DEF Throw, Changes
<1>5. Honest(r, available, (seen.refused \/ entry = "web"))
  BY <1>1, <1>3 DEF Honest
<1>6. RestTypes'
  BY DEF SafeInv, TypeOK, RestTypes, memoVars, nativeVars, rowVars
<1>7. stored' = stored /\ cap' = cap
  BY DEF nativeVars, rowVars
<1> QED BY <1>3, <1>4, <1>5, <1>6, <1>7, StepCall

\* A write tells every other call that what it counted is no longer so (InsertRows,
\* NativeConfigure).
LEMMA StepWrite ==
  ASSUME SafeInv, NEW c \in Slot, NEW r \in Call, calls' = [Outdated(c) EXCEPT ![c] = r],
         r.phase = "answered", r.op \notin {"getLastSyncResult", "getSyncHistory"},
         r.blamed = calls[c].blamed, r.bad = calls[c].bad, calls[c].phase \in {"native", "counted"},
         UNCHANGED <<entry, memoVars, seen>>, RestTypes'
  PROVE  SafeInv' /\ OthersKept(c)
<1>1. calls \in [Slot -> Call] /\ Honest(calls[c], available, (seen.refused \/ entry = "web"))
  BY DEF SafeInv, TypeOK, CallsInv
<1>2. UNCHANGED <<resolved, available, entry, seen>>
  BY DEF memoVars
<1>3. Honest(r, available', (seen'.refused \/ entry = "web"))
  BY <1>1, <1>2 DEF Honest
<1>4. Changes(c, r)
  BY DEF Changes
<1>5. available' \in BOOLEAN /\ seen' \in [created : Nat, reached : BOOLEAN, refused : BOOLEAN]
  BY DEF RestTypes
<1>6. /\ calls' \in [Slot -> Call] /\ CallsInv' /\ calls'[c] = r
      /\ \A d \in Slot \ {c} : calls'[d].phase = calls[d].phase
  BY <1>2, <1>3, <1>4, <1>5, OneChanges DEF SafeInv
<1>7. ASSUME NEW d \in Slot PROVE ~(calls'[d].phase = "counted" /\ calls'[d].alone)
  <2>1. CASE d = c
    BY <1>6, <2>1
  <2>2. CASE d # c
    <3>1. PICK a \in BOOLEAN : a = (calls[d].alone /\ d = c)
      OBVIOUS
    <3>2. calls'[d] = [calls[d] EXCEPT !.alone = a]
      BY <1>1, <2>2, <3>1 DEF Outdated
    <3>3. calls'[d].alone = a
      BY <1>1, <3>2 DEF Call
    <3> QED BY <2>2, <3>1, <3>3
  <2> QED BY <2>1, <2>2
<1>8. CapInv'
  BY <1>7 DEF CapInv
<1>9. MemoInv'
  BY <1>2 DEF SafeInv, MemoInv
<1>10. TypeOK'
  BY <1>6 DEF TypeOK, RestTypes
<1> QED BY <1>6, <1>8, <1>9, <1>10 DEF SafeInv, OthersKept

\* The native part of every call (SyncProvider.kt, SyncQueueStorage).
LEMMA StepNative ==
  ASSUME SafeInv, NEW c \in Slot, NativeStep(c)
  PROVE  SafeInv' /\ OthersKept(c)
<1>t. /\ calls \in [Slot -> Call] /\ calls[c] \in Call /\ RestTypes
      /\ Honest(calls[c], available, (seen.refused \/ entry = "web"))
  BY DEF SafeInv, TypeOK, RestTypes, CallsInv
<1>k. UNCHANGED <<entry, memoVars, nativeVars, seen>> => RestTypes' /\ stored' = stored /\ cap' = cap
  BY <1>t DEF RestTypes, memoVars, nativeVars, rowVars
<1>1. CASE CountRows(c)
  <2>1. calls[c].phase = "native" /\ calls[c].op \in {"enqueue", "enqueueBatch"}
    BY <1>1 DEF CountRows, Running
  <2>2. UNCHANGED <<entry, memoVars, nativeVars, seen>>
    BY <1>1 DEF CountRows
  <2>3. CASE Answer(c, 0)
    BY <2>1, <2>2, <2>3, <1>k, StepAnswer
  <2>4. CASE Throw(c, "QUEUE_FULL")
    BY <2>1, <2>2, <2>4, StepThrow DEF NativeCode
  <2>5. CASE ~(Cardinality(stored) + calls[c].n > cap) /\ calls' = [calls EXCEPT ![c].phase = "counted", ![c].alone = TRUE]
    <3>1. PICK r : r = [calls[c] EXCEPT !.phase = "counted", !.alone = TRUE]
      OBVIOUS
    <3>2. /\ r \in Call /\ r.phase = "counted" /\ r.op = calls[c].op /\ r.n = calls[c].n
          /\ r.wrote = calls[c].wrote /\ r.blamed = calls[c].blamed /\ r.bad = calls[c].bad
      BY <3>1, <1>t DEF Call, Phases
    <3>3. Changes(c, r)
      BY <3>1, <2>5, <1>t DEF Changes
    <3>4. UNCHANGED <<entry, resolved, available, seen, stored, cap>>
      BY <2>2 DEF memoVars, nativeVars, rowVars
    <3>5. Honest(r, available', (seen'.refused \/ entry = "web"))
      BY <3>2, <3>4, <2>1, <1>t DEF Honest
    <3>6. /\ calls' \in [Slot -> Call] /\ CallsInv' /\ calls'[c] = r
          /\ \A d \in Slot \ {c} : /\ calls'[d].phase = calls[d].phase /\ calls'[d].n = calls[d].n
                                   /\ calls'[d].alone => calls[d].alone
      <4>1. available' \in BOOLEAN /\ seen' \in [created : Nat, reached : BOOLEAN, refused : BOOLEAN]
        BY <2>2, <1>k DEF RestTypes
      <4> QED BY <3>2, <3>3, <3>4, <3>5, <4>1, OneChanges DEF SafeInv
    <3>7. CapInv'
      <4>1. Cardinality(stored) \in Nat /\ cap \in Nat /\ r.n \in Int
        <5>1. IsFiniteSet(stored)
          BY <1>t, FacadeAssumption, FS_Subset DEF RestTypes
        <5> QED BY <5>1, <3>2, <1>t, FS_CardinalityType DEF RestTypes, Call
      <4>2. Cardinality(stored) + r.n <= cap
        BY <4>1, <2>5, <3>2
      <4>3. ASSUME NEW d \in Slot, calls'[d].phase = "counted", calls'[d].alone
            PROVE  Cardinality(stored') + calls'[d].n <= cap'
        BY <4>2, <4>3, <3>4, <3>6 DEF SafeInv, CapInv
      <4> QED BY <4>3 DEF CapInv
    <3>8. MemoInv'
      BY <3>4 DEF SafeInv, MemoInv
    <3>9. TypeOK'
      BY <3>6, <2>2, <1>k DEF TypeOK, RestTypes
    <3> QED BY <3>6, <3>7, <3>8, <3>9 DEF SafeInv, OthersKept
  <2> QED BY <1>1, <2>3, <2>4, <2>5 DEF CountRows
<1>2. CASE InsertRows(c)
  <2>1. PICK ids \in SUBSET (Item \ (stored \cup gone)) :
          /\ stored' = stored \cup ids
          /\ calls' = [Outdated(c) EXCEPT ![c].phase = "answered", ![c].wrote = ids]
    BY <1>2 DEF InsertRows
  <2>2. UNCHANGED <<entry, memoVars, gone, cap, results, seen>> /\ calls[c].phase = "counted"
    BY <1>2 DEF InsertRows
  <2>3. PICK a \in BOOLEAN : a = (calls[c].alone /\ c = c)
    OBVIOUS
  <2>4. PICK r : r = [[calls[c] EXCEPT !.alone = a] EXCEPT !.phase = "answered", !.wrote = ids]
    OBVIOUS
  <2>5. /\ r \in Call /\ r.phase = "answered" /\ r.op = calls[c].op /\ r.blamed = calls[c].blamed /\ r.bad = calls[c].bad
    BY <2>4, <1>t DEF Call, Phases
  <2>6. calls' = [Outdated(c) EXCEPT ![c] = r]
    BY <2>1, <2>3, <2>4, <1>t DEF Outdated
  <2>7. r.op \notin {"getLastSyncResult", "getSyncHistory"}
    BY <2>2, <2>5, <1>t DEF Honest
  <2>8. RestTypes'
    BY <2>1, <2>2, <1>t DEF RestTypes, memoVars
  <2> QED BY <2>2, <2>5, <2>6, <2>7, <2>8, StepWrite
<1>3. CASE NativeRemoveItem(c)
  <2>1. PICK value \in Int : Answer(c, value)
    BY <1>3 DEF NativeRemoveItem
  <2>2. /\ calls[c].phase = "native" /\ calls[c].op = "removeItem"
        /\ stored' = stored \ {calls[c].id} /\ gone' = gone \cup ({calls[c].id} \cap stored)
        /\ UNCHANGED <<entry, memoVars, cap, results, seen>>
    BY <1>3 DEF NativeRemoveItem, Running
  <2>3. RestTypes'
    BY <2>2, <1>t DEF RestTypes, memoVars
  <2> QED BY <2>1, <2>2, <2>3, StepAnswer
<1>4. CASE NativeClearQueue(c)
  <2>1. /\ calls[c].phase = "native" /\ calls[c].op = "clearQueue" /\ Answer(c, 0)
        /\ stored' = {} /\ gone' = gone \cup stored
        /\ UNCHANGED <<entry, memoVars, cap, results, seen>>
    BY <1>4 DEF NativeClearQueue, Running
  <2>2. RestTypes'
    BY <2>1, <1>t DEF RestTypes, memoVars
  <2> QED BY <2>1, <2>2, StepAnswer
<1>5. CASE NativeElsewhere(c)
  <2>1. /\ calls[c].phase = "native" /\ calls[c].op \in {"read", "set", "background", "listener"} /\ Answer(c, 0)
        /\ UNCHANGED <<entry, memoVars, nativeVars, seen>>
    BY <1>5 DEF NativeElsewhere, Running
  <2> QED BY <2>1, <1>k, StepAnswer
<1>6. CASE NativeFlush(c)
  <2>1. /\ calls[c].phase = "native" /\ calls[c].op = "flush"
        /\ UNCHANGED <<entry, memoVars, cap, seen>>
    BY <1>6 DEF NativeFlush, Running
  <2>2. CASE Answer(c, 0) /\ UNCHANGED <<rowVars, results>>
    <3>1. RestTypes' /\ stored' = stored
      BY <2>1, <2>2, <1>t DEF RestTypes, memoVars, rowVars
    <3> QED BY <2>1, <2>2, <3>1, StepAnswer
  <2>3. CASE /\ results < MaxResults /\ Answer(c, 1) /\ results' = results + 1
             /\ stored' \in SUBSET stored /\ gone' = gone \cup (stored \ stored')
    <3>1. results' \in 0..MaxResults
      BY <2>3, <1>t, FacadeAssumption DEF RestTypes
    <3>2. RestTypes'
      BY <2>1, <2>3, <3>1, <1>t DEF RestTypes, memoVars
    <3> QED BY <2>1, <2>3, <3>2, StepAnswer
  <2> QED BY <1>6, <2>2, <2>3 DEF NativeFlush
<1>7. CASE NativeConfigure(c)
  <2>1. /\ calls[c].phase = "native" /\ calls[c].op = "configureSync"
        /\ cap' = (IF calls[c].n < 1 THEN 1 ELSE calls[c].n)
        /\ calls' = [Outdated(c) EXCEPT ![c].phase = "answered"]
        /\ UNCHANGED <<entry, memoVars, rowVars, results, seen>>
    BY <1>7 DEF NativeConfigure, Running
  <2>2. PICK a \in BOOLEAN : a = (calls[c].alone /\ c = c)
    OBVIOUS
  <2>3. PICK r : r = [[calls[c] EXCEPT !.alone = a] EXCEPT !.phase = "answered"]
    OBVIOUS
  <2>4. /\ r \in Call /\ r.phase = "answered" /\ r.op = calls[c].op /\ r.blamed = calls[c].blamed /\ r.bad = calls[c].bad
    BY <2>3, <1>t DEF Call, Phases
  <2>5. calls' = [Outdated(c) EXCEPT ![c] = r]
    BY <2>1, <2>2, <2>3, <1>t DEF Outdated
  <2>6. cap' \in Nat \ {0}
    <3>1. calls[c].n \in Int
      BY <1>t DEF Call
    <3> QED BY <2>1, <3>1
  <2>7. RestTypes'
    BY <2>1, <2>6, <1>t DEF RestTypes, memoVars, rowVars
  <2> QED BY <2>1, <2>4, <2>5, <2>7, StepWrite
<1>8. CASE NativeGetLastResult(c) \/ NativeGetHistory(c)
  <2>1. /\ calls[c].phase = "native" /\ calls[c].op \in {"getLastSyncResult", "getSyncHistory"}
        /\ UNCHANGED <<entry, memoVars, nativeVars, seen>>
    BY <1>8 DEF NativeGetLastResult, NativeGetHistory, Running
  <2>2. PICK value \in Int :
          /\ calls' = [calls EXCEPT ![c].phase = "answered", ![c].value = value, ![c].found = results]
          /\ calls[c].op = "getLastSyncResult" => value = IF results > 0 THEN 1 ELSE 0
          /\ calls[c].op = "getSyncHistory" /\ calls[c].n = 0 => value = results
    <3>1. results \in Int /\ calls[c].n \in Int
      BY <1>t DEF RestTypes, Call
    <3>2. CASE NativeGetLastResult(c)
      <4>1. PICK value : value = IF results > 0 THEN 1 ELSE 0
        OBVIOUS
      <4>2. value \in Int
        BY <4>1
      <4>3. calls[c].op = "getLastSyncResult"
           /\ calls' = [calls EXCEPT ![c].phase = "answered", ![c].value = value, ![c].found = results]
        BY <3>2, <4>1 DEF NativeGetLastResult, Running
      <4> QED BY <4>1, <4>2, <4>3
    <3>3. CASE NativeGetHistory(c)
      <4>1. PICK value : value = IF calls[c].n > 0 /\ calls[c].n < results THEN calls[c].n ELSE results
        OBVIOUS
      <4>2. value \in Int /\ (calls[c].n = 0 => value = results)
        BY <3>1, <4>1
      <4>3. calls[c].op = "getSyncHistory"
           /\ calls' = [calls EXCEPT ![c].phase = "answered", ![c].value = value, ![c].found = results]
        BY <3>3, <4>1 DEF NativeGetHistory, Running
      <4> QED BY <4>2, <4>3
    <3> QED BY <1>8, <3>2, <3>3
  <2>3. PICK r : r = [calls[c] EXCEPT !.phase = "answered", !.value = value, !.found = results]
    OBVIOUS
  <2>4. /\ r \in Call /\ r.phase = "answered" /\ r.op = calls[c].op /\ r.n = calls[c].n
        /\ r.blamed = calls[c].blamed /\ r.bad = calls[c].bad /\ r.value = value /\ r.found = results
    <3>1. results \in Nat
      BY <1>t, FacadeAssumption DEF RestTypes
    <3> QED BY <2>3, <3>1, <1>t DEF Call, Phases
  <2>5. Changes(c, r)
    BY <2>2, <2>3, <1>t DEF Changes
  <2>6. Honest(r, available, (seen.refused \/ entry = "web"))
    BY <2>1, <2>2, <2>4, <1>t DEF Honest
  <2> QED BY <2>1, <2>4, <2>5, <2>6, <1>k, StepCall
<1>9. CASE NativeClearHistory(c)
  <2>1. /\ calls[c].phase = "native" /\ calls[c].op = "clearSyncHistory" /\ Answer(c, 0) /\ results' = 0
        /\ UNCHANGED <<entry, memoVars, rowVars, cap, seen>>
    BY <1>9 DEF NativeClearHistory, Running
  <2>2. RestTypes' /\ stored' = stored
    BY <2>1, <1>t, FacadeAssumption DEF RestTypes, memoVars, rowVars
  <2> QED BY <2>1, <2>2, StepAnswer
<1>10. CASE NativeThrows(c)
  <2>1. PICK code \in NativeCode : Throw(c, code)
    BY <1>10 DEF NativeThrows, NativeCode
  <2> QED BY <1>10, <2>1, StepThrow DEF NativeThrows
<1> QED BY <1>1, <1>2, <1>3, <1>4, <1>5, <1>6, <1>7, <1>8, <1>9, <1>10 DEF NativeStep

\* The answer takes its public form (wrapNativeError, the sentinel of getLastSyncResult).
LEMMA StepSettle ==
  ASSUME SafeInv, NEW c \in Slot, Settle(c)
  PROVE  SafeInv' /\ OthersKept(c)
<1>t. /\ calls \in [Slot -> Call] /\ calls[c] \in Call /\ RestTypes
      /\ Honest(calls[c], available, (seen.refused \/ entry = "web"))
  BY DEF SafeInv, TypeOK, RestTypes, CallsInv
<1>k. UNCHANGED <<entry, memoVars, nativeVars, seen>> /\ RestTypes' /\ stored' = stored /\ cap' = cap
  BY <1>t DEF Settle, RestTypes, memoVars, nativeVars, rowVars
<1>1. CASE calls[c].phase = "answered" /\ calls' = [calls EXCEPT ![c] = Resolved(calls[c])]
  <2>1. CASE calls[c].op \in HistoryOps
    <3>1. PICK value : value = IF IsLastSyncSentinel(calls[c]) THEN Undefined ELSE calls[c].value
      OBVIOUS
    <3>2. value \in Int
      BY <3>1, <1>t DEF Call, Undefined
    <3>3. PICK r : r = [calls[c] EXCEPT !.phase = "resolved", !.value = value]
      OBVIOUS
    <3>4. /\ r \in Call /\ r.phase = "resolved" /\ r.op = calls[c].op /\ r.n = calls[c].n
          /\ r.value = value /\ r.found = calls[c].found
      BY <3>2, <3>3, <1>t DEF Call, Phases
    <3>5. r = Resolved(calls[c])
      BY <2>1, <3>1, <3>3, <1>t DEF Resolved, Call
    <3>6. Changes(c, r)
      BY <1>1, <3>5 DEF Changes
    <3>7. /\ calls[c].op = "getLastSyncResult" => calls[c].value = IF calls[c].found > 0 THEN 1 ELSE 0
          /\ calls[c].op = "getSyncHistory" /\ calls[c].n = 0 => calls[c].value = calls[c].found
          /\ calls[c].found \in Nat
      BY <1>1, <1>t DEF Honest, Call
    <3>8. /\ r.op = "getLastSyncResult" => r.value # 0 /\ (r.value = Undefined) = (r.found = 0)
          /\ r.op = "getSyncHistory" /\ r.n = 0 => r.value = r.found
      BY <3>1, <3>4, <3>7 DEF IsLastSyncSentinel, Undefined
    <3>9. Honest(r, available, (seen.refused \/ entry = "web"))
      BY <3>4, <3>8 DEF Honest
    <3> QED BY <3>4, <3>6, <3>9, <1>k, StepCall
  <2>2. CASE calls[c].op \notin HistoryOps
    <3>1. NoCall \in Call /\ NoCall.phase = "free"
      BY DEF NoCall, Call, Phases
    <3>2. Changes(c, NoCall)
      BY <1>1, <2>2 DEF Changes, Resolved
    <3>3. Honest(NoCall, available, (seen.refused \/ entry = "web"))
      BY <3>1 DEF Honest
    <3> QED BY <3>1, <3>2, <3>3, <1>k, StepCall
  <2> QED BY <2>1, <2>2
<1>2. CASE calls[c].phase = "threw" /\ calls' = [calls EXCEPT ![c] = WrapNativeError(calls[c])]
  <2>1. PICK code : code = Fallback(calls[c].op)
    OBVIOUS
  <2>2. code \in {"NETWORK_ERROR", "BACKGROUND_TASK_REGISTRATION_FAILED", "INVALID_PAYLOAD"}
    BY <2>1 DEF Fallback
  <2>3. PICK r : r = [calls[c] EXCEPT !.phase = "rejected", !.code = code]
    OBVIOUS
  <2>4. /\ r \in Call /\ r.phase = "rejected" /\ r.code = code /\ r.wrote = calls[c].wrote
        /\ r.blamed = calls[c].blamed /\ r.bad = calls[c].bad
    BY <2>2, <2>3, <1>t DEF Call, Phases, SyncErrorCode
  <2>5. Changes(c, r)
    BY <1>2, <2>1, <2>3 DEF Changes, WrapNativeError
  <2>6. Honest(r, available, (seen.refused \/ entry = "web"))
    BY <1>2, <2>2, <2>4, <1>t DEF Honest, SyncErrorCode
  <2> QED BY <2>4, <2>5, <2>6, <1>k, StepCall
<1> QED BY <1>1, <1>2 DEF Settle

\* At the start nothing was called.
LEMMA InitSafe == Init => SafeInv
<1> SUFFICES ASSUME Init PROVE SafeInv
  OBVIOUS
<1>1. NoCall \in Call /\ NoCall.phase = "free"
  BY DEF NoCall, Call, Phases
<1>2. \A c \in Slot : calls[c] = NoCall
  BY DEF Init
<1>3. TypeOK
  <2>1. entry \in {"native", "web"} /\ resolved \in BOOLEAN /\ available \in BOOLEAN
    BY DEF Init
  <2>2. calls \in [Slot -> Call]
    BY <1>1 DEF Init
  <2>3. stored \subseteq Item /\ gone \subseteq Item /\ stored \cap gone = {}
    BY DEF Init
  <2>4. cap \in Nat \ {0} /\ results \in 0..MaxResults
    BY FacadeAssumption DEF Init
  <2>5. seen \in [created : Nat, reached : BOOLEAN, refused : BOOLEAN]
    BY DEF Init
  <2> QED BY <2>1, <2>2, <2>3, <2>4, <2>5 DEF TypeOK
<1>4. CallsInv
  BY <1>1, <1>2 DEF CallsInv, Honest
<1>5. CapInv
  BY <1>1, <1>2 DEF CapInv
<1> QED BY <1>3, <1>4, <1>5, InitMemo DEF SafeInv

\* A step that changes nothing keeps it too.
LEMMA StutterSafe == SafeInv /\ UNCHANGED vars => SafeInv'
<1> SUFFICES ASSUME SafeInv, UNCHANGED vars PROVE SafeInv'
  OBVIOUS
<1>1. UNCHANGED <<entry, resolved, available, calls, stored, gone, cap, results, seen>>
  BY DEF vars, memoVars, nativeVars, rowVars
<1> QED BY <1>1 DEF SafeInv, TypeOK, MemoInv, CallsInv, CapInv

\* Whoever takes a step, all of it is kept and the other calls stay where they are.
LEMMA StepSafe ==
  ASSUME SafeInv, NEW c \in Slot,
         \/ QueueCall(c) \/ SyncCall(c) \/ HistoryCall(c) \/ DeviceCall(c)
         \/ WebCall(c) \/ NativeStep(c) \/ Settle(c)
  PROVE  SafeInv' /\ OthersKept(c)
  BY StepPublic, StepWeb, StepNative, StepSettle

\* The inductive invariant.
LEMMA SafeHolds == Spec => []SafeInv
<1>1. SafeInv /\ [Next]_vars => SafeInv'
  BY StepSafe, StutterSafe DEF Next
<1> QED BY <1>1, InitSafe, PTL DEF Spec
-----------------------------------------------------------------------------
(***************************************************************************)
(* The theorems.                                                           *)
(***************************************************************************)

\* The calls and the native state have their types (index.tsx, SyncQueueStorage).
THEOREM TypeCorrect == Spec => []TypeOK
<1>1. SafeInv => TypeOK
  BY DEF SafeInv
<1> QED BY <1>1, SafeHolds, PTL

\* The native object is created at most once, and no call is refused for want of it after
\* one got through (isNativeModuleAvailable.ts, getNativeSyncProvider).
THEOREM OneNativeObjectHolds == Spec => []OneNativeObject
<1>1. SafeInv => OneNativeObject
  BY DEF SafeInv, MemoInv, OneNativeObject
<1> QED BY <1>1, SafeHolds, PTL

\* A rejection tells the caller what happened: nothing was stored, exactly the malformed
\* items are named, and a code that names the module or a URL is the facade's own verdict
\* (SyncError, wrapNativeError).
THEOREM RejectionTellsHolds == Spec => []RejectionTells
<1>1. SafeInv => RejectionTells
  <2> SUFFICES ASSUME SafeInv PROVE RejectionTells
    OBVIOUS
  <2>1. seen.refused \/ entry = "web" => ~available
    BY DEF SafeInv, MemoInv
  <2>2. \A c \in Slot : Honest(calls[c], available, (seen.refused \/ entry = "web"))
    BY DEF SafeInv, CallsInv
  <2>3. ASSUME NEW c \in Slot, calls[c].phase = "rejected"
        PROVE  /\ calls[c].wrote = {} /\ calls[c].blamed = calls[c].bad
               /\ calls[c].code = "INVALID_URL" => calls[c].op = "enqueue" /\ calls[c].bad # {}
               /\ calls[c].code = "NATIVE_MODULE_UNAVAILABLE" => ~available
               /\ calls[c].code \in SyncErrorCode
    <3>1. Honest(calls[c], available, (seen.refused \/ entry = "web"))
      BY <2>2
    <3> QED BY <2>1, <2>3, <3>1 DEF Honest
  <2> QED BY <2>3 DEF RejectionTells
<1> QED BY <1>1, SafeHolds, PTL

\* No caller of the history meets the sentinel, and history without a limit is all of it
\* (getLastSyncResult, getSyncHistory).
THEOREM HistoryHonestHolds == Spec => []HistoryHonest
<1>1. SafeInv => HistoryHonest
  <2> SUFFICES ASSUME SafeInv PROVE HistoryHonest
    OBVIOUS
  <2>1. ASSUME NEW c \in Slot, calls[c].phase = "resolved"
        PROVE  /\ calls[c].op = "getLastSyncResult" /\ entry = "native" =>
                    calls[c].value # 0 /\ (calls[c].value = Undefined) = (calls[c].found = 0)
               /\ calls[c].op = "getSyncHistory" /\ calls[c].n = 0 => calls[c].value = calls[c].found
    <3>1. Honest(calls[c], available, (seen.refused \/ entry = "web"))
      BY DEF SafeInv, CallsInv
    <3> QED BY <2>1, <3>1 DEF Honest
  <2> QED BY <2>1 DEF HistoryHonest
<1> QED BY <1>1, SafeHolds, PTL

\* Only the insert takes a call from its count to an answer.
LEMMA OnlyInsertAnswers ==
  ASSUME SafeInv, NEW c \in Slot, calls[c].phase = "counted", calls'[c].phase = "answered", [Next]_vars
  PROVE  InsertRows(c)
<1>1. calls \in [Slot -> Call]
  BY DEF SafeInv, TypeOK
<1>2. calls' # calls
  OBVIOUS
<1>3. PICK d \in Slot :
        \/ QueueCall(d) \/ SyncCall(d) \/ HistoryCall(d) \/ DeviceCall(d)
        \/ WebCall(d) \/ NativeStep(d) \/ Settle(d)
  BY <1>2 DEF Next, vars
<1>4. d = c
  <2>1. OthersKept(d)
    BY <1>3, StepSafe
  <2> QED BY <2>1 DEF OthersKept
<1>5. \A call, error : ~Invoke(c, call) /\ ~Refuse(c, call, error)
  BY DEF Invoke, Refuse, Free
<1>6. ~WebCall(c) /\ ~QueueCall(c) /\ ~SyncCall(c) /\ ~HistoryCall(c) /\ ~DeviceCall(c)
  <2>1. ~WebCall(c)
    BY DEF WebCall, Free
  <2>2. ~QueueCall(c)
    BY <1>5 DEF QueueCall, Enqueue, EnqueueBatch, EnqueueNoBatch, RemoveItem, ClearQueue, GetQueueSize, GetPendingItems
  <2>3. ~SyncCall(c)
    BY <1>5 DEF SyncCall, Flush, PauseSync, ResumeSync, IsSyncing, ConfigureSync, GetSyncConfig
  <2>4. ~HistoryCall(c)
    BY <1>5 DEF HistoryCall, GetLastSyncResult, GetSyncHistory, ClearSyncHistory
  <2>5. ~DeviceCall(c)
    BY <1>5 DEF DeviceCall, GetConnectionStatus, EnableBackgroundSync, DisableBackgroundSync,
                IsBackgroundSyncEnabled, AddSyncEventListener, RemoveSyncEventListener
  <2> QED BY <2>1, <2>2, <2>3, <2>4, <2>5
<1>7. ~Settle(c)
  BY DEF Settle
<1>8. \A code : Throw(c, code) => calls'[c].phase = "threw"
  <2> SUFFICES ASSUME NEW code, Throw(c, code) PROVE calls'[c].phase = "threw"
    OBVIOUS
  <2>1. calls[c] \in Call
    BY <1>1
  <2>2. PICK r : r = [calls[c] EXCEPT !.phase = "threw", !.code = code]
    OBVIOUS
  <2>3. calls'[c] = r
    BY <1>1, <2>2 DEF Throw
  <2>4. r.phase = "threw"
    BY <2>1, <2>2 DEF Call
  <2> QED BY <2>3, <2>4
<1>9. ~NativeThrows(c)
  BY <1>8 DEF NativeThrows
<1>10. \A ops : ~Running(c, ops)
  BY DEF Running
<1> QED BY <1>3, <1>4, <1>6, <1>7, <1>9, <1>10 DEF NativeStep, CountRows, NativeRemoveItem, NativeClearQueue,
           NativeElsewhere, NativeFlush, NativeConfigure, NativeGetLastResult, NativeGetHistory, NativeClearHistory

\* An enqueue that no other write overtook between its count and its insert keeps the cap
\* (SyncQueueStorage.enqueue and enqueueBatch).
THEOREM CapKeptHolds == Spec => CapKept
<1>1. ASSUME SafeInv, [Next]_vars, NEW c \in Slot,
             calls[c].phase = "counted", calls[c].alone, calls'[c].phase = "answered"
      PROVE  Cardinality(stored') <= cap
  <2>1. PICK ids \in SUBSET (Item \ (stored \cup gone)) :
          Cardinality(ids) = calls[c].n /\ stored' = stored \cup ids
    BY <1>1, OnlyInsertAnswers DEF InsertRows
  <2>8. calls[c] \in Call /\ cap \in Nat /\ stored \subseteq Item
    BY <1>1 DEF SafeInv, TypeOK
  <2>2. calls[c].n \in Int /\ cap \in Nat /\ stored \subseteq Item
    BY <2>8 DEF Call
  <2>3. IsFiniteSet(stored) /\ IsFiniteSet(ids)
    BY <2>1, <2>2, FacadeAssumption, FS_Subset
  <2>4. stored \cap ids = {}
    BY <2>1
  <2>5. Cardinality(stored') = Cardinality(stored) + Cardinality(ids) - Cardinality({})
    BY <2>1, <2>3, <2>4, FS_Union
  <2>6. Cardinality({}) = 0 /\ Cardinality(stored) \in Nat /\ Cardinality(ids) \in Nat
    BY <2>3, FS_EmptySet, FS_CardinalityType
  <2>7. Cardinality(stored) + calls[c].n <= cap
    BY <1>1 DEF SafeInv, CapInv
  <2> QED BY <2>1, <2>2, <2>5, <2>6, <2>7
<1>2. SafeInv /\ [Next]_vars =>
        [\A c \in Slot : (calls[c].phase = "counted" /\ calls[c].alone /\ calls'[c].phase = "answered")
           => Cardinality(stored') <= cap]_vars
  BY <1>1
<1>3. Spec => [][Next]_vars
  BY PTL DEF Spec
<1> QED BY <1>2, <1>3, SafeHolds, PTL DEF CapKept
=============================================================================
