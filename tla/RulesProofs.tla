----------------------------- MODULE RulesProofs -----------------------------
(***************************************************************************)
(* Theorems of the pure functions as MCRules calls them: validation and    *)
(* the JSON form of an item, for any keys and maps of any size.            *)
(***************************************************************************)
EXTENDS MCRules, SequenceTheorems, TLAPS

\* The functions are called one at a time.
RulesSpec == RulesInit /\ [][RulesNext]_rulesVars

(***************************************************************************)
(* The issues of an input, as a set.                                       *)
(***************************************************************************)

\* Every shape of an argument of enqueue; the bad keys of a map are any sequence.
AnyInput == {NonObject} \cup SyncItemInput(Seq(Keys))

AnyIssue == [code : {"INVALID_PAYLOAD", "INVALID_URL"},
             field : {"input", "method", "url", "body", "contentType", "priority", "headers", "metadata"},
             key : Keys \cup {""},
             value : HttpMethod \cup SyncPriority \cup Optional]

Elements(s) == {s[k] : k \in 1..Len(s)}

\* An issue of one field, wherever it comes from.
About(s, field) == \A issue \in Elements(s) : issue.field = field

\* The elements of two lists one after the other, and their number.
LEMMA Concatenated ==
  ASSUME NEW S, NEW s \in Seq(S), NEW t \in Seq(S)
  PROVE  /\ s \o t \in Seq(S)
         /\ Elements(s \o t) = Elements(s) \cup Elements(t)
         /\ Len(s \o t) = Len(s) + Len(t)
<1>1. /\ s \o t \in Seq(S) /\ Len(s \o t) = Len(s) + Len(t)
      /\ Len(s) \in Nat /\ Len(t) \in Nat
      /\ \A k \in 1..Len(s) + Len(t) : (s \o t)[k] = IF k <= Len(s) THEN s[k] ELSE t[k - Len(s)]
  BY ConcatProperties, LenProperties
<1>2. ASSUME NEW x \in Elements(s \o t) PROVE x \in Elements(s) \cup Elements(t)
  <2>1. PICK k \in 1..Len(s) + Len(t) : x = (s \o t)[k]
    BY <1>1, <1>2 DEF Elements
  <2>2. CASE k <= Len(s)
    BY <1>1, <2>1, <2>2 DEF Elements
  <2>3. CASE k > Len(s)
    <3>1. k - Len(s) \in 1..Len(t) /\ x = t[k - Len(s)]
      BY <1>1, <2>1, <2>3
    <3> QED BY <3>1 DEF Elements
  <2> QED BY <1>1, <2>2, <2>3
<1>3. ASSUME NEW x \in Elements(s) PROVE x \in Elements(s \o t)
  <2>1. PICK k \in 1..Len(s) : x = s[k]
    BY <1>3 DEF Elements
  <2>2. k \in 1..Len(s \o t) /\ x = (s \o t)[k]
    BY <1>1, <2>1
  <2> QED BY <2>2 DEF Elements
<1>4. ASSUME NEW x \in Elements(t) PROVE x \in Elements(s \o t)
  <2>1. PICK k \in 1..Len(t) : x = t[k]
    BY <1>4 DEF Elements
  <2>2. k + Len(s) \in 1..Len(s \o t) /\ x = (s \o t)[k + Len(s)]
    BY <1>1, <2>1
  <2> QED BY <2>2 DEF Elements
<1> QED BY <1>1, <1>2, <1>3, <1>4

\* A clause raises its issue, and it alone, exactly when it is violated (collectIssuesWithCode).
LEMMA Raised ==
  ASSUME NEW violated \in BOOLEAN, NEW issue \in AnyIssue, NEW raised, raised = When(violated, issue)
  PROVE  /\ raised \in Seq(AnyIssue)
         /\ Len(raised) \in Nat
         /\ Elements(raised) # {} <=> violated
         /\ \A i \in Elements(raised) : i = issue
<1>1. CASE violated
  <2>1. raised = <<issue>>
    BY <1>1 DEF When
  <2>2. Elements(<<issue>>) = {issue} /\ <<issue>> \in Seq(AnyIssue) /\ Len(<<issue>>) = 1
    BY DEF Elements
  <2> QED BY <1>1, <2>1, <2>2
<1>2. CASE ~violated
  <2>1. raised = <<>>
    BY <1>2 DEF When
  <2>2. Elements(<<>>) = {} /\ <<>> \in Seq(AnyIssue) /\ Len(<<>>) = 0
    BY DEF Elements
  <2> QED BY <1>2, <2>1, <2>2
<1> QED BY <1>1, <1>2

\* A map is blamed exactly when it is a scalar or has a bad entry, and each bad entry gets
\* an issue of its own (collectMapIssues).
LEMMA MapRaised ==
  ASSUME NEW field \in {"headers", "metadata"}, NEW map \in StringMap(Seq(Keys)),
         NEW issues, issues = MapIssues(field, map)
  PROVE  /\ issues \in Seq(AnyIssue)
         /\ About(issues, field)
         /\ \A i \in Elements(issues) : i.value = "absent" /\ i.code = "INVALID_PAYLOAD"
         /\ Elements(issues) = {} <=> ~(map.is = "other" \/ map.bad # <<>>)
         /\ \A k \in 1..Len(map.bad) : \E i \in Elements(issues) : i.key = map.bad[k]
         /\ Len(issues) \in Nat /\ Len(map.bad) \in Nat /\ Len(issues) >= Len(map.bad)
<1>1. map.is \in {"absent", "other", "object"} /\ map.bad \in Seq(Keys) /\ Len(map.bad) \in Nat
  <2>1. <<>> \in Seq(Keys)
    OBVIOUS
  <2>2. map.is \in {"absent", "other", "object"} /\ map.bad \in Seq(Keys)
    BY <2>1 DEF StringMap
  <2> QED BY <2>2, LenProperties
<1>2. PICK plain : plain = Issue("INVALID_PAYLOAD", field, "absent")
  OBVIOUS
<1>3. plain = [code |-> "INVALID_PAYLOAD", field |-> field, key |-> "", value |-> "absent"]
  BY <1>2 DEF Issue
<1>4. plain \in AnyIssue
  BY <1>3 DEF AnyIssue, Optional
<1>5. PICK whole : whole = When(map.is = "other", plain)
  OBVIOUS
<1>6. whole \in Seq(AnyIssue) /\ Elements(whole) = {i \in {plain} : map.is = "other"} /\ Len(whole) \in Nat
  <2>1. /\ whole \in Seq(AnyIssue) /\ Len(whole) \in Nat
        /\ Elements(whole) # {} <=> map.is = "other"
        /\ \A i \in Elements(whole) : i = plain
    BY <1>4, <1>5, Raised
  <2>2. Elements(whole) = {i \in {plain} : map.is = "other"}
    BY <2>1
  <2> QED BY <2>1, <2>2
<1>7. PICK entries : entries = [k \in 1..Len(map.bad) |-> [plain EXCEPT !.key = map.bad[k]]]
  OBVIOUS
<1>8. \A k \in 1..Len(map.bad) :
        /\ entries[k] \in AnyIssue
        /\ entries[k].field = field /\ entries[k].key = map.bad[k]
        /\ entries[k].value = "absent" /\ entries[k].code = "INVALID_PAYLOAD"
  <2>1. TAKE k \in 1..Len(map.bad)
  <2>2. map.bad[k] \in Keys
    BY <1>1, ElementOfSeq
  <2>3. entries[k] = [code |-> "INVALID_PAYLOAD", field |-> field, key |-> map.bad[k], value |-> "absent"]
    BY <1>3, <1>7
  <2>4. PICK e : e = entries[k]
    OBVIOUS
  <2>5. e = [code |-> "INVALID_PAYLOAD", field |-> field, key |-> map.bad[k], value |-> "absent"]
    BY <2>3, <2>4
  <2>6. e \in AnyIssue
    BY <2>2, <2>5 DEF AnyIssue, Optional
  <2> QED BY <2>4, <2>5, <2>6
<1>9. entries \in Seq(AnyIssue) /\ Len(entries) = Len(map.bad)
  <2>1. PICK n \in Nat : n = Len(map.bad)
    BY <1>1
  <2>2. entries \in [1..n -> AnyIssue]
    BY <1>7, <1>8, <2>1
  <2> QED BY <2>1, <2>2
<1>10. issues = whole \o entries
  BY <1>2, <1>5, <1>7 DEF MapIssues
<1>11. /\ issues \in Seq(AnyIssue)
       /\ Elements(issues) = Elements(whole) \cup Elements(entries)
       /\ Len(issues) = Len(whole) + Len(map.bad)
  <2>1. /\ whole \o entries \in Seq(AnyIssue)
        /\ Elements(whole \o entries) = Elements(whole) \cup Elements(entries)
        /\ Len(whole \o entries) = Len(whole) + Len(entries)
    BY <1>6, <1>9, Concatenated
  <2> QED BY <1>9, <1>10, <2>1
<1>12. Elements(entries) = {entries[k] : k \in 1..Len(map.bad)}
  BY <1>9 DEF Elements
<1>13. Elements(entries) = {} <=> map.bad = <<>>
  <2>1. map.bad = <<>> <=> Len(map.bad) = 0
    BY <1>1, EmptySeq
  <2>2. 1..Len(map.bad) = {} <=> Len(map.bad) = 0
    <3>1. PICK n \in Nat : n = Len(map.bad)
      BY <1>1
    <3>2. n # 0 => 1 \in 1..n
      OBVIOUS
    <3>3. 1..0 = {}
      OBVIOUS
    <3> QED BY <3>1, <3>2, <3>3
  <2> QED BY <1>12, <2>1, <2>2
<1>14. \A i \in Elements(issues) : i.field = field /\ i.value = "absent" /\ i.code = "INVALID_PAYLOAD"
  <2>1. TAKE i \in Elements(issues)
  <2>2. CASE i = plain
    BY <1>3, <2>2
  <2>3. CASE i \in Elements(entries)
    <3>1. PICK k \in 1..Len(map.bad) : i = entries[k]
      BY <1>12, <2>3
    <3> QED BY <1>8, <3>1
  <2>4. i = plain \/ i \in Elements(entries)
    BY <1>6, <1>11
  <2> QED BY <2>2, <2>3, <2>4
<1>15. Elements(issues) = {} <=> ~(map.is = "other" \/ map.bad # <<>>)
  BY <1>6, <1>11, <1>13
<1>16. \A k \in 1..Len(map.bad) : \E i \in Elements(issues) : i.key = map.bad[k]
  BY <1>8, <1>11, <1>12
<1> QED BY <1>1, <1>6, <1>11, <1>14, <1>15, <1>16 DEF About

\* The issues of an input are about the fields that break the contract and no others; only
\* the URL has a code of its own; a value is recorded for three fields; and each bad entry
\* of a map has an issue (collectIssuesWithCode).
Right(x, issues) ==
  /\ issues \in Seq(AnyIssue)
  /\ {i.field : i \in Elements(issues)} = IllFormed(x)
  /\ \A i \in Elements(issues) : i.code = "INVALID_URL" => i.field = "url"
  /\ \A i \in Elements(issues) : i.value # "absent" => i.field \in {"method", "priority", "contentType"}
  /\ \A f \in {"headers", "metadata"} : \A k \in 1..Len(x[f].bad) :
       \E i \in Elements(issues) : i.field = f /\ i.key = x[f].bad[k]
  /\ Len(issues) >= Len(x.headers.bad) + Len(x.metadata.bad)

\* The issues collected are right, for every input (collectIssuesWithCode).
LEMMA Collected ==
  ASSUME NEW x \in AnyInput, NEW issues, issues = CollectIssuesWithCode(x)
  PROVE  Right(x, issues)
<1>1. CASE x = NonObject
  <2>1. x.is = "other" /\ x.headers.bad = <<>> /\ x.metadata.bad = <<>>
    BY <1>1 DEF NonObject, NoMap
  <2>2. PICK issue : issue = Issue("INVALID_PAYLOAD", "input", "absent")
    OBVIOUS
  <2>3. issue = [code |-> "INVALID_PAYLOAD", field |-> "input", key |-> "", value |-> "absent"]
    BY <2>2 DEF Issue
  <2>4. issue \in AnyIssue
    BY <2>3 DEF AnyIssue, Optional
  <2>5. issues = <<issue>>
    BY <2>1, <2>2 DEF CollectIssuesWithCode
  <2>6. issues \in Seq(AnyIssue) /\ Len(issues) = 1
    BY <2>4, <2>5
  <2>7. Elements(issues) = {issue}
    BY <2>5 DEF Elements
  <2>8. IllFormed(x) = {"input"}
    BY <2>1 DEF IllFormed
  <2>9. \A i \in Elements(issues) : i.code = "INVALID_PAYLOAD" /\ i.value = "absent"
    <3>1. issue.code = "INVALID_PAYLOAD" /\ issue.value = "absent"
      BY <2>3
    <3> QED BY <2>7, <3>1
  <2>10. {i.field : i \in Elements(issues)} = {"input"}
    <3>1. issue.field = "input"
      BY <2>3
    <3> QED BY <2>7, <3>1
  <2>11. \A f \in {"headers", "metadata"} : 1..Len(x[f].bad) = {}
    <3>1. x["headers"].bad = <<>> /\ x["metadata"].bad = <<>>
      BY <2>1
    <3>2. 1..Len(<<>>) = {}
      OBVIOUS
    <3> QED BY <3>1, <3>2
  <2>12. Len(issues) >= Len(x.headers.bad) + Len(x.metadata.bad)
    BY <2>1, <2>6
  <2>13. \A i \in Elements(issues) : i.code = "INVALID_URL" => i.field = "url"
    BY <2>9
  <2>14. \A i \in Elements(issues) : i.value # "absent" => i.field \in {"method", "priority", "contentType"}
    BY <2>9
  <2>15. issues \in Seq(AnyIssue)
    BY <2>6
  <2> QED BY <2>8, <2>10, <2>11, <2>12, <2>13, <2>14, <2>15, Zenon DEF Right
<1>2. CASE x \in SyncItemInput(Seq(Keys))
  <2>1. /\ x.is = "object"
        /\ x.method \in HttpMethod \cup {"absent", "other"}
        /\ x.contentType \in Optional /\ x.body \in Optional
        /\ x.priority \in SyncPriority \cup {"absent", "other"}
        /\ x.headers \in StringMap(Seq(Keys)) /\ x.metadata \in StringMap(Seq(Keys))
    BY <1>2 DEF SyncItemInput
  <2>2. PICK im, iu, ib, it, ip :
          /\ im = Issue("INVALID_PAYLOAD", "method", x.method)
          /\ iu = Issue("INVALID_URL", "url", "absent")
          /\ ib = Issue("INVALID_PAYLOAD", "body", "absent")
          /\ it = Issue("INVALID_PAYLOAD", "contentType", x.contentType)
          /\ ip = Issue("INVALID_PAYLOAD", "priority", x.priority)
    OBVIOUS
  <2>3. /\ im = [code |-> "INVALID_PAYLOAD", field |-> "method", key |-> "", value |-> x.method]
        /\ iu = [code |-> "INVALID_URL", field |-> "url", key |-> "", value |-> "absent"]
        /\ ib = [code |-> "INVALID_PAYLOAD", field |-> "body", key |-> "", value |-> "absent"]
        /\ it = [code |-> "INVALID_PAYLOAD", field |-> "contentType", key |-> "", value |-> x.contentType]
        /\ ip = [code |-> "INVALID_PAYLOAD", field |-> "priority", key |-> "", value |-> x.priority]
    BY <2>2 DEF Issue
  <2>4. im \in AnyIssue /\ iu \in AnyIssue /\ ib \in AnyIssue /\ it \in AnyIssue /\ ip \in AnyIssue
    <3>1. im \in AnyIssue
      BY <2>1, <2>3 DEF AnyIssue, Optional
    <3>2. iu \in AnyIssue /\ ib \in AnyIssue
      BY <2>3 DEF AnyIssue, Optional
    <3>3. it \in AnyIssue
      BY <2>1, <2>3 DEF AnyIssue
    <3>4. ip \in AnyIssue
      BY <2>1, <2>3 DEF AnyIssue, Optional
    <3> QED BY <3>1, <3>2, <3>3, <3>4
  <2>5. PICK m, u, b, t, p, h, d :
          /\ m = When(x.method \notin HttpMethod, im)
          /\ u = When(x.url # "absolute", iu)
          /\ b = When(x.body = "other", ib)
          /\ t = When(x.contentType = "other", it)
          /\ p = When(x.priority \notin SyncPriority \cup {"absent"}, ip)
          /\ h = MapIssues("headers", x.headers)
          /\ d = MapIssues("metadata", x.metadata)
    OBVIOUS
  <2>6. issues = m \o u \o b \o t \o p \o h \o d
    BY <2>1, <2>2, <2>5 DEF CollectIssuesWithCode
  <2>7. /\ m \in Seq(AnyIssue) /\ Len(m) \in Nat
        /\ Elements(m) # {} <=> x.method \notin HttpMethod
        /\ \A i \in Elements(m) : i = im
    BY <2>4, <2>5, Raised
  <2>8. /\ u \in Seq(AnyIssue) /\ Len(u) \in Nat
        /\ Elements(u) # {} <=> x.url # "absolute"
        /\ \A i \in Elements(u) : i = iu
    BY <2>4, <2>5, Raised
  <2>9. /\ b \in Seq(AnyIssue) /\ Len(b) \in Nat
        /\ Elements(b) # {} <=> x.body = "other"
        /\ \A i \in Elements(b) : i = ib
    BY <2>4, <2>5, Raised
  <2>10. /\ t \in Seq(AnyIssue) /\ Len(t) \in Nat
         /\ Elements(t) # {} <=> x.contentType = "other"
         /\ \A i \in Elements(t) : i = it
    BY <2>4, <2>5, Raised
  <2>11. /\ p \in Seq(AnyIssue) /\ Len(p) \in Nat
         /\ Elements(p) # {} <=> x.priority \notin SyncPriority \cup {"absent"}
         /\ \A i \in Elements(p) : i = ip
    BY <2>4, <2>5, Raised
  <2>12. /\ h \in Seq(AnyIssue) /\ Len(h) \in Nat
         /\ About(h, "headers")
         /\ \A i \in Elements(h) : i.value = "absent" /\ i.code = "INVALID_PAYLOAD"
         /\ Elements(h) = {} <=> ~(x.headers.is = "other" \/ x.headers.bad # <<>>)
         /\ \A k \in 1..Len(x.headers.bad) : \E i \in Elements(h) : i.key = x.headers.bad[k]
         /\ Len(x.headers.bad) \in Nat /\ Len(h) >= Len(x.headers.bad)
    <3>1. "headers" \in {"headers", "metadata"}
      OBVIOUS
    <3> QED BY <2>1, <2>5, <3>1, MapRaised
  <2>13. /\ d \in Seq(AnyIssue) /\ Len(d) \in Nat
         /\ About(d, "metadata")
         /\ \A i \in Elements(d) : i.value = "absent" /\ i.code = "INVALID_PAYLOAD"
         /\ Elements(d) = {} <=> ~(x.metadata.is = "other" \/ x.metadata.bad # <<>>)
         /\ \A k \in 1..Len(x.metadata.bad) : \E i \in Elements(d) : i.key = x.metadata.bad[k]
         /\ Len(x.metadata.bad) \in Nat /\ Len(d) >= Len(x.metadata.bad)
    <3>1. "metadata" \in {"headers", "metadata"}
      OBVIOUS
    <3> QED BY <2>1, <2>5, <3>1, MapRaised
  <2>14. /\ m \in Seq(AnyIssue) /\ u \in Seq(AnyIssue) /\ b \in Seq(AnyIssue) /\ t \in Seq(AnyIssue)
         /\ p \in Seq(AnyIssue) /\ h \in Seq(AnyIssue) /\ d \in Seq(AnyIssue)
    <3>1. m \in Seq(AnyIssue)
      BY <2>7
    <3>2. u \in Seq(AnyIssue)
      BY <2>8
    <3>3. b \in Seq(AnyIssue)
      BY <2>9
    <3>4. t \in Seq(AnyIssue)
      BY <2>10
    <3>5. p \in Seq(AnyIssue)
      BY <2>11
    <3>6. h \in Seq(AnyIssue)
      BY <2>12
    <3>7. d \in Seq(AnyIssue)
      BY <2>13
    <3> QED BY <3>1, <3>2, <3>3, <3>4, <3>5, <3>6, <3>7
  <2>15. /\ issues \in Seq(AnyIssue)
         /\ Elements(issues) = Elements(m) \cup Elements(u) \cup Elements(b) \cup Elements(t)
                                 \cup Elements(p) \cup Elements(h) \cup Elements(d)
         /\ Len(issues) = Len(m) + Len(u) + Len(b) + Len(t) + Len(p) + Len(h) + Len(d)
    <3>1. PICK s2 : s2 = m \o u
      OBVIOUS
    <3>2. /\ s2 \in Seq(AnyIssue) /\ Elements(s2) = Elements(m) \cup Elements(u)
          /\ Len(s2) = Len(m) + Len(u)
      <4>1. /\ m \o u \in Seq(AnyIssue)
            /\ Elements(m \o u) = Elements(m) \cup Elements(u)
            /\ Len(m \o u) = Len(m) + Len(u)
        BY <2>14, Concatenated
      <4> QED BY <3>1, <4>1
    <3>3. PICK s3 : s3 = s2 \o b
      OBVIOUS
    <3>4. /\ s3 \in Seq(AnyIssue) /\ Elements(s3) = Elements(s2) \cup Elements(b)
          /\ Len(s3) = Len(s2) + Len(b)
      <4>1. /\ s2 \o b \in Seq(AnyIssue)
            /\ Elements(s2 \o b) = Elements(s2) \cup Elements(b)
            /\ Len(s2 \o b) = Len(s2) + Len(b)
        BY <2>14, <3>2, Concatenated
      <4> QED BY <3>3, <4>1
    <3>5. PICK s4 : s4 = s3 \o t
      OBVIOUS
    <3>6. /\ s4 \in Seq(AnyIssue) /\ Elements(s4) = Elements(s3) \cup Elements(t)
          /\ Len(s4) = Len(s3) + Len(t)
      <4>1. /\ s3 \o t \in Seq(AnyIssue)
            /\ Elements(s3 \o t) = Elements(s3) \cup Elements(t)
            /\ Len(s3 \o t) = Len(s3) + Len(t)
        BY <2>14, <3>4, Concatenated
      <4> QED BY <3>5, <4>1
    <3>7. PICK s5 : s5 = s4 \o p
      OBVIOUS
    <3>8. /\ s5 \in Seq(AnyIssue) /\ Elements(s5) = Elements(s4) \cup Elements(p)
          /\ Len(s5) = Len(s4) + Len(p)
      <4>1. /\ s4 \o p \in Seq(AnyIssue)
            /\ Elements(s4 \o p) = Elements(s4) \cup Elements(p)
            /\ Len(s4 \o p) = Len(s4) + Len(p)
        BY <2>14, <3>6, Concatenated
      <4> QED BY <3>7, <4>1
    <3>9. PICK s6 : s6 = s5 \o h
      OBVIOUS
    <3>10. /\ s6 \in Seq(AnyIssue) /\ Elements(s6) = Elements(s5) \cup Elements(h)
          /\ Len(s6) = Len(s5) + Len(h)
      <4>1. /\ s5 \o h \in Seq(AnyIssue)
            /\ Elements(s5 \o h) = Elements(s5) \cup Elements(h)
            /\ Len(s5 \o h) = Len(s5) + Len(h)
        BY <2>14, <3>8, Concatenated
      <4> QED BY <3>9, <4>1
    <3>11. issues = s6 \o d
      BY <2>6, <3>1, <3>3, <3>5, <3>7, <3>9
    <3>12. /\ issues \in Seq(AnyIssue) /\ Elements(issues) = Elements(s6) \cup Elements(d)
          /\ Len(issues) = Len(s6) + Len(d)
      <4>1. /\ s6 \o d \in Seq(AnyIssue)
            /\ Elements(s6 \o d) = Elements(s6) \cup Elements(d)
            /\ Len(s6 \o d) = Len(s6) + Len(d)
        BY <2>14, <3>10, Concatenated
      <4> QED BY <3>11, <4>1
    <3>13. Elements(issues) = Elements(m) \cup Elements(u) \cup Elements(b) \cup Elements(t)
                                \cup Elements(p) \cup Elements(h) \cup Elements(d)
      BY <3>2, <3>4, <3>6, <3>8, <3>10, <3>12
    <3>14. Len(issues) = Len(m) + Len(u) + Len(b) + Len(t) + Len(p) + Len(h) + Len(d)
      BY <3>2, <3>4, <3>6, <3>8, <3>10, <3>12
    <3> QED BY <3>12, <3>13, <3>14
  <2>16. Elements(issues) = Elements(m) \cup Elements(u) \cup Elements(b) \cup Elements(t)
                              \cup Elements(p) \cup Elements(h) \cup Elements(d)
    BY <2>15
  <2>17. /\ im.field = "method" /\ im.code = "INVALID_PAYLOAD"
         /\ iu.field = "url" /\ iu.value = "absent"
         /\ ib.field = "body" /\ ib.code = "INVALID_PAYLOAD" /\ ib.value = "absent"
         /\ it.field = "contentType" /\ it.code = "INVALID_PAYLOAD"
         /\ ip.field = "priority" /\ ip.code = "INVALID_PAYLOAD"
    BY <2>3
  <2>18. \A f : f \in IllFormed(x) <=>
           \/ f = "method" /\ Elements(m) # {}
           \/ f = "url" /\ Elements(u) # {}
           \/ f = "body" /\ Elements(b) # {}
           \/ f = "contentType" /\ Elements(t) # {}
           \/ f = "priority" /\ Elements(p) # {}
           \/ f = "headers" /\ Elements(h) # {}
           \/ f = "metadata" /\ Elements(d) # {}
    <3>1. x.body = "other" <=> x.body \notin {"absent", "string"}
      BY <2>1 DEF Optional
    <3>2. x.contentType = "other" <=> x.contentType \notin {"absent", "string"}
      BY <2>1 DEF Optional
    <3>3. \A f : f \in IllFormed(x) <=>
           \/ f = "method" /\ x.method \notin HttpMethod
           \/ f = "url" /\ x.url # "absolute"
           \/ f = "body" /\ x.body \notin {"absent", "string"}
           \/ f = "contentType" /\ x.contentType \notin {"absent", "string"}
           \/ f = "priority" /\ x.priority \notin SyncPriority \cup {"absent"}
           \/ f = "headers" /\ (x.headers.is = "other" \/ x.headers.bad # <<>>)
           \/ f = "metadata" /\ (x.metadata.is = "other" \/ x.metadata.bad # <<>>)
      <4>1. x.is # "other"
        BY <2>1
      <4> QED BY <4>1 DEF IllFormed
    <3>4. Elements(m) # {} <=> x.method \notin HttpMethod
      BY <2>7
    <3>5. Elements(u) # {} <=> x.url # "absolute"
      BY <2>8
    <3>6. Elements(b) # {} <=> x.body = "other"
      BY <2>9
    <3>7. Elements(t) # {} <=> x.contentType = "other"
      BY <2>10
    <3>8. Elements(p) # {} <=> x.priority \notin SyncPriority \cup {"absent"}
      BY <2>11
    <3>9. Elements(h) # {} <=> (x.headers.is = "other" \/ x.headers.bad # <<>>)
      BY <2>12
    <3>10. Elements(d) # {} <=> (x.metadata.is = "other" \/ x.metadata.bad # <<>>)
      BY <2>13
    <3> QED BY <3>1, <3>2, <3>3, <3>4, <3>5, <3>6, <3>7, <3>8, <3>9, <3>10
  <2>19. \A i \in Elements(h) : i.field = "headers"
    BY <2>12 DEF About
  <2>20. \A i \in Elements(d) : i.field = "metadata"
    BY <2>13 DEF About
  <2>21. ASSUME NEW i \in Elements(issues)
         PROVE  /\ i.field \in IllFormed(x)
                /\ i.code = "INVALID_URL" => i.field = "url"
                /\ i.value # "absent" => i.field \in {"method", "priority", "contentType"}
    <3>1. CASE i \in Elements(m)
      <4>1. i = im /\ Elements(m) # {}
        BY <2>7, <3>1
      <4> QED BY <2>17, <2>18, <4>1
    <3>2. CASE i \in Elements(u)
      <4>1. i = iu /\ Elements(u) # {}
        BY <2>8, <3>2
      <4> QED BY <2>17, <2>18, <4>1
    <3>3. CASE i \in Elements(b)
      <4>1. i = ib /\ Elements(b) # {}
        BY <2>9, <3>3
      <4> QED BY <2>17, <2>18, <4>1
    <3>4. CASE i \in Elements(t)
      <4>1. i = it /\ Elements(t) # {}
        BY <2>10, <3>4
      <4> QED BY <2>17, <2>18, <4>1
    <3>5. CASE i \in Elements(p)
      <4>1. i = ip /\ Elements(p) # {}
        BY <2>11, <3>5
      <4> QED BY <2>17, <2>18, <4>1
    <3>6. CASE i \in Elements(h)
      <4>1. i.value = "absent" /\ i.code = "INVALID_PAYLOAD" /\ Elements(h) # {}
        BY <2>12, <3>6
      <4> QED BY <2>19, <2>18, <3>6, <4>1
    <3>7. CASE i \in Elements(d)
      <4>1. i.value = "absent" /\ i.code = "INVALID_PAYLOAD" /\ Elements(d) # {}
        BY <2>13, <3>7
      <4> QED BY <2>20, <2>18, <3>7, <4>1
    <3> QED BY <2>21, <2>16, <3>1, <3>2, <3>3, <3>4, <3>5, <3>6, <3>7
  <2>22. ASSUME NEW f \in IllFormed(x) PROVE \E i \in Elements(issues) : i.field = f
    <3>1. ASSUME f = "method", Elements(m) # {} PROVE \E i \in Elements(issues) : i.field = f
      BY <2>7, <2>16, <2>17, <3>1
    <3>2. ASSUME f = "url", Elements(u) # {} PROVE \E i \in Elements(issues) : i.field = f
      BY <2>8, <2>16, <2>17, <3>2
    <3>3. ASSUME f = "body", Elements(b) # {} PROVE \E i \in Elements(issues) : i.field = f
      BY <2>9, <2>16, <2>17, <3>3
    <3>4. ASSUME f = "contentType", Elements(t) # {} PROVE \E i \in Elements(issues) : i.field = f
      BY <2>10, <2>16, <2>17, <3>4
    <3>5. ASSUME f = "priority", Elements(p) # {} PROVE \E i \in Elements(issues) : i.field = f
      BY <2>11, <2>16, <2>17, <3>5
    <3>6. ASSUME f = "headers", Elements(h) # {} PROVE \E i \in Elements(issues) : i.field = f
      BY <2>16, <2>19, <3>6
    <3>7. ASSUME f = "metadata", Elements(d) # {} PROVE \E i \in Elements(issues) : i.field = f
      BY <2>16, <2>20, <3>7
    <3> QED BY <2>22, <2>18, <3>1, <3>2, <3>3, <3>4, <3>5, <3>6, <3>7
  <2>23. {i.field : i \in Elements(issues)} = IllFormed(x)
    BY <2>21, <2>22
  <2>24. ASSUME NEW f \in {"headers", "metadata"}, NEW k \in 1..Len(x[f].bad)
         PROVE  \E i \in Elements(issues) : i.field = f /\ i.key = x[f].bad[k]
    <3>1. CASE f = "headers"
      <4>1. PICK i \in Elements(h) : i.key = x.headers.bad[k]
        BY <2>12, <3>1
      <4> QED BY <2>16, <2>19, <3>1, <4>1
    <3>2. CASE f = "metadata"
      <4>1. PICK i \in Elements(d) : i.key = x.metadata.bad[k]
        BY <2>13, <3>2
      <4> QED BY <2>16, <2>20, <3>2, <4>1
    <3> QED BY <3>1, <3>2
  <2>25. Len(issues) >= Len(x.headers.bad) + Len(x.metadata.bad)
    <3>1. Len(m) \in Nat /\ Len(u) \in Nat /\ Len(b) \in Nat
      BY <2>7, <2>8, <2>9
    <3>2. Len(t) \in Nat /\ Len(p) \in Nat
      BY <2>10, <2>11
    <3>3. Len(h) \in Nat /\ Len(x.headers.bad) \in Nat /\ Len(h) >= Len(x.headers.bad)
      BY <2>12
    <3>4. Len(d) \in Nat /\ Len(x.metadata.bad) \in Nat /\ Len(d) >= Len(x.metadata.bad)
      BY <2>13
    <3>5. Len(issues) = Len(m) + Len(u) + Len(b) + Len(t) + Len(p) + Len(h) + Len(d)
      BY <2>15
    <3>6. Len(m) + Len(u) + Len(b) + Len(t) + Len(p) \in Nat
      BY <3>1, <3>2
    <3>7. PICK others \in Nat : others = Len(m) + Len(u) + Len(b) + Len(t) + Len(p)
      BY <3>6
    <3>8. Len(issues) = others + Len(h) + Len(d)
      BY <3>5, <3>7
    <3>9. PICK lh \in Nat, ld \in Nat, kh \in Nat, kd \in Nat :
            lh = Len(h) /\ ld = Len(d) /\ kh = Len(x.headers.bad) /\ kd = Len(x.metadata.bad)
      BY <3>3, <3>4
    <3>10. lh >= kh /\ ld >= kd
      BY <3>3, <3>4, <3>9
    <3>11. lh + ld >= kh + kd
      BY <3>10
    <3>12. others + lh + ld >= lh + ld
      OBVIOUS
    <3>13. others + lh + ld >= kh + kd
      BY <3>11, <3>12
    <3> QED BY <3>8, <3>9, <3>13
  <2>26. issues \in Seq(AnyIssue)
    BY <2>15
  <2>27. \A i \in Elements(issues) : i.code = "INVALID_URL" => i.field = "url"
    BY <2>21
  <2>28. \A i \in Elements(issues) : i.value # "absent" => i.field \in {"method", "priority", "contentType"}
    BY <2>21
  <2> QED BY <2>23, <2>24, <2>25, <2>26, <2>27, <2>28, Zenon DEF Right
<1> QED BY <1>1, <1>2 DEF AnyInput

(***************************************************************************)
(* What the callers see.                                                   *)
(***************************************************************************)

\* What ValidationExact says of an input, its error and the issues that go with it.
Tells(x, error, issues) ==
  /\ Fields(issues) = IllFormed(x)
  /\ (error.code = "none") = WellFormed(x)
  /\ error.code = "INVALID_URL" => "url" \in IllFormed(x)
  /\ \A f \in {"headers", "metadata"} : \A k \in 1..Len(x[f].bad) :
       \E n \in 1..Len(issues) : issues[n].field = f /\ issues[n].key = x[f].bad[k]
  /\ Len(issues) >= Len(x.headers.bad) + Len(x.metadata.bad)
  /\ \A n \in 1..Len(issues) :
       issues[n].value # "absent" => issues[n].field \in {"method", "priority", "contentType"}

ExactAt(x) == Tells(x, ValidateSyncItem(x), ValidateSyncItem(x).validationErrors)

\* The public issues are those collected, one for one, without their code
\* (collectSyncItemIssues).
LEMMA Published ==
  ASSUME NEW x, NEW issues \in Seq(AnyIssue), issues = CollectIssuesWithCode(x),
         NEW public, public = CollectSyncItemIssues(x)
  PROVE  /\ Len(public) = Len(issues) /\ Len(issues) \in Nat
         /\ \A n \in 1..Len(issues) :
              /\ issues[n] \in Elements(issues)
              /\ public[n].field = issues[n].field
              /\ public[n].key = issues[n].key
              /\ public[n].value = issues[n].value
         /\ Fields(public) = {i.field : i \in Elements(issues)}
<1>1. PICK len \in Nat : len = Len(issues)
  BY LenProperties
<1>2. public = [n \in 1..len |-> ToPublicIssue(issues[n])]
  BY <1>1 DEF CollectSyncItemIssues
<1>3. Len(public) = len
  BY <1>2
<1>4. \A n \in 1..len :
        /\ issues[n] \in Elements(issues)
        /\ public[n].field = issues[n].field
        /\ public[n].key = issues[n].key
        /\ public[n].value = issues[n].value
  BY <1>1, <1>2 DEF ToPublicIssue, Elements
<1>5. Fields(public) = {public[n].field : n \in 1..len}
  BY <1>3 DEF Fields
<1>6. Elements(issues) = {issues[n] : n \in 1..len}
  BY <1>1 DEF Elements
<1>7. Fields(public) = {i.field : i \in Elements(issues)}
  BY <1>4, <1>5, <1>6
<1> QED BY <1>1, <1>3, <1>4, <1>7

\* Validation tells exactly what is wrong, for every input (validateSyncItem).
LEMMA Exact ==
  ASSUME NEW x \in AnyInput
  PROVE  ExactAt(x)
<1>1. PICK issues : issues = CollectIssuesWithCode(x)
  OBVIOUS
<1>2. /\ issues \in Seq(AnyIssue)
      /\ {i.field : i \in Elements(issues)} = IllFormed(x)
      /\ \A i \in Elements(issues) : i.code = "INVALID_URL" => i.field = "url"
      /\ \A i \in Elements(issues) : i.value # "absent" => i.field \in {"method", "priority", "contentType"}
      /\ \A f \in {"headers", "metadata"} : \A k \in 1..Len(x[f].bad) :
           \E i \in Elements(issues) : i.field = f /\ i.key = x[f].bad[k]
      /\ Len(issues) >= Len(x.headers.bad) + Len(x.metadata.bad)
  <2>1. Right(x, issues)
    BY <1>1, Collected
  <2> QED BY <2>1, Zenon DEF Right
<1>3. PICK public : public = CollectSyncItemIssues(x)
  OBVIOUS
<1>4. issues \in Seq(AnyIssue)
  BY <1>2
<1>5. /\ Len(public) = Len(issues) /\ Len(issues) \in Nat
      /\ \A n \in 1..Len(issues) :
           /\ issues[n] \in Elements(issues)
           /\ public[n].field = issues[n].field
           /\ public[n].key = issues[n].key
           /\ public[n].value = issues[n].value
      /\ Fields(public) = {i.field : i \in Elements(issues)}
  BY <1>1, <1>3, <1>4, Published
<1>6. PICK error : error = ValidateSyncItem(x)
  OBVIOUS
<1>7. CASE issues = <<>>
  <2>1. error.code = "none" /\ error.validationErrors = <<>>
    BY <1>1, <1>6, <1>7 DEF ValidateSyncItem, NoError, SyncError
  <2>2. Elements(issues) = {} /\ Fields(<<>>) = {}
    BY <1>7 DEF Elements, Fields
  <2>3. IllFormed(x) = {}
    BY <1>2, <2>2
  <2>4. \A f \in {"headers", "metadata"} : \A k \in 1..Len(x[f].bad) :
          \E n \in 1..Len(<<>>) : <<>>[n].field = f /\ <<>>[n].key = x[f].bad[k]
    BY <1>2, <2>2
  <2>5. Len(<<>>) >= Len(x.headers.bad) + Len(x.metadata.bad)
    BY <1>2, <1>7
  <2>6. 1..Len(<<>>) = {}
    OBVIOUS
  <2>7. Fields(<<>>) = IllFormed(x) /\ (error.code = "none") = WellFormed(x)
    BY <2>1, <2>2, <2>3 DEF WellFormed
  <2>8. error.code # "INVALID_URL"
    BY <2>1
  <2>9. Tells(x, error, <<>>)
    BY <2>4, <2>5, <2>6, <2>7, <2>8 DEF Tells
  <2> QED BY <1>6, <2>1, <2>9 DEF ExactAt
<1>8. CASE issues # <<>>
  <2>1. Len(issues) \in Nat \ {0}
    BY <1>4, <1>8, EmptySeq, LenProperties
  <2>2. issues[1] \in Elements(issues) /\ issues[1] \in AnyIssue
    <3>1. 1 \in 1..Len(issues)
      BY <2>1
    <3>2. issues[1] \in AnyIssue
      BY <1>4, <3>1, ElementOfSeq
    <3> QED BY <3>1, <3>2 DEF Elements
  <2>3. error.code = issues[1].code /\ error.validationErrors = public
    BY <1>1, <1>3, <1>6, <1>8 DEF ValidateSyncItem, SyncError
  <2>4. error.code # "none"
    BY <2>2, <2>3 DEF AnyIssue
  <2>5. issues[1].field \in IllFormed(x)
    BY <1>2, <2>2
  <2>6. Fields(public) = IllFormed(x)
    BY <1>2, <1>5
  <2>7. (error.code = "none") = WellFormed(x)
    BY <2>4, <2>5 DEF WellFormed
  <2>8. error.code = "INVALID_URL" => "url" \in IllFormed(x)
    <3>1. \A i \in Elements(issues) : i.code = "INVALID_URL" => i.field = "url"
      BY <1>2
    <3> QED BY <2>2, <2>3, <2>5, <3>1
  <2>9. ASSUME NEW f \in {"headers", "metadata"}, NEW k \in 1..Len(x[f].bad)
        PROVE  \E n \in 1..Len(public) : public[n].field = f /\ public[n].key = x[f].bad[k]
    <3>1. PICK i \in Elements(issues) : i.field = f /\ i.key = x[f].bad[k]
      BY <1>2
    <3>2. PICK n \in 1..Len(issues) : i = issues[n]
      BY DEF Elements
    <3> QED BY <1>5, <3>1, <3>2
  <2>10. Len(public) >= Len(x.headers.bad) + Len(x.metadata.bad)
    BY <1>2, <1>5
  <2>11. \A n \in 1..Len(public) :
           public[n].value # "absent" => public[n].field \in {"method", "priority", "contentType"}
    <3>1. TAKE n \in 1..Len(public)
    <3>2. issues[n] \in Elements(issues) /\ public[n].field = issues[n].field /\ public[n].value = issues[n].value
      BY <1>5
    <3> QED BY <1>2, <3>2
  <2>12. Tells(x, error, public)
    BY <2>6, <2>7, <2>8, <2>9, <2>10, <2>11, Zenon DEF Tells
  <2> QED BY <1>6, <2>3, <2>12 DEF ExactAt
<1> QED BY <1>7, <1>8

\* Validation raises no error exactly for the inputs that keep the contract
\* (validateSyncItem).
LEMMA Accepts ==
  ASSUME NEW x \in AnyInput
  PROVE  ValidateSyncItem(x) = NoError <=> WellFormed(x)
<1>1. (ValidateSyncItem(x).code = "none") = WellFormed(x)
  <2>1. Tells(x, ValidateSyncItem(x), ValidateSyncItem(x).validationErrors)
    BY Exact DEF ExactAt
  <2> QED BY <2>1 DEF Tells
<1>2. PICK issues : issues = CollectIssuesWithCode(x)
  OBVIOUS
<1>3. issues \in Seq(AnyIssue) /\ {i.field : i \in Elements(issues)} = IllFormed(x)
  <2>1. Right(x, issues)
    BY <1>2, Collected
  <2> QED BY <2>1, Zenon DEF Right
<1>4. CASE issues = <<>>
  <2>1. ValidateSyncItem(x) = NoError
    BY <1>2, <1>4 DEF ValidateSyncItem
  <2>2. ValidateSyncItem(x).code = "none"
    BY <2>1 DEF NoError, SyncError
  <2> QED BY <1>1, <2>1, <2>2
<1>5. CASE issues # <<>>
  <2>1. 1 \in 1..Len(issues)
    BY <1>3, <1>5, EmptySeq, LenProperties
  <2>2. issues[1] \in Elements(issues)
    BY <2>1 DEF Elements
  <2>3. ~WellFormed(x)
    BY <1>3, <2>2 DEF WellFormed
  <2>4. ValidateSyncItem(x).code # "none"
    BY <1>1, <2>3
  <2>5. NoError.code = "none"
    BY DEF NoError, SyncError
  <2> QED BY <2>3, <2>4, <2>5
<1> QED BY <1>4, <1>5

\* Every document: invalid text, a scalar, or an object with an input of any shape.
AnyDoc == {[NoDoc EXCEPT !.text = t] : t \in {"", "scalar"}} \cup Document(AnyInput)

\* What ReadBack says of one document and what comes of reading it.
ReturnsItem(d) ==
  LET read == DeserializeSyncItem(d)
  IN read.error = NoError =>
       /\ read.item.attempts \in Counter /\ read.item.nextRetryAt \in Counter
       /\ read.item.id = "string" /\ read.item.createdAt = "number"
       /\ WellFormed(read.item.input) /\ read.item.input = d.input

Rewritten(d) ==
  [text |-> SerializeSyncItem(d, FALSE).text, id |-> d.id, createdAt |-> d.createdAt,
   attempts |-> d.attempts, nextRetryAt |-> d.nextRetryAt, input |-> d.input]

Stored(d) ==
  /\ d.text = "object" /\ WellFormed(d.input) /\ d.attempts \in Counter
  /\ d.nextRetryAt \in Counter /\ d.id = "string" /\ d.createdAt = "number"

\* A document that is read is an object with its name, its date and counters that are
\* numbers or absent, and its input is one enqueue would accept (deserializeSyncItem).
LEMMA Read ==
  ASSUME NEW d \in AnyDoc
  PROVE  DeserializeSyncItem(d).error = NoError =>
           /\ d \in Document(AnyInput) /\ WellFormed(d.input)
           /\ d.id = "string" /\ d.createdAt = "number"
           /\ d.attempts # "other" /\ d.nextRetryAt # "other"
           /\ DeserializeSyncItem(d).item =
                [d EXCEPT !.attempts = Defaulted(d.attempts), !.nextRetryAt = Defaulted(d.nextRetryAt)]
<1>1. SUFFICES ASSUME DeserializeSyncItem(d).error = NoError
               PROVE  /\ d \in Document(AnyInput) /\ WellFormed(d.input)
                      /\ d.id = "string" /\ d.createdAt = "number"
                      /\ d.attempts # "other" /\ d.nextRetryAt # "other"
                      /\ DeserializeSyncItem(d).item =
                           [d EXCEPT !.attempts = Defaulted(d.attempts), !.nextRetryAt = Defaulted(d.nextRetryAt)]
  OBVIOUS
<1>2. PICK bad : bad = SyncError("INVALID_PAYLOAD", <<>>)
  OBVIOUS
<1>3. bad # NoError
  BY <1>2 DEF NoError, SyncError
<1>4. PICK malformed \in BOOLEAN : malformed <=>
        \/ d.text # "object" \/ d.id # "string" \/ d.createdAt # "number"
        \/ d.attempts = "other" \/ d.nextRetryAt = "other"
  OBVIOUS
<1>5. DeserializeSyncItem(d) =
        IF malformed THEN [error |-> bad, item |-> d]
        ELSE IF ValidateSyncItem(d.input) # NoError THEN [error |-> ValidateSyncItem(d.input), item |-> d]
        ELSE [error |-> NoError,
              item |-> [d EXCEPT !.attempts = Defaulted(d.attempts), !.nextRetryAt = Defaulted(d.nextRetryAt)]]
  BY <1>2, <1>4 DEF DeserializeSyncItem
<1>6. ~malformed
  <2>1. CASE malformed
    <3>1. DeserializeSyncItem(d).error = bad
      BY <1>5, <2>1
    <3> QED BY <1>1, <1>3, <3>1
  <2> QED BY <2>1
<1>7. ValidateSyncItem(d.input) = NoError
  <2>1. CASE ValidateSyncItem(d.input) # NoError
    <3>1. DeserializeSyncItem(d).error = ValidateSyncItem(d.input)
      BY <1>5, <1>6, <2>1
    <3> QED BY <1>1, <2>1, <3>1
  <2> QED BY <2>1
<1>8. DeserializeSyncItem(d).item =
        [d EXCEPT !.attempts = Defaulted(d.attempts), !.nextRetryAt = Defaulted(d.nextRetryAt)]
  BY <1>5, <1>6, <1>7
<1>9. d.text = "object"
  BY <1>4, <1>6
<1>10. d \in Document(AnyInput)
  BY <1>9 DEF AnyDoc, NoDoc
<1>11. d.input \in AnyInput
  BY <1>10 DEF Document
<1>12. WellFormed(d.input)
  BY <1>7, <1>11, Accepts
<1> QED BY <1>4, <1>6, <1>8, <1>10, <1>12

\* What is read is a SyncItem, and nothing but its absent counters was changed
\* (deserializeSyncItem).
LEMMA ReadReturns ==
  ASSUME NEW d \in AnyDoc
  PROVE  ReturnsItem(d)
<1>1. SUFFICES ASSUME DeserializeSyncItem(d).error = NoError
               PROVE  LET item == DeserializeSyncItem(d).item
                      IN /\ item.attempts \in Counter /\ item.nextRetryAt \in Counter
                         /\ item.id = "string" /\ item.createdAt = "number"
                         /\ WellFormed(item.input) /\ item.input = d.input
  BY DEF ReturnsItem
<1>2. /\ d \in Document(AnyInput) /\ WellFormed(d.input)
      /\ d.id = "string" /\ d.createdAt = "number"
      /\ d.attempts # "other" /\ d.nextRetryAt # "other"
      /\ DeserializeSyncItem(d).item =
           [d EXCEPT !.attempts = Defaulted(d.attempts), !.nextRetryAt = Defaulted(d.nextRetryAt)]
  BY <1>1, Read
<1>3. PICK a, n : a = Defaulted(d.attempts) /\ n = Defaulted(d.nextRetryAt)
  OBVIOUS
<1>4. d.attempts \in Counter \cup {"absent", "other"} /\ d.nextRetryAt \in Counter \cup {"absent", "other"}
  BY <1>2 DEF Document
<1>5. a \in Counter /\ n \in Counter
  BY <1>2, <1>3, <1>4 DEF Defaulted, Counter
<1>6. d = [text |-> d.text, id |-> d.id, createdAt |-> d.createdAt, attempts |-> d.attempts,
           nextRetryAt |-> d.nextRetryAt, input |-> d.input]
  BY <1>2 DEF Document
<1>7. PICK item : item = DeserializeSyncItem(d).item
  OBVIOUS
<1>8. item = [text |-> d.text, id |-> d.id, createdAt |-> d.createdAt, attempts |-> a,
              nextRetryAt |-> n, input |-> d.input]
  <2>1. item = [d EXCEPT !.attempts = a, !.nextRetryAt = n]
    BY <1>2, <1>3, <1>7
  <2> QED BY <1>6, <2>1
<1>9. item.attempts = a /\ item.nextRetryAt = n /\ item.id = d.id /\ item.createdAt = d.createdAt
      /\ item.input = d.input
  BY <1>8
<1> QED BY <1>2, <1>5, <1>7, <1>9

\* An item native returned survives being written and read (serializeSyncItem,
\* deserializeSyncItem).
LEMMA RoundTrip ==
  ASSUME NEW d \in AnyDoc, Stored(d)
  PROVE  /\ DeserializeSyncItem(Rewritten(d)).error = NoError
         /\ DeserializeSyncItem(Rewritten(d)).item = d
<1>1. /\ d.text = "object" /\ WellFormed(d.input) /\ d.attempts \in Counter
      /\ d.nextRetryAt \in Counter /\ d.id = "string" /\ d.createdAt = "number"
  BY DEF Stored
<1>2. d \in Document(AnyInput)
  BY <1>1 DEF AnyDoc, NoDoc
<1>3. d = [text |-> d.text, id |-> d.id, createdAt |-> d.createdAt, attempts |-> d.attempts,
           nextRetryAt |-> d.nextRetryAt, input |-> d.input]
  BY <1>2 DEF Document
<1>4. SerializeSyncItem(d, FALSE).text = "object"
  BY DEF SerializeSyncItem
<1>5. Rewritten(d) = d
  BY <1>1, <1>3, <1>4 DEF Rewritten
<1>6. d.input \in AnyInput
  BY <1>2 DEF Document
<1>7. ValidateSyncItem(d.input) = NoError
  BY <1>1, <1>6, Accepts
<1>8. /\ d.attempts # "other" /\ d.nextRetryAt # "other"
      /\ Defaulted(d.attempts) = d.attempts /\ Defaulted(d.nextRetryAt) = d.nextRetryAt
  BY <1>1 DEF Counter, Defaulted
<1>9. PICK item : item = [d EXCEPT !.attempts = Defaulted(d.attempts), !.nextRetryAt = Defaulted(d.nextRetryAt)]
  OBVIOUS
<1>10. item = d
  <2>1. item = [d EXCEPT !.attempts = d.attempts, !.nextRetryAt = d.nextRetryAt]
    BY <1>8, <1>9
  <2> QED BY <1>3, <2>1
<1>11. DeserializeSyncItem(d) = [error |-> NoError, item |-> item]
  BY <1>1, <1>7, <1>8, <1>9 DEF DeserializeSyncItem
<1> QED BY <1>5, <1>10, <1>11

(***************************************************************************)
(* The runs' properties.                                                   *)
(***************************************************************************)

\* The arguments are always of the shapes the lemmas are about.
RulesInv == input \in AnyInput /\ doc \in AnyDoc

\* The maps the run enumerates are maps, and its documents are documents.
LEMMA Enumerated ==
  /\ SyncItemInput(BadKeys) \subseteq AnyInput
  /\ Document(DocInputs) \subseteq AnyDoc
<1>1. BadKeys \subseteq Seq(Keys) /\ {<<>>} \subseteq Seq(Keys)
  <2>1. <<>> \in Seq(Keys)
    OBVIOUS
  <2>2. \A k \in Keys : <<k>> \in Seq(Keys)
    OBVIOUS
  <2>3. \A k \in Keys, l \in Keys : <<k, l>> \in Seq(Keys)
    OBVIOUS
  <2>4. ASSUME NEW bad \in BadKeys PROVE bad \in Seq(Keys)
    <3>1. \/ bad = <<>>
          \/ \E k \in Keys : bad = <<k>>
          \/ \E k \in Keys, l \in Keys : bad = <<k, l>>
      BY <2>4 DEF BadKeys
    <3> QED BY <2>1, <2>2, <2>3, <3>1, Zenon
  <2> QED BY <2>1, <2>4
<1>2. ASSUME NEW keys, keys \subseteq Seq(Keys)
      PROVE  SyncItemInput(keys) \subseteq SyncItemInput(Seq(Keys))
  <2>1. StringMap(keys) \subseteq StringMap(Seq(Keys))
    BY <1>2 DEF StringMap
  <2> QED BY <2>1 DEF SyncItemInput
<1>3. SyncItemInput(BadKeys) \subseteq AnyInput
  BY <1>1, <1>2 DEF AnyInput
<1>4. SyncItemInput({<<>>}) \subseteq AnyInput
  BY <1>1, <1>2 DEF AnyInput
<1>5. DocInputs \subseteq AnyInput
  BY <1>4 DEF DocInputs, AnyInput
<1>6. Document(DocInputs) \subseteq AnyDoc
  BY <1>5 DEF Document, AnyDoc
<1> QED BY <1>3, <1>6

\* The document between two calls is empty text.
LEMMA NoDocIs == NoDoc \in AnyDoc
<1>1. PICK e : e = [NoDoc EXCEPT !.text = ""]
  OBVIOUS
<1>2. e = [text |-> "", id |-> "absent", createdAt |-> "absent", attempts |-> "absent",
           nextRetryAt |-> "absent", input |-> NonObject]
  BY <1>1 DEF NoDoc
<1>3. e = NoDoc
  BY <1>2 DEF NoDoc
<1> QED BY <1>1, <1>3 DEF AnyDoc

\* It holds from the start and after every call.
LEMMA RulesInvHolds == RulesSpec => []RulesInv
<1>1. RulesInit => RulesInv
  <2> QED BY NoDocIs DEF RulesInit, RulesInv, AnyInput
<1>2. RulesInv /\ [RulesNext]_rulesVars => RulesInv'
  <2> SUFFICES ASSUME RulesInv, [RulesNext]_rulesVars PROVE RulesInv'
    OBVIOUS
  <2>1. CASE Validate
    BY <2>1, Enumerated DEF RulesInv, Validate, AnyInput
  <2>2. CASE Deserialize
    BY <2>2, Enumerated DEF RulesInv, Deserialize, AnyDoc
  <2>3. CASE ComputeDelay
    BY <2>3 DEF RulesInv, ComputeDelay
  <2>4. CASE Return
    <3>1. NonObject \in AnyInput
      BY DEF AnyInput
    <3> QED BY <2>4, <3>1, NoDocIs DEF RulesInv, Return
  <2>5. CASE UNCHANGED rulesVars
    BY <2>5 DEF RulesInv, rulesVars
  <2> QED BY <2>1, <2>2, <2>3, <2>4, <2>5 DEF RulesNext
<1> QED BY <1>1, <1>2, PTL DEF RulesSpec

\* enqueue reports every field that breaks the contract and no other, whatever the input
\* and however many entries of its maps are bad (collectIssuesWithCode, validateSyncItem).
THEOREM ValidationExactHolds == RulesSpec => []ValidationExact
<1>1. RulesInv => ValidationExact
  <2> SUFFICES ASSUME RulesInv PROVE ValidationExact
    OBVIOUS
  <2>1. input \in AnyInput
    BY DEF RulesInv
  <2>2. Tells(input, ValidateSyncItem(input), ValidateSyncItem(input).validationErrors)
    BY <2>1, Exact DEF ExactAt
  <2> QED BY <2>2, Zenon DEF ValidationExact, Tells
<1> QED BY <1>1, RulesInvHolds, PTL

\* A document is read back as a SyncItem or rejected, and an item native returned survives
\* being written and read (serializeSyncItem, deserializeSyncItem).
THEOREM ReadBackHolds == RulesSpec => []ReadBack
<1>1. RulesInv => ReadBack
  <2> SUFFICES ASSUME RulesInv PROVE ReadBack
    OBVIOUS
  <2>1. doc \in AnyDoc
    BY DEF RulesInv
  <2>2. ReturnsItem(doc)
    BY <2>1, ReadReturns
  <2>3. Stored(doc) => /\ DeserializeSyncItem(Rewritten(doc)).error = NoError
                       /\ DeserializeSyncItem(Rewritten(doc)).item = doc
    BY <2>1, RoundTrip
  <2> QED BY <2>2, <2>3, Zenon DEF ReadBack, ReturnsItem, Rewritten, Stored
<1> QED BY <1>1, RulesInvHolds, PTL
=============================================================================
