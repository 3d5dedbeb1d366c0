---------------------------- MODULE SyncItemRules ----------------------------
(***************************************************************************)
(* What enqueue accepts, and the JSON form of an item: the pure functions  *)
(* of src/utils.                                                           *)
(*                                                                         *)
(* A field is abstracted to what the checks tell apart: an optional string *)
(* is "absent", a "string" or "other"; a map is its kind and the keys that *)
(* hold something else than a string, in the order Object.keys gives.      *)
(***************************************************************************)
EXTENDS SyncTypes

Optional == {"absent", "string", "other"}

\* null is an object to typeof and rejected by name: it counts as "other".
StringMap(keys) ==
  [is : {"absent", "other"}, bad : {<<>>}] \cup [is : {"object"}, bad : keys]

\* What JavaScript may pass for a SyncItemInput; keys are the bad keys of a map.
SyncItemInput(keys) ==
  [is : {"object"}, method : HttpMethod \cup {"absent", "other"},
   url : {"absolute", "relative", "", "other"}, body : Optional, contentType : Optional,
   priority : SyncPriority \cup {"absent", "other"},
   headers : StringMap(keys), metadata : StringMap(keys)]

NoMap == [is |-> "absent", bad |-> <<>>]

\* A null or a scalar passed for the whole input.
NonObject ==
  [is |-> "other", method |-> "absent", url |-> "other", body |-> "absent",
   contentType |-> "absent", priority |-> "absent", headers |-> NoMap, metadata |-> NoMap]
-----------------------------------------------------------------------------
(***************************************************************************)
(* validateSyncItem.ts                                                     *)
(***************************************************************************)
\* An issue; key is the map entry it is about, value the offending value, "absent" when
\* none is recorded.
Issue(code, field, value) == [code |-> code, field |-> field, key |-> "", value |-> value]

When(violated, issue) == IF violated THEN <<issue>> ELSE <<>>

\* The entries of a map are not looked at.
BugMapIssues(field, map) == When(map.is = "other", Issue("INVALID_PAYLOAD", field, "absent"))

\* A map is rejected as a whole, or entry by entry.
MapIssues(field, map) ==
  When(map.is = "other", Issue("INVALID_PAYLOAD", field, "absent"))
    \o [k \in 1..Len(map.bad) |-> [Issue("INVALID_PAYLOAD", field, "absent") EXCEPT !.key = map.bad[k]]]

\* Every violated clause of the contract, in the order the first one is thrown by.
CollectIssuesWithCode(input) ==
  IF input.is = "other" THEN <<Issue("INVALID_PAYLOAD", "input", "absent")>>
  ELSE When(input.method \notin HttpMethod, Issue("INVALID_PAYLOAD", "method", input.method))
    \o When(input.url # "absolute", Issue("INVALID_URL", "url", "absent"))
    \o When(input.body = "other", Issue("INVALID_PAYLOAD", "body", "absent"))
    \o When(input.contentType = "other", Issue("INVALID_PAYLOAD", "contentType", input.contentType))
    \o When(input.priority \notin SyncPriority \cup {"absent"},
            Issue("INVALID_PAYLOAD", "priority", input.priority))
    \o MapIssues("headers", input.headers)
    \o MapIssues("metadata", input.metadata)

\* The code of an issue stays inside the library.
ToPublicIssue(issue) == [field |-> issue.field, key |-> issue.key, value |-> issue.value]

CollectSyncItemIssues(input) ==
  LET issues == CollectIssuesWithCode(input)
  IN [k \in 1..Len(issues) |-> ToPublicIssue(issues[k])]

\* A SyncError, and the absence of one.
SyncError(code, issues) == [code |-> code, validationErrors |-> issues]
NoError == SyncError("none", <<>>)

\* The first issue gives the code, all of them go with the error.
ValidateSyncItem(input) ==
  LET issues == CollectIssuesWithCode(input)
  IN IF issues = <<>> THEN NoError ELSE SyncError(issues[1].code, CollectSyncItemIssues(input))
-----------------------------------------------------------------------------
(***************************************************************************)
(* serializeSyncItem.ts and deserializeSyncItem.ts.  A document is invalid *)
(* text, a scalar, or an object with the fields of a SyncItem.             *)
(***************************************************************************)
Counter == {"zero", "some"}

\* A SyncItem: what native returns for a stored input.
SyncItem(inputs) == [id : {"string"}, createdAt : {"number"}, attempts : Counter,
                     nextRetryAt : Counter, input : inputs]

Document(inputs) ==
  [text : {"object"}, id : {"absent", "string", "", "other"}, createdAt : {"absent", "number", "other"},
   attempts : Counter \cup {"absent", "other"}, nextRetryAt : Counter \cup {"absent", "other"},
   input : inputs]

\* A cyclic structure or a BigInt cannot be written.
SerializeSyncItem(item, cyclic) ==
  IF cyclic THEN [error |-> SyncError("INVALID_PAYLOAD", <<>>), text |-> "", item |-> item]
            ELSE [error |-> NoError, text |-> "object", item |-> item]

\* The parsed object spread as it is: a counter that was not written stays absent.
BugDefaulted(counter) == counter

\* counter ?? 0
Defaulted(counter) == IF counter = "absent" THEN "zero" ELSE counter

DeserializeSyncItem(doc) ==
  LET reject(error) == [error |-> error, item |-> doc]
      accept == [error |-> NoError,
                 item |-> [doc EXCEPT !.attempts = Defaulted(@), !.nextRetryAt = Defaulted(@)]]
      malformed ==
        \/ doc.text # "object"
        \/ doc.id # "string"
        \/ doc.createdAt # "number"
        \/ doc.attempts = "other" \/ doc.nextRetryAt = "other"
  IN IF malformed THEN reject(SyncError("INVALID_PAYLOAD", <<>>))
     ELSE IF ValidateSyncItem(doc.input) # NoError THEN reject(ValidateSyncItem(doc.input))
     ELSE accept
-----------------------------------------------------------------------------
(***************************************************************************)
(* The contract, stated field by field and without an order of checks.     *)
(***************************************************************************)
\* The fields of an input that break the contract of SyncItemInput.
IllFormed(input) ==
  IF input.is = "other" THEN {"input"}
  ELSE {f \in {"method"}   : input.method \notin HttpMethod}
    \cup {f \in {"url"}      : input.url # "absolute"}
    \cup {f \in {"body"}     : input.body \notin {"absent", "string"}}
    \cup {f \in {"contentType"} : input.contentType \notin {"absent", "string"}}
    \cup {f \in {"priority"} : input.priority \notin SyncPriority \cup {"absent"}}
    \cup {f \in {"headers", "metadata"} : input[f].is = "other" \/ input[f].bad # <<>>}

WellFormed(input) == IllFormed(input) = {}
=============================================================================
