------------------------------- MODULE MCRules -------------------------------
(***************************************************************************)
(* The pure functions, called with every input of bounded sets: one call   *)
(* is made, its properties are checked, the next one is made.  It is run   *)
(* by MCSyncFacade.                                                        *)
(***************************************************************************)
EXTENDS SyncItemRules, RetryBackoff

CONSTANTS Keys, DelayValues, MaxAttempt, Factors

VARIABLES
  call,     \* the function called, "none" between two calls
  input,    \* validateSyncItem's argument
  doc,      \* deserializeSyncItem's argument
  delay     \* the arguments of the three delay functions

\* A negative delay, none, and two that order either way as base and cap.
MCDelayValues == {-1, 0, 1, 3}

rulesVars == <<call, input, doc, delay>>

\* Bad keys of a map: none, one or two.
BadKeys == {<<>>} \cup {<<k>> : k \in Keys} \cup {<<k, l>> : k \in Keys, l \in Keys}

\* The inputs a document may hold: the rules about them are checked on their own.
DocInputs ==
  {NonObject} \cup {x \in SyncItemInput({<<>>}) :
     /\ x.method \in {"POST", "other"} /\ x.priority \in {"HIGH", "absent"}
     /\ x.body # "other" /\ x.contentType # "other"
     /\ x.headers.is # "other" /\ x.metadata.is = "absent"}

NoDoc   == [text |-> "", id |-> "absent", createdAt |-> "absent", attempts |-> "absent",
            nextRetryAt |-> "absent", input |-> NonObject]
NoDelay == [attempt |-> 0, factor |-> 100,
            policy |-> [backoff |-> "OTHER", baseDelayMs |-> 0, maxDelayMs |-> 0, jitter |-> FALSE]]

RulesInit == call = "none" /\ input = NonObject /\ doc = NoDoc /\ delay = NoDelay

Validate ==
  /\ call = "none" /\ call' = "validate"
  /\ input' \in {NonObject} \cup SyncItemInput(BadKeys)
  /\ UNCHANGED <<doc, delay>>

Deserialize ==
  /\ call = "none" /\ call' = "deserialize"
  /\ doc' \in {[NoDoc EXCEPT !.text = t] : t \in {"", "scalar"}} \cup Document(DocInputs)
  /\ UNCHANGED <<input, delay>>

ComputeDelay ==
  /\ call = "none" /\ call' = "delay"
  /\ delay' \in [attempt : -1..MaxAttempt, factor : Factors, policy : RetryPolicy(DelayValues)]
  /\ UNCHANGED <<input, doc>>

Return ==
  /\ call # "none" /\ call' = "none"
  /\ input' = NonObject /\ doc' = NoDoc /\ delay' = NoDelay

RulesNext == Validate \/ Deserialize \/ ComputeDelay \/ Return
-----------------------------------------------------------------------------
Fields(issues) == {issues[k].field : k \in 1..Len(issues)}

\* enqueue reports every field that breaks the contract and no other, once per bad map
\* entry; it accepts exactly what the contract of SyncItemInput allows, and blames the URL
\* only when the URL is wrong (collectIssuesWithCode, validateSyncItem).
ValidationExact ==
  call = "validate" =>
    LET error == ValidateSyncItem(input)
        issues == error.validationErrors
    IN /\ Fields(issues) = IllFormed(input)
       /\ (error.code = "none") = WellFormed(input)
       /\ error.code = "INVALID_URL" => "url" \in IllFormed(input)
       /\ \A f \in {"headers", "metadata"} : \A k \in 1..Len(input[f].bad) :
            \E n \in 1..Len(issues) : issues[n].field = f /\ issues[n].key = input[f].bad[k]
       /\ Len(issues) >= Len(input.headers.bad) + Len(input.metadata.bad)
       /\ \A n \in 1..Len(issues) :
            issues[n].value # "absent" => issues[n].field \in {"method", "priority", "contentType"}

\* A document is read back as a SyncItem or rejected: what is returned has its counters
\* and an input enqueue would accept, everything but the counters is as it was written,
\* and an item native returned survives being written and read (serializeSyncItem,
\* deserializeSyncItem).
ReadBack ==
  call = "deserialize" =>
    LET read == DeserializeSyncItem(doc)
        written(item) == SerializeSyncItem(item, FALSE)
        reread(item) == DeserializeSyncItem(
          [text |-> written(item).text, id |-> item.id, createdAt |-> item.createdAt,
           attempts |-> item.attempts, nextRetryAt |-> item.nextRetryAt, input |-> item.input])
    IN /\ read.error = NoError =>
            /\ read.item.attempts \in Counter /\ read.item.nextRetryAt \in Counter
            /\ read.item.id = "string" /\ read.item.createdAt = "number"
            /\ WellFormed(read.item.input) /\ read.item.input = doc.input
       /\ (doc.text = "object" /\ WellFormed(doc.input) /\ doc.attempts \in Counter
             /\ doc.nextRetryAt \in Counter /\ doc.id = "string" /\ doc.createdAt = "number")
            => reread(doc).error = NoError /\ reread(doc).item = doc

\* The delays of the two engines are numbers within the cap and never shrink from one
\* attempt to the next, also where the curve overflows a double; iOS computes what the
\* TypeScript reference does up to its ceiling and the ceiling beyond, and Android what the
\* reference does when the cap is not below the base delay (RetryPolicyEvaluator.kt and
\* .swift, retryBackoff.ts).
DelaysSound ==
  call = "delay" =>
    /\ DelayBounded(delay.attempt, delay.policy, delay.factor)
    /\ DelayGrows(delay.attempt, delay.policy)
    /\ IosMatchesJs(delay.attempt, delay.policy, delay.factor)
    /\ AndroidMatchesJs(delay.attempt, delay.policy)
=============================================================================
