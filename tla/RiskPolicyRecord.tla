-------------------------- MODULE RiskPolicyRecord --------------------------
(***************************************************************************)
(* One ENS name's RiskPolicy: how it is published (publishRiskPolicy), where *)
(* it lives (the live document behind agent-endpoint, or the text record,   *)
(* inline or as a pointer to an IPFS pin) and how it is resolved            *)
(* (resolveRiskPolicyWithProvenance), one action per awaited read.  A       *)
(* transaction is acknowledged when it is sent; it is mined, and the block  *)
(* finalized, later.  The text record is what the publisher writes, JSON or *)
(* ipfs://CID; bare CIDs written by hand are left out.                      *)
(***************************************************************************)
EXTENDS Integers, Sequences

CONSTANTS Docs,     \* policy documents: [valid, until, long]
          Absent,   \* no record, no document, or nothing that parses
          RecordMaxTime, MaxRecordEdits  \* bounds on the clock and on changes of the sources

RecordInputsTyped ==
  /\ RecordMaxTime \in Nat /\ MaxRecordEdits \in Nat
  /\ Docs \subseteq [valid : BOOLEAN, until : Nat, long : BOOLEAN]
  /\ Absent \notin Docs \cup [at : {"inline", "ipfs"}, doc : Docs]

ASSUME RecordAssumption == RecordInputsTyped

VARIABLES recordNow, latest, final, served, mempool, pins, recordEdits, pub, rd, finals
recordVars == <<recordNow, latest, final, served, mempool, pins, recordEdits, pub, rd, finals>>

Tag == {"latest", "finalized"}
Text == [at : {"inline", "ipfs"}, doc : Docs] \cup {Absent}
\* The two text records of the name: agent-endpoint (set or not) and agent-risk-policy.
Records == [endpoint : BOOLEAN, policy : Text]

Expired(doc) == recordNow > doc.until

NotPublishing == [pc |-> "idle", text |-> Absent]
NotReading == [pc |-> "idle", tag |-> "latest", sawExpired |-> FALSE, doc |-> Absent,
               source |-> "none", sure |-> TRUE]

RecordInit ==
  /\ recordNow = 0 /\ recordEdits = 0
  /\ latest = [endpoint |-> FALSE, policy |-> Absent] /\ final = latest
  /\ served = Absent /\ mempool = <<>> /\ pins = {}
  /\ pub = NotPublishing /\ rd = NotReading /\ finals = {Absent}

-----------------------------------------------------------------------------
\* Publishing.

Publishable(doc) == doc.valid

\* "inline" and "ipfs" are obeyed; "auto" pins what does not fit.
StorageFor(doc, pref) ==
  IF pref = "ipfs" \/ (pref = "auto" /\ doc.long) THEN "ipfs" ELSE "inline"

StartPublish == \E doc \in Docs, pref \in {"inline", "ipfs", "auto"} :
  /\ pub.pc \in {"idle", "acked"} /\ recordEdits < MaxRecordEdits /\ Publishable(doc)
  /\ recordEdits' = recordEdits + 1
  /\ LET at == StorageFor(doc, pref)
     IN pub' = [pc |-> IF at = "ipfs" THEN "pinning" ELSE "lookup", text |-> [at |-> at, doc |-> doc]]
  /\ UNCHANGED <<recordNow, latest, final, served, mempool, pins, rd, finals>>

\* A pin that is refused throws: the next step sees the document pinned.
Pinned(doc) == {pins \cup {doc}}

\* pinPolicyToIpfs: the CID comes back.
Pin ==
  /\ pub.pc = "pinning"
  /\ pins' \in Pinned(pub.text.doc)
  /\ pub' = [pub EXCEPT !.pc = "lookup"]
  /\ UNCHANGED <<recordNow, latest, final, served, mempool, recordEdits, rd, finals>>

\* The registry has a resolver for the name (owned by the key or not) and setText is sent.
SendSetText ==
  /\ pub.pc = "lookup"
  /\ mempool' = Append(mempool, pub.text)
  /\ pub' = [pub EXCEPT !.pc = "acked"]
  /\ UNCHANGED <<recordNow, latest, final, served, pins, recordEdits, rd, finals>>

\* No JWT, pin refused, registry unreachable, no resolver, or setText rejected.
PublishFails ==
  /\ pub.pc \in {"pinning", "lookup"}
  /\ pub' = NotPublishing
  /\ UNCHANGED <<recordNow, latest, final, served, mempool, pins, recordEdits, rd, finals>>

-----------------------------------------------------------------------------
\* The sources change under the reader.

Disturb == rd' = [rd EXCEPT !.sure = (rd.pc = "idle")]

Mine == /\ mempool # <<>>
        /\ latest' = [latest EXCEPT !.policy = Head(mempool)]
        /\ mempool' = Tail(mempool)
        /\ Disturb /\ UNCHANGED <<recordNow, final, served, pins, recordEdits, pub, finals>>

SetEndpoint == /\ recordEdits < MaxRecordEdits
               /\ latest' = [latest EXCEPT !.endpoint = ~@] /\ recordEdits' = recordEdits + 1
               /\ Disturb /\ UNCHANGED <<recordNow, final, served, mempool, pins, pub, finals>>

Serve(doc) == /\ recordEdits < MaxRecordEdits /\ doc # served
              /\ served' = doc /\ recordEdits' = recordEdits + 1
              /\ Disturb /\ UNCHANGED <<recordNow, latest, final, mempool, pins, pub, finals>>

Finalize == /\ final # latest
            /\ final' = latest /\ finals' = finals \cup {latest.policy}
            /\ Disturb /\ UNCHANGED <<recordNow, latest, served, mempool, pins, recordEdits, pub>>

RecordTick ==
  /\ recordNow < RecordMaxTime /\ recordNow' = recordNow + 1
  /\ Disturb /\ UNCHANGED <<latest, final, served, mempool, pins, recordEdits, pub, finals>>

-----------------------------------------------------------------------------
\* Resolving.

Current(tag) == IF tag = "finalized" THEN final ELSE latest

\* Mutant: the block tag is dropped.
ReadLatest(tag) == {latest, final}

\* A read of the latest block may be answered by a replica that lags.
ReadAt(tag) == {Current(tag), final}

Reading(from, next) ==
  /\ rd.pc = from /\ rd' = next
  /\ UNCHANGED <<recordNow, latest, final, served, mempool, pins, recordEdits, pub, finals>>

Unsure(next) == [next EXCEPT !.sure = FALSE]

\* A name that does not normalize is refused before any source is asked.
StartLookup == \E tag \in Tag :
  \/ Reading("idle", [NotReading EXCEPT !.pc = "endpointRecord", !.tag = tag])
  \/ Reading("idle", Unsure([NotReading EXCEPT !.pc = "threw", !.tag = tag, !.source = "name"]))

\* On to the next source, or the end: absent, or expired if any source was.
NextSource(expired) ==
  IF rd.pc \in {"endpointRecord", "fetching"}
  THEN [rd EXCEPT !.pc = "policyRecord", !.sawExpired = expired]
  ELSE [rd EXCEPT !.pc = "resolved", !.doc = Absent,
                  !.source = IF rd.sawExpired \/ expired THEN "expired" ELSE "absent"]

\* Mutant: an expired policy ends the lookup.
StopAtExpired(doc, source) ==
  IF doc = Absent THEN NextSource(FALSE)
  ELSE [rd EXCEPT !.pc = IF doc.valid THEN "resolved" ELSE "threw",
                  !.doc = IF Expired(doc) THEN Absent ELSE doc,
                  !.source = IF Expired(doc) THEN "expired" ELSE source]

\* What a document does to the lookup: an invalid one throws, an expired one is passed over.
Classify(doc, source) ==
  IF doc = Absent THEN NextSource(FALSE)
  ELSE IF ~doc.valid THEN [rd EXCEPT !.pc = "threw", !.source = source]
  ELSE IF Expired(doc) THEN NextSource(TRUE)
  ELSE [rd EXCEPT !.pc = "resolved", !.doc = doc, !.source = source]

\* A read that fails is a record that is not there.
ReadEndpointRecord ==
  \/ \E records \in ReadAt(rd.tag) :
       Reading("endpointRecord",
               [rd EXCEPT !.pc = IF records.endpoint THEN "fetching" ELSE "policyRecord",
                          !.sure = @ /\ records = Current(rd.tag)])
  \/ Reading("endpointRecord", Unsure(NextSource(FALSE)))

FetchFromEndpoint ==
  \/ Reading("fetching", Classify(served, "endpoint"))
  \/ Reading("fetching", Unsure(NextSource(FALSE)))

ReadPolicyRecord ==
  \/ \E records \in ReadAt(rd.tag) :
       LET text == records.policy
           next == IF text # Absent /\ text.at = "ipfs"
                   THEN [rd EXCEPT !.pc = "gateway", !.doc = text.doc]
                   ELSE Classify(IF text = Absent THEN Absent ELSE text.doc, "text-record")
       IN Reading("policyRecord", [next EXCEPT !.sure = @ /\ records = Current(rd.tag)])
  \/ Reading("policyRecord", Unsure(NextSource(FALSE)))

\* The whole record, ipfs:// and CID, is appended to each gateway's address, where
\* nothing is found: fetchJsonFromIpfs answers null, which does not parse as a policy.
FetchFromIpfs == Reading("gateway", [rd EXCEPT !.pc = "threw", !.source = "pin"])

ReaderDone == rd.pc \in {"resolved", "threw"} /\ Reading(rd.pc, NotReading)

RecordNext ==
  \/ StartPublish \/ Pin \/ SendSetText \/ PublishFails
  \/ Mine \/ SetEndpoint \/ Finalize \/ RecordTick
  \/ \E doc \in Docs \cup {Absent} : Serve(doc)
  \/ StartLookup \/ ReadEndpointRecord \/ FetchFromEndpoint
  \/ ReadPolicyRecord \/ FetchFromIpfs \/ ReaderDone

RecordSpec == RecordInit /\ [][RecordNext]_recordVars
-----------------------------------------------------------------------------
RecordTypeOK ==
  /\ recordNow \in 0..RecordMaxTime /\ recordEdits \in 0..MaxRecordEdits
  /\ latest \in Records /\ final \in Records
  /\ served \in Docs \cup {Absent} /\ mempool \in Seq(Text) /\ pins \subseteq Docs
  /\ pub.pc \in {"idle", "pinning", "lookup", "acked"} /\ pub.text \in Text
  /\ rd.pc \in {"idle", "endpointRecord", "fetching", "policyRecord", "gateway", "resolved", "threw"}
  /\ rd.doc \in Docs \cup {Absent} /\ finals \subseteq Text

\* The first document in force, the live one before the one of the text record.
FirstInForce(records) ==
  LET docs == <<IF records.endpoint THEN served ELSE Absent,
                IF records.policy = Absent THEN Absent ELSE records.policy.doc>>
      inForce == {i \in 1..2 : docs[i] # Absent /\ ~Expired(docs[i])}
  IN IF inForce = {} THEN Absent ELSE docs[CHOOSE i \in inForce : \A j \in inForce : i <= j]

\* The live document is one of those that are in force.
LiveInForce(records) == records.endpoint /\ served # Absent /\ ~Expired(served)

(* A lookup during which nothing changed and no read failed returns the     *)
(* first policy in force, and none only when none is: an expired live       *)
(* document is passed over (risk-policy.ts:187-228; spec/                   *)
(* trust-graded-swap.md:82 has the lookup stop at the first hit).  It throws*)
(* only for a live document that loosens the floor, or for a pin behind     *)
(* which no live document is in force (risk-policy.ts:250, 271).            *)
LookupIsExact == rd.sure =>
  LET records == Current(rd.tag) IN
  /\ rd.pc = "resolved" => rd.doc = FirstInForce(records)
  /\ rd.pc = "threw" =>
       \/ records.endpoint /\ served # Absent /\ ~served.valid
       \/ /\ ~LiveInForce(records)
          /\ records.policy # Absent /\ records.policy.at = "ipfs"

(* A policy published as a pin is found: while it is in force and there is  *)
(* no endpoint before it, an undisturbed lookup returns it.  What            *)
(* risk-policy.ts:171 says of such a record: "fetched + decoded".           *)
PinnedIsFound == LET records == Current(rd.tag) IN
  /\ rd.sure /\ rd.pc \in {"resolved", "threw"} /\ ~records.endpoint
  /\ records.policy # Absent /\ records.policy.at = "ipfs"
  /\ records.policy.doc \in pins /\ ~Expired(records.policy.doc)
  => rd.pc = "resolved" /\ rd.doc = records.policy.doc

(* What an enforcing reader goes by of the text record, document or pin,    *)
(* was in a finalized block, whatever is being published meanwhile          *)
(* (risk-policy.ts:138-156).                                                *)
FinalizedReaderIsStable ==
  rd.tag = "finalized" /\ rd.source \in {"text-record", "pin"} =>
    \E text \in finals \ {Absent} : text.doc = rd.doc

(* The record never points at a document nobody pinned, although a publish  *)
(* can fail between any two of its steps (risk-policy.ts:471-488, 546).     *)
RecordIsPinned ==
  latest.policy # Absent /\ latest.policy.at = "ipfs" => latest.policy.doc \in pins

(* No invalid document reaches the text record through the publisher: a     *)
(* lookup throws for what an endpoint serves, for the name it is given or   *)
(* for a pin, and never for a document of the text record                   *)
(* (risk-policy.ts:465-466).                                                *)
TextRecordParses == rd.pc = "threw" => rd.source \in {"endpoint", "name", "pin"}

(* What is published stays sound while it is published and read: the three  *)
(* above (risk-policy.ts:138, 465, 471).  A pin is sound and yet not found. *)
PublishedIsSound == FinalizedReaderIsStable /\ RecordIsPinned /\ TextRecordParses
=============================================================================
