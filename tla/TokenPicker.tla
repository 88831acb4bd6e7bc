---------------------------- MODULE TokenPicker ----------------------------
(***************************************************************************)
(* The token list of the site (packages/site/src/app/api/tokens/route.ts)   *)
(* and the picker that shows it (components/token-picker.tsx).  The list is *)
(* what an upstream list and a hand-kept one make together; the picker      *)
(* fetches it once and keeps showing what the page has selected.            *)
(***************************************************************************)
EXTENDS Integers, Sequences, FiniteSets

CONSTANTS Upstreams,   \* the lists the upstream may serve: sequences of [addr, symbol, chain]
          Fallback,    \* the hand-kept list
          Curated,     \* CURATED_SYMBOLS, a sequence
          Collation,   \* where localeCompare places the symbol of each token there is
          Chain, Default   \* the chain asked for, and the token selected at first

\* The hand-kept list has a token for each curated symbol, in their order.
PickerInputsTyped ==
  /\ Collation \in [DOMAIN Collation -> Nat] /\ Upstreams \subseteq Seq(DOMAIN Collation)
  /\ Curated \in Seq({t.symbol : t \in DOMAIN Collation})
  /\ \A i, j \in DOMAIN Curated : Curated[i] = Curated[j] => i = j
  /\ Fallback \in Seq(DOMAIN Collation) /\ Len(Fallback) = Len(Curated)
  /\ \A i \in DOMAIN Fallback : Fallback[i].symbol = Curated[i] /\ Fallback[i].chain = Chain

ASSUME PickerAssumption == PickerInputsTyped

Failed == <<>>
VARIABLES upstream,   \* what the upstream serves
          fetch,    \* the fetch of the picker: "none", "sent" or "answered"
          mounted, fetching, tokens, loaded,
          open, query, selected
pickerVars == <<upstream, fetch, mounted, fetching, tokens, loaded, open, query, selected>>

PickerInit == /\ upstream \in Upstreams /\ fetch = "none" /\ mounted = TRUE /\ fetching = FALSE
        /\ tokens = <<>> /\ loaded = FALSE /\ open = FALSE /\ query = "" /\ selected = Default

-----------------------------------------------------------------------------
\* The route.

HasSymbol(list, s) == \E i \in DOMAIN list : list[i].symbol = s

\* The places of the same chain, and of each address the first.
SameChain(list) ==
  {i \in DOMAIN list : /\ list[i].chain = Chain
                       /\ \A j \in 1..(i - 1) : list[j].chain = Chain => list[j].addr # list[i].addr}

\* The places of the hand-kept tokens whose symbol is missing.
FoldedIn(list) ==
  {i \in DOMAIN Fallback : /\ Fallback[i].chain = Chain
                           /\ \A j \in SameChain(list) : list[j].symbol # Fallback[i].symbol}

\* The place of a symbol among the curated, past them all for the rest.
IsCurated(t) == \E i \in DOMAIN Curated : Curated[i] = t.symbol
Rank(t) == IF IsCurated(t) THEN CHOOSE i \in DOMAIN Curated : Curated[i] = t.symbol ELSE Len(Curated) + 1

\* What is sorted: a token and what it is sorted by, with its place in the list last,
\* as the sort is stable.
Entry(t, at) == [rank |-> Rank(t), name |-> Collation[t], at |-> at, token |-> t]

Entries(list) == {Entry(list[i], i) : i \in SameChain(list)}
                   \cup {Entry(Fallback[i], Len(list) + i) : i \in FoldedIn(list)}

\* Curated first, in their order, then by symbol.
Before(e, f) == \/ e.rank < f.rank
                \/ e.rank = f.rank /\ e.name < f.name
                \/ e.rank = f.rank /\ e.name = f.name /\ e.at < f.at

\* Each entry comes after as many as come before it.
Ahead(entries, e) == Cardinality({f \in entries : Before(f, e)})
Nth(entries, n) == CHOOSE e \in entries : Ahead(entries, e) = n - 1
Sorted(entries) == [n \in 1..Cardinality(entries) |-> Nth(entries, n).token]

TokenList(list) == Sorted(Entries(list))

\* The hand-kept list alone is not sorted: it keeps its order.
FallbackList ==
  Sorted({[rank |-> 0, name |-> 0, at |-> i, token |-> Fallback[i]] :
            i \in {j \in DOMAIN Fallback : Fallback[j].chain = Chain}})

\* What GET /api/tokens answers; the hand-kept list when the upstream cannot be had.
Answers == {TokenList(upstream), FallbackList}

-----------------------------------------------------------------------------
\* The picker.

Load == /\ mounted /\ fetch = "none" /\ fetch' = "sent" /\ fetching' = TRUE
        /\ UNCHANGED <<upstream, mounted, tokens, loaded, open, query, selected>>

\* A cancelled load leaves the state alone.
Shown == mounted

\* A list, an error of the route, or a fetch that rejects.
Loaded == \E list \in Answers \cup {Failed} :
  /\ fetch = "sent" /\ fetch' = "answered"
  /\ IF Shown THEN tokens' = list /\ loaded' = (list # Failed) /\ fetching' = FALSE
     ELSE UNCHANGED <<tokens, loaded, fetching>>
  /\ UNCHANGED <<upstream, mounted, open, query, selected>>

Unmount == /\ mounted /\ mounted' = FALSE /\ open' = FALSE
           /\ UNCHANGED <<upstream, fetch, fetching, tokens, loaded, query, selected>>

Toggle == /\ mounted /\ open' = ~open
          /\ UNCHANGED <<upstream, fetch, mounted, fetching, tokens, loaded, query, selected>>

ClickOutside == /\ open /\ open' = FALSE
                /\ UNCHANGED <<upstream, fetch, mounted, fetching, tokens, loaded, query, selected>>

Search == /\ open /\ \E q \in {"", "USDC"} : q # query /\ query' = q
          /\ UNCHANGED <<upstream, fetch, mounted, fetching, tokens, loaded, open, selected>>

Filtered == IF query = "" THEN tokens ELSE SelectSeq(tokens, LAMBDA t : t.symbol = query)

Select == /\ open /\ \E i \in DOMAIN Filtered : selected' = Filtered[i]
          /\ open' = FALSE /\ query' = ""
          /\ UNCHANGED <<upstream, fetch, mounted, fetching, tokens, loaded>>

PickerNext == Load \/ Loaded \/ Unmount \/ Toggle \/ ClickOutside \/ Search \/ Select

\* The effect runs after the first render; a fetch is answered or rejected.
PickerSpec == PickerInit /\ [][PickerNext]_pickerVars /\ WF_pickerVars(Load) /\ WF_pickerVars(Loaded)
-----------------------------------------------------------------------------
PickerTypeOK ==
  /\ fetch \in {"none", "sent", "answered"} /\ mounted \in BOOLEAN /\ fetching \in BOOLEAN
  /\ loaded = (tokens # <<>>) /\ open \in BOOLEAN /\ query \in {"", "USDC"}
  /\ \A i \in DOMAIN tokens : tokens[i].chain = Chain

(* Whatever the upstream serves or fails to, a list that is shown has every *)
(* curated symbol, and before all others; the rest is in the order of its   *)
(* symbols ("common pairs at the top", route.ts:149-171).                   *)
CommonPairsFirst ==
  loaded =>
    /\ \A k \in DOMAIN Curated : HasSymbol(tokens, Curated[k])
    /\ \A i, j \in DOMAIN tokens :
         i < j => \/ Rank(tokens[i]) < Rank(tokens[j])
                  \/ Rank(tokens[i]) = Rank(tokens[j]) /\ Collation[tokens[i]] <= Collation[tokens[j]]

(* A list that arrives after the picker is gone changes nothing             *)
(* (token-picker.tsx:45-67).                                                *)
LateListIsIgnored == [][~mounted => tokens' = tokens /\ selected' = selected]_pickerVars

(* The picker does not stay at "Loading tokens" (token-picker.tsx:44-68).   *)
LoadSettles == <>(~mounted \/ (fetch = "answered" /\ ~fetching))
=============================================================================
