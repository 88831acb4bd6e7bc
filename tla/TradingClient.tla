--------------------------- MODULE TradingClient ---------------------------
(***************************************************************************)
(* The client of the Uniswap Trading API (packages/core/src/trading.ts) as  *)
(* its callers use it: value an amount in USDC, quote a swap, have the      *)
(* quote turned into calldata, ask how it went.  The API may answer         *)
(* anything, late, and a quote goes stale while its caller holds it.        *)
(***************************************************************************)
EXTENDS Integers

CONSTANTS Routings,   \* the routings the API uses
          UniswapX,   \* those of them that are auctions
          Amounts,    \* amounts of tokens and of USDC
          MaxCalls    \* bound

ClientInputsTyped ==
  /\ "none" \notin Routings /\ UniswapX \subseteq Routings
  /\ Amounts \subseteq Nat /\ MaxCalls \in Nat

ASSUME ClientAssumption == ClientInputsTyped

Quotes == [routing : Routings, output : Amounts \cup {-1}, permit : BOOLEAN, order : BOOLEAN]
NoQuote == [routing |-> "none", output |-> -1, permit |-> FALSE, order |-> FALSE]
Swaps == [data : BOOLEAN, addresses : BOOLEAN, value : BOOLEAN]
Codes == {"none", "expired", "slippage", "liquidity"}
Errors == {"input", "network", "invalid", "rate-limited", "api"} \cup (Codes \ {"none"})

VARIABLES held,   \* the quote the caller holds
          live,   \* would the API still honour it?
          call,   \* the request under way
          last,   \* how the last call ended
          calls
clientVars == <<held, live, call, last, calls>>

Idle == [kind |-> "none", amount |-> 0, body |-> [quote |-> NoQuote, signature |-> FALSE, permit |-> FALSE]]
Ok(kind, got) == [kind |-> kind, error |-> "none", amount |-> call.amount, got |-> got, live |-> live]
Err(kind, e) == [kind |-> kind, error |-> e, amount |-> 0, got |-> NoQuote, live |-> live]

ClientInit ==
  /\ held = NoQuote /\ live = FALSE /\ call = Idle /\ calls = 0
  /\ last = [kind |-> "none", error |-> "none", amount |-> 0, got |-> NoQuote, live |-> FALSE]

-----------------------------------------------------------------------------
\* Requests.

IsUniswapX(quote) == quote.routing \in UniswapX

\* prepareSwapRequest: an auction takes the signature alone, a classic route the
\* signature with the permit it signs, or neither.
Prepared(quote, signature) ==
  [quote |-> quote,
   signature |-> signature /\ (IsUniswapX(quote) \/ quote.permit),
   permit |-> signature /\ ~IsUniswapX(quote) /\ quote.permit]

Begin(kind, amount, body) ==
  /\ call = Idle /\ calls < MaxCalls /\ calls' = calls + 1
  /\ call' = [kind |-> kind, amount |-> amount, body |-> body]
  /\ UNCHANGED <<held, live, last>>

\* Answered without a request: an address that is none, an empty list of hashes.
AtOnce(result) == /\ call = Idle /\ calls < MaxCalls /\ calls' = calls + 1
                  /\ last' = result /\ UNCHANGED <<held, live, call>>

\* valueInUsdc: USDC is worth itself and nothing is worth nothing.
Value == \E amount \in Amounts, isUsdc \in BOOLEAN :
  IF isUsdc \/ amount = 0
  THEN AtOnce([Ok("usdc", NoQuote) EXCEPT !.amount = amount])
  ELSE Begin("value", amount, Idle.body)

AskQuote == Begin("quote", 1, Idle.body)
AskSwap == \E signature \in BOOLEAN : held # NoQuote /\ Begin("swap", 1, Prepared(held, signature))
\* An approval, the status of swaps or orders, the tokens there are.
AskOther == Begin("other", 1, Idle.body)
BadInput == \E kind \in {"quote", "other"} : AtOnce(Err(kind, "input"))

-----------------------------------------------------------------------------
\* What the API answers, and what the client makes of it.

QuoteValid(quote) == IF IsUniswapX(quote) THEN quote.order ELSE quote.output >= 0

\* Mutant: empty calldata is passed on.
SwapErrorLoosely(swap) == IF ~swap.addresses \/ ~swap.value THEN "invalid" ELSE "none"

\* Empty calldata is how the API says that the quote has expired.
SwapError(swap) == IF ~swap.data THEN "expired" ELSE IF ~swap.addresses \/ ~swap.value THEN "invalid" ELSE "none"

\* mapHttpError.
HttpError(status, code) ==
  IF status = 429 THEN "rate-limited" ELSE IF code = "none" THEN "api" ELSE code

Return(result) == /\ call' = Idle /\ last' = result /\ UNCHANGED calls
ReturnError(e) == Return(Err(call.kind, e)) /\ UNCHANGED <<held, live>>

NetworkFails == call # Idle /\ ReturnError("network")

\* Not JSON, whatever the status, or a JSON error.
Refused == /\ call # Idle
           /\ \/ ReturnError("invalid")
              \/ \E status \in {400, 429, 500}, code \in Codes : ReturnError(HttpError(status, code))

\* getOutputAmount: the first output of an auction may be missing.
ValueAnswered == \E quote \in Quotes :
  /\ call.kind = "value"
  /\ IF QuoteValid(quote) /\ quote.output >= 0 THEN Return(Ok("value", quote)) /\ UNCHANGED <<held, live>>
     ELSE ReturnError("invalid")

QuoteAnswered == \E quote \in Quotes :
  /\ call.kind = "quote"
  /\ IF QuoteValid(quote) THEN Return(Ok("quote", quote)) /\ held' = quote /\ live' = TRUE
     ELSE ReturnError("invalid")

\* A quote that has expired gets no calldata.
SwapAnswered == \E swap \in Swaps :
  /\ call.kind = "swap" /\ (~live => ~swap.data)
  /\ IF SwapError(swap) = "none" THEN Return(Ok("swap", call.body.quote)) /\ UNCHANGED <<held, live>>
     ELSE ReturnError(SwapError(swap))

\* Passed on as it is.
OtherAnswered == call.kind = "other" /\ Return(Ok("other", NoQuote)) /\ UNCHANGED <<held, live>>

QuoteExpires == live /\ live' = FALSE /\ UNCHANGED <<held, call, last, calls>>

ClientNext ==
  \/ Value \/ AskQuote \/ AskSwap \/ AskOther \/ BadInput
  \/ NetworkFails \/ Refused \/ ValueAnswered \/ QuoteAnswered \/ SwapAnswered \/ OtherAnswered
  \/ QuoteExpires
ClientSpec == ClientInit /\ [][ClientNext]_clientVars
-----------------------------------------------------------------------------
ClientTypeOK ==
  /\ held \in Quotes \cup {NoQuote} /\ live \in BOOLEAN /\ calls \in 0..MaxCalls
  /\ call.kind \in {"none", "value", "quote", "swap", "other"}
  /\ last.error \in {"none"} \cup Errors
  /\ live => held # NoQuote
  /\ ~IsUniswapX(held) /\ held # NoQuote => held.output >= 0

(* What the caller may broadcast was made from a quote the API honoured at  *)
(* that moment; an empty answer to a stale one is an error, not calldata    *)
(* (trading.ts:378-383, 625-655).                                           *)
NothingStaleIsSent == last.kind = "swap" /\ last.error = "none" => last.live

(* "CLASSIC: signature + permitData together, or neither", and an auction   *)
(* never carries a permit (trading.ts:472-492).                             *)
PermitIsSigned ==
  call.kind = "swap" =>
    /\ call.body.permit => call.body.signature /\ ~IsUniswapX(call.body.quote)
    /\ call.body.signature => call.body.permit \/ IsUniswapX(call.body.quote)

(* A valuation is USDC itself, or what a quote for it said: an answer       *)
(* without an amount is never taken for a value (trading.ts:576-595).       *)
ValueWasQuoted == last.kind = "value" /\ last.error = "none" => last.got.output \in Amounts /\ last.amount # 0

(* What a caller gets from the client was quoted: the three above           *)
(* (trading.ts:472, 576, 625).                                              *)
QuotesAreHonored == NothingStaleIsSent /\ PermitIsSigned /\ ValueWasQuoted
=============================================================================
