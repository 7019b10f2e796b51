------------------------------ MODULE MCGuidance ------------------------------
(* A page of a link and of a field that is sensitive or not, inside an iframe or not; a step  *)
(* whose accessible name may have moved to another control; two cards that follow each other. *)
EXTENDS GuidanceProps

CONSTANTS own, foreign, plain, framed

MCOrigin == [d \in Docs |-> d]
MCAllowed == {own}
MCFramed == {framed}

Look(name, text, flags, enabled) ==
  [name |-> name, text |-> text, flags |-> flags, enabled |-> enabled]
MCLooks ==
  {Look("continue", "go", {}, TRUE), Look("continue", "go", {}, FALSE),
   Look("card", "go", {"payment"}, TRUE), Look("secret", "word", {"password", "payment"}, TRUE)}

MCTiers == <<[type |-> "aria", value |-> "continue"], [type |-> "text", value |-> "go"]>>

Card(class, from, to, currency) == [class |-> class, from |-> from, to |-> to, currency |-> currency]
MCCards == {Card("input", 0, 1, "usd"), Card("input", 1, 2, "eur"), Card("output", 0, 2, "usd")}
MCUsedTokens == {{"input", "output"}}
===============================================================================
