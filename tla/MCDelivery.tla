----------------------------- MODULE MCDelivery -----------------------------
(* An instance of Delivery: one id in three encodings, that name no        *)
(* author, a peer and ourselves.                                           *)
EXTENDS Delivery

CONSTANTS p1, p2, m1, m2, m3, x

SameId == [m \in {m1, m2, m3} |-> x]
Authors == [m \in {m1, m2, m3} |-> CASE m = m1 -> NoAuthor [] m = m2 -> p2 [] OTHER -> Self]

Setting(validate, author, fast) ==
  [validateMessages |-> validate, hasAuthor |-> author,
   allowSelfOrigin |-> FALSE, fastIds |-> fast]
ThreeConfigs ==
  {Setting(TRUE, FALSE, TRUE), Setting(TRUE, TRUE, FALSE), Setting(FALSE, FALSE, FALSE)}
=============================================================================
