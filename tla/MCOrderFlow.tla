----------------------------- MODULE MCOrderFlow -----------------------------
(***************************************************************************)
(* Small instances of OrderFlow: the lines an order can be placed with.    *)
(***************************************************************************)
EXTENDS OrderFlow, TLC

CONSTANTS v1, v2

Basket(loose, bundle) ==
  [s \in Sources |-> [v \in Variants |->
     IF s = "loose" THEN (IF v \in DOMAIN loose THEN loose[v] ELSE 0)
     ELSE (IF v \in DOMAIN bundle THEN bundle[v] ELSE 0)]]

Nothing == [v \in {} |-> 0]

\* One variant, or another one both loose and inside a bundle.
SoundOrSplit == {Basket(v2 :> 1, Nothing), Basket(v1 :> 1, v1 :> 1)}

\* One kit, two kits, and a bundle of two variants.
MixedBaskets ==
  {Basket(v1 :> 1, Nothing), Basket(v1 :> 2, Nothing), Basket(Nothing, v1 :> 1 @@ v2 :> 1)}

\* The customer has a kit loose and the same kit inside a bundle.
SplitBaskets == {Basket(v1 :> 1, Nothing), Basket(v1 :> 1, v1 :> 1)}
=============================================================================
