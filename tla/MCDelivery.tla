----------------------------- MODULE MCDelivery -----------------------------
(* Instances of Delivery and Announcements for TLC.                        *)
EXTENDS Announcements, TLC

CONSTANTS alice, bob, carol, \* users
          m1, m2             \* chats

\* Two chats from alice to bob.
OneWayFrom == (m1 :> alice) @@ (m2 :> alice)
OneWayTo   == (m1 :> bob) @@ (m2 :> bob)

\* No chat: notices only.
NoFrom == <<>>
NoTo   == <<>>

\* Who asks bob to be friends.
AliceAsks == {<<alice, bob>>}
BothAsk   == {<<alice, bob>>, <<carol, bob>>}

DeliverySymmetry == Permutations(Worker)

=============================================================================
