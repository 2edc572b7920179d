------------------------- MODULE MCFederationRelay --------------------------
(* Deployments a and b: a sends b a chat message with an attachment and asks  *)
(* it something; b replies.                                                   *)
EXTENDS FederationRelay, TLC

CONSTANTS a, b, m1, m2, c1, c2, g1, x1, k1

Shape(id, kind, sender, recipient) ==
  [id |-> id, kind |-> kind, sender |-> sender, recipient |-> recipient,
   attachment |-> None, grant |-> None, inReplyTo |-> None]

MCShapes ==
  {[Shape(m1, "a2a.request", a, b) EXCEPT !.grant = g1],
   [Shape(m2, "chat.message", a, b) EXCEPT !.attachment = x1],
   [Shape(m2, "a2a.response", b, a) EXCEPT !.inReplyTo = m1]}

MCRegistered == {<<b, k1>>}
MCQuarrels == {<<b, a>>}
MCCallers == {c1, c2}
Symmetry == Permutations(MCCallers)
=============================================================================
