-------------------------- MODULE MCConversations --------------------------
EXTENDS Conversations, TLC

CONSTANTS p, q, g, a1, a2, a3, b1, m1, k1, d1, r1, v1, h1, h2

MCPeers == {p, q}
MCGroups == {g}
MCCreator == [c \in MCGroups |-> p]

Post(c, from, kind, target, ts, expires) ==
    [conv |-> c, from |-> from, kind |-> kind, target |-> target, ts |-> ts, expires |-> expires]

\* From p: two messages, one that disappears, an attachment, a retraction, a receipt, an
\* invitation and two messages to its group; from q one message; from the user one.
MCInfo ==
    (a1 :> Post(p, p, "text", None, 1, FALSE)) @@ (a2 :> Post(p, p, "text", None, 2, FALSE)) @@
    (a3 :> Post(p, p, "text", None, 3, TRUE)) @@ (k1 :> Post(p, p, "media", None, 1, TRUE)) @@
    (d1 :> Post(p, p, "delete", a1, 4, FALSE)) @@ (r1 :> Post(p, p, "receipt", m1, 5, FALSE)) @@
    (v1 :> Post(g, p, "invite", None, 1, FALSE)) @@ (h1 :> Post(g, p, "text", None, 2, FALSE)) @@
    (h2 :> Post(g, p, "text", None, 3, FALSE)) @@ (b1 :> Post(q, q, "text", None, 1, FALSE)) @@
    (m1 :> Post(p, Me, "text", None, 3, FALSE))

MCPosts == DOMAIN MCInfo

Case(fromP, fromQ, own, known, acts, n, kills, gated) ==
    [mail |-> (p :> fromP) @@ (q :> fromQ), own |-> own, known |-> known, acts |-> acts,
     ops |-> n, restarts |-> kills, seeded |-> gated]

\* A known peer; a stranger; a stranger's group; attachments; the upgrade to the gate.
MCModes ==
    { Case(<<a1, a2, d1>>, <<>>, <<>>, {p}, {"open", "erase", "block"}, 3, 1, TRUE),
      Case(<<a1, a3>>, <<>>, <<m1>>, {p}, {"open", "erase", "retract"}, 2, 1, TRUE),
      Case(<<a1, r1>>, <<>>, <<m1>>, {p}, {"open", "retract", "remove"}, 3, 0, TRUE),
      Case(<<a1, a2>>, <<>>, <<>>, {}, {"open", "accept", "decline", "block", "search"}, 3, 1, TRUE),
      Case(<<a1, a3>>, <<b1>>, <<>>, {q}, {"open", "accept"}, 2, 0, TRUE),
      Case(<<a1, v1, h1, h2>>, <<>>, <<>>, {}, {"open", "accept", "decline"}, 3, 1, TRUE),
      Case(<<k1, a2>>, <<>>, <<>>, {p}, {"open", "erase"}, 2, 1, TRUE),
      Case(<<k1, a2>>, <<>>, <<>>, {p}, {"open", "remove"}, 2, 0, TRUE),
      Case(<<a1, a2>>, <<b1>>, <<>>, {p}, {"open"}, 2, 1, FALSE),
      Case(<<a1, a2>>, <<>>, <<>>, {p}, {"open", "accept", "decline", "block"}, 3, 1, FALSE),
      Case(<<v1, h1, h2, a1>>, <<>>, <<>>, {p}, {"open", "accept", "decline"}, 3, 0, FALSE),
      Case(<<h1, v1, h2>>, <<>>, <<>>, {g}, {"open", "accept", "decline", "erase"}, 3, 0, FALSE) }
=============================================================================
