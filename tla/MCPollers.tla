----------------------------- MODULE MCPollers -----------------------------
EXTENDS Pollers

CONSTANTS c1, c2, c3, c4, t1

\* Bytes of two bits, two of them in a level.  c3 has two levels, the first of which
\* differs from c1 in one bit; c2 differs from c1 in the first byte, and c4 from c3 in the
\* second level only.
MCUid == (c1 :> << <<1, 0, 0, 1>> >>) @@ (c2 :> << <<0, 0, 0, 1>> >>)
         @@ (c3 :> << <<1, 1, 0, 1>>, <<0, 0, 1, 0>> >>) @@ (c4 :> << <<1, 1, 0, 1>>, <<0, 1, 1, 1>> >>) @@ (t1 :> << <<0, 0, 0, 0>> >>)

MCVUid == (c1 :> <<0, 0, 1>>) @@ (c2 :> <<0, 0, 0>>) @@ (c3 :> <<1, 0, 1>>)
          @@ (c4 :> <<1, 1, 0>>) @@ (t1 :> <<0, 1, 1>>)

Three == {c1, c2, c3}

Search(tech, mode, limit, present, weak) ==
  [tech |-> tech, mode |-> mode, limit |-> limit, present |-> present, weak |-> weak]

WellFormed == {s \in [tech : {"A"}, mode : {"NFC", "EMV", "ISO"}, limit : 0 .. 3,
                      present : SUBSET Cards, weak : SUBSET Cards] : s.weak \subseteq s.present}

Modes == {"NFC", "EMV", "ISO"}

MCSetups ==
  ({Search("A", m, l, p, w) : m \in Modes, l \in 0 .. 3, p \in (SUBSET Three) \ {{}},
                             w \in SUBSET Three} \cap WellFormed)
  \cup {Search(t, m, l, p, w) : t \in {"B", "F", "V", "TB"}, m \in Modes,
                           l \in 0 .. 3, p \in {{c1}, {c1, c2}, Three}, w \in {{}, {c1}}}
  \cup {Search("A", m, l, p, {}) : m \in Modes, l \in {0, 2}, p \in {{t1}, {t1, c1}}}
  \cup {Search("VS", "ISO", l, p, w) : l \in 1 .. 4, p \in {{c1, c2}, Cards}, w \in {{}, {c1}}}
  \cup {Search("V", "NFC", 4, Cards, {})}
=============================================================================
