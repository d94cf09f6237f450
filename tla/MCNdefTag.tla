----------------------------- MODULE MCNdefTag -----------------------------
EXTENDS NdefTag
\* A message of 7 bytes takes a length of three; 6 bytes fill the first type 5 tag.
Tag(type, block, base, area, tlv, first, lens) ==
  [type |-> type, block |-> block, base |-> base, area |-> area, tlv |-> tlv, first |-> first,
   nbW |-> 2, mLc |-> 3, lens |-> lens, cuts |-> {2}, reads |-> {"detected"}]
AllTags ==
  { Tag("T2T", 4, 8, 12, 0, 3, {3, 6}), Tag("T2T", 4, 8, 16, 1, 8, {0, 6}), Tag("T2T", 4, 8, 16, 3, 3, {0, 3}),
    Tag("T2T", 4, 8, 12, 0, 8, {3}),
    Tag("T3T", 4, 4, 12, 0, 6, {0, 3, 9}), Tag("T4T", 1, 2, 8, 0, 3, {0, 3, 6}),
    Tag("T5T", 4, 4, 8, 0, 3, {0, 6}), Tag("T5T", 4, 4, 16, 2, 7, {0, 6}) }

\* Messages longer than a length byte holds.
LongTags == { Tag("T2T", 4, 8, 16, 0, 3, {8}), Tag("T5T", 4, 4, 16, 0, 3, {8}) }
=============================================================================
