--------------------------- MODULE MCNdefMessage ---------------------------
(* One record and one type object of the application, a pool of two, so that  *)
(* a message of three records does not fit in it.  Short payloads end at four *)
(* bytes: texts, URIs and payloads lie on both sides of the limit.            *)
EXTENDS NdefMessage

MCUriPrefix == <<<<>>, <<1, 2>>, <<1>>, <<>>>>
MCValues ==
  {[id |-> "text", utf |-> 1, language |-> <<5>>, sentence |-> <<6, 7>>],
   [id |-> "uri", protocol |-> 3, string |-> <<1, 2, 3, 4, 5, 6>>],
   [id |-> "media", type |-> <<9, 9>>, payload |-> <<8>>],
   [id |-> "empty"]}
MCRaw == {[id |-> "raw", tnf |-> 5, type |-> <<>>, payload |-> <<4, 4, 4, 4>>]}
MCIds == {<<7>>}
MCPayloads == {<<4, 4, 4, 4, 4>>}

LOCAL Text == [tnf |-> 1, type |-> <<84>>, id |-> <<7>>, payload |-> <<129, 5, 6, 7>>,
               value |-> [id |-> "text", utf |-> 1, language |-> <<5>>, sentence |-> <<6, 7>>]]
LOCAL Uri == [tnf |-> 1, type |-> <<85>>, id |-> <<>>, payload |-> <<1, 3>>,
              value |-> [id |-> "uri", string |-> <<1, 2, 3>>]]
LOCAL Aar == [tnf |-> 4, type |-> <<97>>, id |-> <<>>, payload |-> <<1, 2, 3, 4, 5>>,
              value |-> [id |-> "aar", payload |-> <<1, 2, 3, 4, 5>>]]
LOCAL Empty == [tnf |-> 0, type |-> <<>>, id |-> <<>>, payload |-> <<>>, value |-> [id |-> "empty"]]
MCForeign == {[long |-> TRUE, content |-> <<Aar>>],
              [long |-> FALSE, content |-> <<Uri, Empty, Text>>]}
=============================================================================
