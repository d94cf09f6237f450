----------------------------- MODULE NdefStore -----------------------------
(* What writing an NDEF message to a tag promises, whatever the tag and    *)
(* however often it leaves the field: the tag holds the old message, none, *)
(* or the new one.  A message is never replaced by a part of another.      *)
CONSTANT Messages
VARIABLES content, writing

None == <<"none">>
Empty == <<"empty">>
\* No message: the length is 0, or the tag says that a write was not finished.
Vacant == {Empty, <<"unreadable">>}
vars == <<content, writing>>

Init == content \in Messages \cup Vacant /\ writing = None

Ends == writing' \in {writing, None}
Write(m) == writing = None /\ writing' = m /\ UNCHANGED content
Reset == writing # None /\ content' \in Vacant /\ Ends
Commit == writing \in Messages /\ content \in Vacant /\ content' = writing /\ Ends
Stop == writing' = None /\ UNCHANGED content
Format == writing = None /\ content' = Empty /\ UNCHANGED writing

Next == (\E m \in Messages \cup {Empty} : Write(m)) \/ Reset \/ Commit \/ Stop \/ Format
Spec == Init /\ [][Next]_vars
=============================================================================
