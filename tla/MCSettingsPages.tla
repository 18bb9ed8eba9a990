------------------------------- MODULE MCSettingsPages -------------------------------
EXTENDS SettingsPages
CONSTANTS s1, s2, old, new, p1, n1, r1

MCFleetTags == [s \in {s1, s2} |-> IF s = s1 THEN <<"hk">> ELSE <<>>]
MCTyped ==
  [siteName |-> {"site"}, timezone |-> {"UTC"},
   enabled |-> {FALSE}, botToken |-> {"malformed"}, chatId |-> {"words"}, topicId |-> {},
   memoryKeep |-> {}, rawEnabled |-> {TRUE}, rawKeep |-> {72}, m1Keep |-> {}, h1Keep |-> {0}]
MCNames == {"", "x"}
Version1 == [siteName |-> "older", telegram |-> [enabled |-> FALSE], tokens |-> Junk]
MCShelf == {Broken, Version1}
=============================================================================
