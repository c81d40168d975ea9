--------------------------- MODULE MCProvisioning ---------------------------
(* Provisioning with the uploads that tell its cases apart.                *)
EXTENDS Provisioning

MCSymbol ==
  {NUL, "wifi.", "config", "txt", "my.", ".bak", "text", "SSID:", "PASS:",
   "home", "secret", "attic", "hidden", "shed", "spade"}

Good == <<"SSID:", "home", "PASS:", "secret">>

Better == <<"SSID:", "attic", "PASS:", "hidden">>

Other == <<"SSID:", "shed", "PASS:", "spade">>

MCFile ==
  { \* the wanted file, in one packet and in three; the first name sent has a
    \* terminator of its own
    <<<<NameHeader(Append(Wanted, NUL)), BodyHeader(Good), EndHeader>>>>,
    <<<<NameHeader(Wanted), SrmHeader>>, <<BodyHeader(Better)>>, <<EndHeader>>>>,
    \* the wanted file with its body in two headers
    <<<<NameHeader(Wanted), SrmHeader>>, <<BodyHeader(SubSeq(Good, 1, 2))>>,
      <<BodyHeader(SubSeq(Good, 3, 4))>>, <<EndHeader>>>>,
    \* a body that ends before its password
    <<<<NameHeader(Wanted), SrmHeader, BodyHeader(SubSeq(Good, 1, 3))>>>>,
    \* other files; the names share a part with the wanted one
    <<<<NameHeader(<<"wifi.", "txt">>), SrmHeader, BodyHeader(Good), EndHeader>>>>,
    <<<<NameHeader(<<"my.", "config">>), SrmHeader>>, <<BodyHeader(<<"text">>)>>, <<EndHeader>>>>,
    <<<<NameHeader(<<"wifi.", "config", ".bak">>), SrmHeader>>, <<BodyHeader(Other)>>>>,
    \* a header that obex_ftp does not know, and the body in an end header
    <<<<NameHeader(Wanted), OtherHeader, BodyHeader(Good)>>>>,
    <<<<NameHeader(Wanted), SrmHeader>>, <<EndHeader, OtherHeader>>>> }
=============================================================================
