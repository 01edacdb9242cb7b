---------------------------- MODULE MCConversion ----------------------------
(* The unit no code page has, and a code page with a byte it leaves         *)
(* undefined.                                                               *)
EXTENDS Conversion

MCBytes == {65, 128, 129}
MCUnitsWithNoncharacter == {65, 65535}
MCExtension == [page \in {"1252", "437", "utf8"} |->
                  CASE page = "1252" -> <<8364, 65535, 8218>>
                    [] page = "437" -> <<199, 252, 233>>
                    [] OTHER -> <<>>]
=============================================================================
