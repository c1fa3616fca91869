------------------------- MODULE MCStartupCertificate -------------------------
(* Two requests, two draft groups and a horizon of two cycles for TLC.      *)
EXTENDS StartupCertificateProperties, TLC

TwoBlockSizes == 1 :> 2 @@ 2 :> 1
TwoWidths == 1 :> 4 @@ 2 :> 7
FewTables == {{}, {<<CHOOSE r \in Requests : TRUE, 1>>}, {<<r, 3>> : r \in Requests}}
FewLayouts == {{}, {<<1, 1>>}, {<<1, 2>>}}
=============================================================================
