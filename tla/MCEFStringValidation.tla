------------------------ MODULE MCEFStringValidation ------------------------
(* Bytes on both sides of every boundary of the code and of the RFC.       *)
EXTENDS EFStringValidation, TLC

First == {65, 127, 128, 191, 192, 193, 194, 223, 224, 225, 236, 237, 238, 239,
          240, 241, 243, 244, 245, 247, 248, 255}
Second == {127, 128, 143, 144, 159, 160, 191, 192, 237}
Later  == {65, 128, 191, 194}

MCBuffers == {<<a, b, c, d>> : a \in First, b \in Second, c, d \in Later}
=============================================================================
