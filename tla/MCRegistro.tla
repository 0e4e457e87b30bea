----------------------------- MODULE MCRegistro -----------------------------
(* Small instances of Registro: one file, or two in one or two partitions. *)
EXTENDS Registro, Formato, TLC

CONSTANTS f1, p1, p2, h1

MesmaParticao == [f \in Arquivos |-> p1]
OutraParticao == [f \in Arquivos |-> IF f = f1 THEN p1 ELSE p2]

(* h1 is a photograph, any other content a text sent as if it were one.    *)
Envio(h) == [tipo |-> IF h = h1 THEN "jpeg" ELSE "outro", lido |-> 512,
             config |-> h = h1, pixels |-> h = h1, largura |-> 4000, altura |-> 3000]
Imagens == {h \in Hashes : Decodificavel("image/jpeg", Envio(h))}

(* The thumbnail keeps the proportion of the image to the nearest pixel.   *)
Lados == {1, 2, 3, 150, 299, 300, 301, 450, 599, 600, 601, 4000, 16383}
ASSUME MiniaturaDeReferencia == \A menor, maior \in Lados :
  menor <= maior /\ maior > Lado =>
    /\ MaisProximo(Miniatura(maior, menor).altura, menor, maior)
    /\ MaisProximo(Miniatura(menor, maior).largura, menor, maior)

=============================================================================
