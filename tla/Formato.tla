------------------------------ MODULE Formato ------------------------------
(***************************************************************************)
(* What registroUpload finds out about the bytes of a file (helper/midia): *)
(* whether its metadata can be read, which format it is, and how large its *)
(* thumbnail becomes.  A file is a record                                  *)
(*   tipo     the container it really is, by its first bytes               *)
(*   lido     how many of its first 512 bytes there are                    *)
(*   config   its header decodes (webp.DecodeConfig, imagemeta.Decode)     *)
(*   pixels   its pixels decode                                            *)
(*   largura, altura                                                       *)
(* and comes with the mimetype the client declared, which nobody compares  *)
(* with the bytes.  An EXIF block that is missing or broken decides        *)
(* nothing: defaults take its place.                                       *)
(***************************************************************************)
EXTENDS Integers

Imagemeta == {"image/jpg", "image/jpeg", "image/png", "image/heic", "image/heif"}
TiposValidos == Imagemeta \cup {"image/webp"}

(* The mimetype chooses the reader; imagemeta tells its formats apart by   *)
(* itself, webp reads nothing else.                                        *)
ExtrairMetadados(mimetype, a) ==
  /\ mimetype \in TiposValidos /\ a.config
  /\ IF mimetype \in Imagemeta THEN a.tipo \in {"jpeg", "png", "heic", "heif"}
                               ELSE a.tipo = "webp"

(* Bytes a signature takes.  Of the HEIF brands only six are known ("heic");*)
(* "heif" stands for the others, "outro" for what is no image.             *)
Assinatura == [jpeg |-> 2, png |-> 8, webp |-> 12, heic |-> 12]

DetectImageFormat(a) ==
  IF a.tipo \in DOMAIN Assinatura /\ a.lido >= Assinatura[a.tipo] THEN a.tipo ELSE "nenhum"

(* registroUpload of a new content gets as far as its thumbnail.           *)
Decodificavel(mimetype, a) ==
  /\ ExtrairMetadados(mimetype, a)
  /\ DetectImageFormat(a) # "nenhum"
  /\ a.pixels

Lado == 300

(* imaging.Resize with one side given: the other keeps the proportion,     *)
(* rounded, and is never 0.                                                *)
Proporcional(menor, maior) ==
  LET n == (2 * Lado * menor + maior) \div (2 * maior) IN IF n < 1 THEN 1 ELSE n

(* encodeToWebPThumbnail: the size of the thumbnail of a w x h image.      *)
Miniatura(w, h) ==
  IF w <= Lado /\ h <= Lado THEN [largura |-> w, altura |-> h]
  ELSE IF w > h THEN [largura |-> Lado, altura |-> Proporcional(h, w)]
  ELSE [largura |-> Proporcional(w, h), altura |-> Lado]

(* How far n / menor is from Lado / maior, and the pixels nearest to it.   *)
Desvio(n, menor, maior) ==
  LET d == n * maior - Lado * menor IN IF d < 0 THEN -d ELSE d

MaisProximo(n, menor, maior) ==
  \A m \in 1..Lado : Desvio(n, menor, maior) <= Desvio(m, menor, maior)

=============================================================================
