----------------------------- MODULE MCConsulta -----------------------------
(* Small instances of ConsultaIsolada.                                     *)
EXTENDS ConsultaIsolada, TLC

CONSTANTS f1, f2, f3, p1, p2, p3, u1, h1, h2

DuasParticoes == [f \in Arquivos |-> IF f = f1 THEN p1 ELSE p2]
TresParticoes == (f1 :> p1) @@ (f2 :> p2) @@ (f3 :> p3)

MesmoConteudo == Arquivos \X {u1} \X {h1}
DoisConteudos == Arquivos \X {u1} \X {h1, h2}
(* Two files of one content, and a third of its own.                       *)
DoisEUm == {<<f1, u1, h1>>, <<f2, u1, h1>>, <<f3, u1, h2>>}

=============================================================================
