------------------------ MODULE Configuracion_proofs ------------------------
(***************************************************************************)
(* Proofs about Predefinidos, Libro and Planilla, for any batches, fields, *)
(* files and requests: one batch by default of a type, stored values under *)
(* their field and in their history, a workbook that says what was         *)
(* written; and about the configuration as a whole, from these and the     *)
(* proofs it extends.                                                      *)
(***************************************************************************)
EXTENDS MCConfiguracion, Documento_proofs, Limites_proofs, SequenceTheorems

(* Where the elements of two lists are once one follows the other. *)
LEMMA Pegadas ==
  ASSUME NEW S, NEW p \in Seq(S), NEW q \in Seq(S)
  PROVE  /\ Len(p) \in Nat /\ Len(q) \in Nat /\ DOMAIN p = 1..Len(p) /\ DOMAIN q = 1..Len(q)
         /\ DOMAIN (p \o q) = 1..Len(p \o q) /\ Len(p \o q) = Len(p) + Len(q)
         /\ \A i \in DOMAIN p : (p \o q)[i] = p[i] /\ i \in DOMAIN (p \o q)
         /\ \A i \in DOMAIN q : (p \o q)[Len(p) + i] = q[i] /\ Len(p) + i \in DOMAIN (p \o q)
  <1>1. Len(p) \in Nat /\ Len(q) \in Nat /\ DOMAIN p = 1..Len(p) /\ DOMAIN q = 1..Len(q)
    OBVIOUS
  <1>2. p \o q \in Seq(S) /\ Len(p \o q) = Len(p) + Len(q)
    OBVIOUS
  <1>3. DOMAIN (p \o q) = 1..Len(p \o q)
    BY <1>2
  <1>4. \A i \in DOMAIN p : (p \o q)[i] = p[i]
    BY <1>1
  <1>5. \A i \in DOMAIN q : (p \o q)[Len(p) + i] = q[i]
    BY <1>1
  <1>6. (\A i \in DOMAIN p : i \in DOMAIN (p \o q)) /\ \A i \in DOMAIN q : Len(p) + i \in DOMAIN (p \o q)
    BY <1>1, <1>2, <1>3
  <1> QED BY <1>1, <1>2, <1>3, <1>4, <1>5, <1>6

LEMMA FilaConocida ==
  ASSUME TiposPredefinidos, NEW l \in Guardados
  PROVE  l \in Lotes /\ predefinidos[l] \in LotePruebasPredefinido
  BY DEF TiposPredefinidos, Guardados

LEMMA RedaccionConocida ==
  ASSUME TiposPredefinidos, NEW e \in Redactores, Redacta(e)
  PROVE  redaccion[e] \in Redaccion /\ redaccion[e].lote \in Lotes
  BY DEF TiposPredefinidos, Redacta, Redaccion

-----------------------------------------------------------------------------
(* Types, and that a save under way is of a batch that is there. *)

LoteRedactado == \A e \in Redactores : Redacta(e) => redaccion[e].lote \in Guardados

Formados == TiposPredefinidos /\ LoteRedactado

LEMMA FormadosAlEmpezar == InitPredefinidos => Formados
  BY ListasTipadas, SindatoAparte
  DEF InitPredefinidos, Formados, TiposPredefinidos, LoteRedactado, Redacta, Guardados

LEMMA FormadosAlGuardar ==
  ASSUME Formados, NEW e \in Redactores, NEW l \in Lotes, NEW gestion \in Gestiones \cup {SINDATO},
         NEW defecto \in BOOLEAN, NEW activo \in BOOLEAN, NEW detalles \in ListasEnviadas,
         GuardarPredefinido(e, l, gestion, defecto, activo, detalles)
  PROVE  Formados'
  <1> DEFINE fila == [gestion |-> gestion, defecto |-> defecto, activo |-> activo,
                      detalles |-> IF l \in Guardados THEN predefinidos[l].detalles ELSE {}]
             peticion == [lote |-> l, gestion |-> gestion, defecto |-> defecto,
                          paso |-> IF detalles = SINDATO THEN "poner" ELSE "quitar",
                          faltan |-> IF detalles = SINDATO THEN <<>> ELSE detalles]
  <1>1. (IF l \in Guardados THEN predefinidos[l].detalles ELSE {}) \in SUBSET Detalles
    BY FilaConocida DEF Formados, LotePruebasPredefinido
  <1>2. fila \in LotePruebasPredefinido
    BY <1>1 DEF LotePruebasPredefinido
  <1>3. peticion \in Redaccion /\ peticion.lote = l
    BY ListasTipadas DEF Redaccion
  <1>4. /\ predefinidos' = [predefinidos EXCEPT ![l] = fila]
        /\ redaccion' = [redaccion EXCEPT ![e] = peticion]
        /\ cortados' = cortados /\ guardados' = guardados + 1 /\ guardados < MaxGuardados
    BY DEF GuardarPredefinido
  <1> HIDE DEF fila, peticion
  <1>5. TiposPredefinidos'
    BY <1>2, <1>3, <1>4, ListasTipadas DEF Formados, TiposPredefinidos
  <1>6. Guardados \cup {l} \subseteq Guardados'
    BY <1>2, <1>4, SindatoAparte DEF Formados, TiposPredefinidos, Guardados
  <1>7. LoteRedactado'
    BY <1>3, <1>4, <1>6 DEF Formados, TiposPredefinidos, LoteRedactado, Redacta
  <1> QED BY <1>5, <1>7 DEF Formados

(* A step of a save that keeps its batch: only details or the mark of a    *)
(* row change.                                                             *)
LEMMA FormadosAlSeguir ==
  ASSUME Formados, NEW e \in Redactores, Redacta(e),
         NEW lotes \in [Lotes -> LotePruebasPredefinido \cup {SINDATO}],
         NEW peticion \in Redaccion \cup {SINDATO},
         predefinidos' = lotes, \A l \in Guardados : lotes[l] # SINDATO,
         redaccion' = [redaccion EXCEPT ![e] = peticion],
         peticion # SINDATO => peticion.lote = redaccion[e].lote,
         cortados' \subseteq cortados \cup {redaccion[e].lote}, UNCHANGED guardados
  PROVE  Formados'
  <1>1. TiposPredefinidos'
    BY RedaccionConocida DEF Formados, TiposPredefinidos
  <1>2. Guardados \subseteq Guardados'
    BY DEF Guardados
  <1>3. redaccion[e].lote \in Guardados
    BY DEF Formados, LoteRedactado
  <1>4. LoteRedactado'
    BY <1>2, <1>3 DEF Formados, TiposPredefinidos, LoteRedactado, Redacta
  <1> QED BY <1>1, <1>4 DEF Formados

LEMMA FormadosAlQuitar ==
  ASSUME Formados, NEW e \in Redactores, QuitarDetalles(e)
  PROVE  Formados'
  <1> DEFINE l == redaccion[e].lote
             lotes == [predefinidos EXCEPT ![l].detalles = {}]
             peticion == [redaccion[e] EXCEPT !.paso = "poner"]
  <1>1. Redacta(e) /\ redaccion[e] \in Redaccion /\ l \in Lotes /\ l \in Guardados
    BY RedaccionConocida DEF Formados, LoteRedactado, QuitarDetalles
  <1>2. predefinidos[l] \in LotePruebasPredefinido
    BY <1>1, FilaConocida DEF Formados
  <1>3. [predefinidos[l] EXCEPT !.detalles = {}] \in LotePruebasPredefinido
    BY <1>2 DEF LotePruebasPredefinido
  <1>4. lotes \in [Lotes -> LotePruebasPredefinido \cup {SINDATO}]
        /\ \A m \in Guardados : lotes[m] # SINDATO
    BY <1>1, <1>3, SindatoAparte DEF Formados, TiposPredefinidos, Guardados
  <1>5. peticion \in Redaccion /\ peticion.lote = l
    BY <1>1 DEF Redaccion
  <1>6. redaccion' = [redaccion EXCEPT ![e] = peticion] /\ predefinidos' = lotes
        /\ UNCHANGED <<cortados, guardados>>
    BY DEF QuitarDetalles
  <1> HIDE DEF lotes, peticion
  <1> QED BY <1>1, <1>4, <1>5, <1>6, FormadosAlSeguir

LEMMA FormadosAlPoner ==
  ASSUME Formados, NEW e \in Redactores, PonerDetalle(e)
  PROVE  Formados'
  <1> DEFINE l == redaccion[e].lote
             nueva == [predefinidos[l] EXCEPT !.detalles = @ \cup {Head(redaccion[e].faltan)}]
             lotes == [predefinidos EXCEPT ![l] = nueva]
             peticion == [redaccion[e] EXCEPT !.faltan = Tail(@)]
  <1>1. Redacta(e) /\ redaccion[e] \in Redaccion /\ l \in Lotes /\ l \in Guardados
    BY RedaccionConocida DEF Formados, LoteRedactado, PonerDetalle, Poniendo
  <1>2. redaccion[e].faltan \in Seq(Detalles) /\ redaccion[e].faltan # <<>>
    BY <1>1 DEF Redaccion, PonerDetalle
  <1>3. Head(redaccion[e].faltan) \in Detalles /\ Tail(redaccion[e].faltan) \in Seq(Detalles)
    BY <1>2, HeadTailProperties
  <1>4. predefinidos[l] \in LotePruebasPredefinido
    BY <1>1, FilaConocida DEF Formados
  <1>5. nueva \in LotePruebasPredefinido
    BY <1>3, <1>4 DEF LotePruebasPredefinido
  <1>6. peticion \in Redaccion /\ peticion.lote = l
    BY <1>1, <1>3 DEF Redaccion
  <1>7. redaccion' = [redaccion EXCEPT ![e] = peticion] /\ predefinidos' = lotes
        /\ UNCHANGED <<cortados, guardados>>
    BY DEF PonerDetalle
  <1> HIDE DEF nueva, peticion
  <1>8. lotes \in [Lotes -> LotePruebasPredefinido \cup {SINDATO}]
        /\ \A m \in Guardados : lotes[m] # SINDATO
    BY <1>1, <1>5, SindatoAparte DEF Formados, TiposPredefinidos, Guardados
  <1> HIDE DEF lotes
  <1> QED BY <1>1, <1>6, <1>7, <1>8, FormadosAlSeguir

LEMMA FormadosAlCortar ==
  ASSUME Formados, NEW e \in Redactores, Redacta(e), Cortar(e)
  PROVE  Formados'
  <1>1. predefinidos \in [Lotes -> LotePruebasPredefinido \cup {SINDATO}]
        /\ \A l \in Guardados : predefinidos[l] # SINDATO
    BY DEF Formados, TiposPredefinidos, Guardados
  <1> QED BY <1>1, FormadosAlSeguir DEF Cortar

LEMMA FormadosAlDejarUno ==
  ASSUME Formados, NEW e \in Redactores, DejarUno(e)
  PROVE  Formados'
  <1> DEFINE sin(l) == [predefinidos[l] EXCEPT !.defecto = FALSE]
             lotes == [l \in Lotes |-> IF l \in Guardados /\ PierdeLaMarca(redaccion[e], l)
                                       THEN sin(l) ELSE predefinidos[l]]
  <1>1. \A l \in Guardados : sin(l) \in LotePruebasPredefinido
    BY FilaConocida DEF Formados, LotePruebasPredefinido
  <1>2. Redacta(e) /\ predefinidos' = lotes /\ redaccion' = [redaccion EXCEPT ![e] = SINDATO]
        /\ UNCHANGED <<cortados, guardados>>
    BY DEF DejarUno, Poniendo
  <1> HIDE DEF sin
  <1>3. lotes \in [Lotes -> LotePruebasPredefinido \cup {SINDATO}]
        /\ \A m \in Guardados : lotes[m] # SINDATO
    BY <1>1, SindatoAparte DEF Formados, TiposPredefinidos, Guardados
  <1> HIDE DEF lotes
  <1> QED BY <1>2, <1>3, FormadosAlSeguir

LEMMA FormadosAlMarcar ==
  ASSUME Formados, NEW l \in Lotes, NEW activo \in BOOLEAN, MarcarActivo(l, activo)
  PROVE  Formados'
  <1> DEFINE fila == [predefinidos[l] EXCEPT !.activo = activo]
  <1>1. l \in Guardados /\ predefinidos' = [predefinidos EXCEPT ![l] = fila]
        /\ UNCHANGED <<redaccion, cortados, guardados>>
    BY DEF MarcarActivo
  <1>2. fila \in LotePruebasPredefinido
    BY <1>1, FilaConocida DEF Formados, LotePruebasPredefinido
  <1> HIDE DEF fila
  <1>3. TiposPredefinidos' /\ Guardados \subseteq Guardados'
    BY <1>1, <1>2, SindatoAparte DEF Formados, TiposPredefinidos, Guardados
  <1> QED BY <1>1, <1>3 DEF Formados, LoteRedactado, Redacta

LEMMA FormadosPaso == Formados /\ [NextPredefinidos]_varsPredefinidos => Formados'
  <1> SUFFICES ASSUME Formados, [NextPredefinidos]_varsPredefinidos PROVE Formados'
    OBVIOUS
  <1>1. ASSUME NEW e \in Redactores, NEW l \in Lotes, NEW gestion \in Gestiones \cup {SINDATO},
               NEW defecto \in BOOLEAN, NEW activo \in BOOLEAN, NEW detalles \in ListasEnviadas,
               GuardarPredefinido(e, l, gestion, defecto, activo, detalles)
        PROVE  Formados'
    BY <1>1, FormadosAlGuardar
  <1>2. ASSUME NEW e \in Redactores, QuitarDetalles(e) PROVE Formados'
    BY <1>2, FormadosAlQuitar
  <1>3. ASSUME NEW e \in Redactores, PonerDetalle(e) PROVE Formados'
    BY <1>3, FormadosAlPoner
  <1>4. ASSUME NEW e \in Redactores, FallarDetalle(e) \/ CaerRedaccion(e) PROVE Formados'
    BY <1>4, FormadosAlCortar DEF FallarDetalle, CaerRedaccion, Poniendo
  <1>5. ASSUME NEW e \in Redactores, DejarUno(e) PROVE Formados'
    BY <1>5, FormadosAlDejarUno
  <1>6. ASSUME NEW l \in Lotes, EliminarPredefinido(l) \/ RestaurarPredefinido(l) PROVE Formados'
    BY <1>6, FormadosAlMarcar DEF EliminarPredefinido, RestaurarPredefinido
  <1>7. ASSUME UNCHANGED varsPredefinidos PROVE Formados'
    BY <1>7 DEF varsPredefinidos, Formados, TiposPredefinidos, LoteRedactado, Redacta, Guardados
  <1> QED BY <1>1, <1>2, <1>3, <1>4, <1>5, <1>6, <1>7 DEF NextPredefinidos

(* Every table holds rows of its form, and a save under way is of a batch  *)
(* that was written (the row goes first).                                  *)
THEOREM FormadosSiempre == SpecPredefinidos => []Formados
  BY FormadosAlEmpezar, FormadosPaso, PTL DEF SpecPredefinidos

-----------------------------------------------------------------------------
(* One default.  The two batches of a pair, and what excuses them.         *)

Disculpa(l, m, g) ==
    \/ l \in cortados \/ m \in cortados
    \/ \E e \in Redactores : VaADejarUno(e, l, g) \/ VaADejarUno(e, m, g)

(* A step that adds no default and ends no save keeps what it had.         *)
LEMMA UnicoSiNadaNuevo ==
  ASSUME PredeterminadoUnico,
         \A g \in Gestiones : Marcados(g)' \subseteq Marcados(g),
         \A e \in Redactores, l \in Lotes, g \in Gestiones :
             VaADejarUno(e, l, g) => VaADejarUno(e, l, g)' \/ l \in cortados',
         cortados \subseteq cortados'
  PROVE  PredeterminadoUnico'
  <1> SUFFICES ASSUME NEW g \in Gestiones, NEW l \in Marcados(g)', NEW m \in Marcados(g)', l # m
               PROVE  Disculpa(l, m, g)'
    BY DEF PredeterminadoUnico, Disculpa
  <1>1. l \in Marcados(g) /\ m \in Marcados(g) /\ l \in Lotes /\ m \in Lotes
    BY DEF Marcados, Guardados
  <1>2. Disculpa(l, m, g)
    BY <1>1 DEF PredeterminadoUnico, Disculpa
  <1>3. CASE l \in cortados \/ m \in cortados
    BY <1>3 DEF Disculpa
  <1>4. CASE \E e \in Redactores : VaADejarUno(e, l, g) \/ VaADejarUno(e, m, g)
    <2>1. PICK e \in Redactores : VaADejarUno(e, l, g) \/ VaADejarUno(e, m, g)
      BY <1>4
    <2>2. VaADejarUno(e, l, g)' \/ l \in cortados' \/ VaADejarUno(e, m, g)' \/ m \in cortados'
      BY <1>1, <2>1
    <2> QED BY <2>2 DEF Disculpa
  <1> QED BY <1>2, <1>3, <1>4 DEF Disculpa

LEMMA UnicoAlGuardar ==
  ASSUME Formados, PredeterminadoUnico, NEW e \in Redactores, NEW l \in Lotes,
         NEW gestion \in Gestiones \cup {SINDATO}, NEW defecto \in BOOLEAN, NEW activo \in BOOLEAN,
         NEW detalles \in ListasEnviadas,
         GuardarPredefinido(e, l, gestion, defecto, activo, detalles)
  PROVE  PredeterminadoUnico'
  <1> SUFFICES ASSUME NEW g \in Gestiones, NEW m \in Marcados(g)', NEW n \in Marcados(g)', m # n
               PROVE  Disculpa(m, n, g)'
    BY DEF PredeterminadoUnico, Disculpa
  <1>1. /\ m \in Lotes /\ n \in Lotes
        /\ ~Redacta(e) /\ cortados' = cortados
        /\ \A d \in Redactores \ {e} : redaccion'[d] = redaccion[d]
        /\ \A k \in Lotes \ {l} : predefinidos'[k] = predefinidos[k]
    BY DEF GuardarPredefinido, Formados, TiposPredefinidos, Marcados, Guardados
  <1>2. CASE l = m \/ l = n
    <2>1. predefinidos'[l].defecto = defecto /\ predefinidos'[l].gestion = gestion
      BY DEF GuardarPredefinido, Formados, TiposPredefinidos
    <2>2. defecto /\ gestion = g
      BY <1>2, <2>1 DEF Marcados
    <2>3. redaccion'[e].lote = l /\ redaccion'[e].defecto = defecto
          /\ redaccion'[e].gestion = gestion
      BY DEF GuardarPredefinido, Formados, TiposPredefinidos
    <2>4. redaccion'[e] # SINDATO
      <3> DEFINE peticion == [lote |-> l, gestion |-> gestion, defecto |-> defecto,
                              paso |-> IF detalles = SINDATO THEN "poner" ELSE "quitar",
                              faltan |-> IF detalles = SINDATO THEN <<>> ELSE detalles]
      <3>1. peticion \in Redaccion
        BY ListasTipadas DEF Redaccion
      <3>2. redaccion' = [redaccion EXCEPT ![e] = peticion]
        BY DEF GuardarPredefinido
      <3> HIDE DEF peticion
      <3> QED BY <3>1, <3>2, SindatoAparte DEF Formados, TiposPredefinidos
    <2>5. VaADejarUno(e, l, g)'
      BY <2>2, <2>3, <2>4 DEF VaADejarUno, Redacta
    <2> QED BY <1>2, <2>5 DEF Disculpa
  <1>3. CASE l # m /\ l # n
    <2>1. m \in Marcados(g) /\ n \in Marcados(g)
      BY <1>1, <1>3 DEF Marcados, Guardados
    <2>2. Disculpa(m, n, g)
      BY <2>1 DEF PredeterminadoUnico, Disculpa
    <2>3. \A d \in Redactores, k \in Lotes : VaADejarUno(d, k, g) => VaADejarUno(d, k, g)'
      BY <1>1 DEF VaADejarUno, Redacta
    <2> QED BY <1>1, <2>2, <2>3 DEF Disculpa
  <1> QED BY <1>2, <1>3

(* The details of a row change, or whether it is deleted; the save goes on. *)
LEMMA UnicoAlCambiarOtraCosa ==
  ASSUME Formados, PredeterminadoUnico,
         \A k \in Lotes : k \in Guardados' =>
             /\ k \in Guardados
             /\ predefinidos'[k].defecto = predefinidos[k].defecto
             /\ predefinidos'[k].gestion = predefinidos[k].gestion,
         \A d \in Redactores : Redacta(d) =>
             /\ Redacta(d)' /\ redaccion'[d].lote = redaccion[d].lote
             /\ redaccion'[d].defecto = redaccion[d].defecto
             /\ redaccion'[d].gestion = redaccion[d].gestion,
         UNCHANGED cortados
  PROVE  PredeterminadoUnico'
  <1>1. \A g \in Gestiones : Marcados(g)' \subseteq Marcados(g)
    BY DEF Marcados, Guardados
  <1>2. \A d \in Redactores, l \in Lotes, g \in Gestiones :
            VaADejarUno(d, l, g) => VaADejarUno(d, l, g)'
    BY DEF VaADejarUno
  <1> QED BY <1>1, <1>2, UnicoSiNadaNuevo

LEMMA UnicoAlSeguir ==
  ASSUME Formados, PredeterminadoUnico, NEW e \in Redactores, QuitarDetalles(e) \/ PonerDetalle(e)
  PROVE  PredeterminadoUnico'
  <1> DEFINE l == redaccion[e].lote
  <1>1. Redacta(e) /\ redaccion[e] \in Redaccion /\ l \in Lotes /\ l \in Guardados
    BY RedaccionConocida DEF Formados, LoteRedactado, QuitarDetalles, PonerDetalle, Poniendo
  <1>2. predefinidos[l] \in LotePruebasPredefinido
    BY <1>1, FilaConocida DEF Formados
  <1>3. PICK detalles : predefinidos' = [predefinidos EXCEPT ![l].detalles = detalles]
    BY DEF QuitarDetalles, PonerDetalle
  <1>4. \A k \in Lotes : k \in Guardados' =>
            /\ k \in Guardados
            /\ predefinidos'[k].defecto = predefinidos[k].defecto
            /\ predefinidos'[k].gestion = predefinidos[k].gestion
    BY <1>1, <1>2, <1>3 DEF Guardados, Formados, TiposPredefinidos, LotePruebasPredefinido
  <1>5. \A d \in Redactores : Redacta(d) =>
            /\ redaccion'[d].lote = redaccion[d].lote
            /\ redaccion'[d].defecto = redaccion[d].defecto
            /\ redaccion'[d].gestion = redaccion[d].gestion
    <2>1. \A d \in Redactores \ {e} : redaccion'[d] = redaccion[d]
      BY DEF QuitarDetalles, PonerDetalle, Formados, TiposPredefinidos
    <2>2. redaccion'[e].lote = l /\ redaccion'[e].defecto = redaccion[e].defecto
          /\ redaccion'[e].gestion = redaccion[e].gestion
      <3>1. CASE QuitarDetalles(e)
        <4>1. redaccion'[e] = [redaccion[e] EXCEPT !.paso = "poner"]
          BY <3>1 DEF QuitarDetalles, Formados, TiposPredefinidos
        <4> QED BY <1>1, <4>1 DEF Redaccion
      <3>2. CASE PonerDetalle(e)
        <4>1. redaccion'[e] = [redaccion[e] EXCEPT !.faltan = Tail(@)]
          BY <3>2 DEF PonerDetalle, Formados, TiposPredefinidos
        <4> QED BY <1>1, <4>1 DEF Redaccion
      <3> QED BY <3>1, <3>2
    <2> QED BY <2>1, <2>2
  <1>6. \A d \in Redactores : Redacta(d) => Redacta(d)'
    <2>1. \A d \in Redactores \ {e} : redaccion'[d] = redaccion[d]
      BY DEF QuitarDetalles, PonerDetalle, Formados, TiposPredefinidos
    <2>2. CASE QuitarDetalles(e)
      <3>1. redaccion'[e] = [redaccion[e] EXCEPT !.paso = "poner"]
        BY <2>2 DEF QuitarDetalles, Formados, TiposPredefinidos
      <3>2. redaccion'[e] \in Redaccion
        BY <1>1, <3>1 DEF Redaccion
      <3> QED BY <2>1, <3>2, SindatoAparte DEF Redacta
    <2>3. CASE PonerDetalle(e)
      <3>1. redaccion'[e] = [redaccion[e] EXCEPT !.faltan = Tail(@)]
        BY <2>3 DEF PonerDetalle, Formados, TiposPredefinidos
      <3>2. Tail(redaccion[e].faltan) \in Seq(Detalles)
        BY <1>1, <2>3, HeadTailProperties DEF PonerDetalle, Redaccion
      <3>3. redaccion'[e] \in Redaccion
        BY <1>1, <3>1, <3>2 DEF Redaccion
      <3> QED BY <2>1, <3>3, SindatoAparte DEF Redacta
    <2> QED BY <2>2, <2>3
  <1>7. UNCHANGED cortados
    BY DEF QuitarDetalles, PonerDetalle
  <1> QED BY <1>4, <1>5, <1>6, <1>7, UnicoAlCambiarOtraCosa

LEMMA UnicoAlMarcar ==
  ASSUME Formados, PredeterminadoUnico, NEW l \in Lotes, NEW activo \in BOOLEAN,
         MarcarActivo(l, activo)
  PROVE  PredeterminadoUnico'
  <1>1. l \in Guardados /\ predefinidos[l] \in LotePruebasPredefinido
    BY FilaConocida DEF MarcarActivo, Formados
  <1>2. \A k \in Lotes : k \in Guardados' =>
            /\ k \in Guardados
            /\ predefinidos'[k].defecto = predefinidos[k].defecto
            /\ predefinidos'[k].gestion = predefinidos[k].gestion
    BY <1>1 DEF MarcarActivo, Guardados, Formados, TiposPredefinidos, LotePruebasPredefinido
  <1> QED BY <1>2, UnicoAlCambiarOtraCosa DEF MarcarActivo, Redacta

(* A save that ends half-way leaves its batch among the ones cut off. *)
LEMMA UnicoAlCortar ==
  ASSUME Formados, PredeterminadoUnico, NEW e \in Redactores, Redacta(e), Cortar(e)
  PROVE  PredeterminadoUnico'
  <1>1. \A g \in Gestiones : Marcados(g)' \subseteq Marcados(g)
    BY DEF Cortar, Marcados, Guardados
  <1>2. \A d \in Redactores, l \in Lotes, g \in Gestiones :
            VaADejarUno(d, l, g) => VaADejarUno(d, l, g)' \/ l \in cortados'
    BY DEF Cortar, VaADejarUno, Redacta, Formados, TiposPredefinidos
  <1> QED BY <1>1, <1>2, UnicoSiNadaNuevo DEF Cortar

(* A save that ends takes the mark of the others of its type; the pairs it *)
(* does not touch are excused by somebody else.                            *)
LEMMA UnicoAlDejarUno ==
  ASSUME Formados, PredeterminadoUnico, NEW e \in Redactores, DejarUno(e)
  PROVE  PredeterminadoUnico'
  <1> SUFFICES ASSUME NEW g \in Gestiones, NEW m \in Marcados(g)', NEW n \in Marcados(g)', m # n
               PROVE  Disculpa(m, n, g)'
    BY DEF PredeterminadoUnico, Disculpa
  <1>1. /\ Redacta(e) /\ cortados' = cortados
        /\ \A d \in Redactores \ {e} : redaccion'[d] = redaccion[d]
    BY DEF DejarUno, Poniendo, Formados, TiposPredefinidos
  <1>2. \A k \in Marcados(g)' : k \in Lotes /\ k \in Guardados
    BY DEF DejarUno, Marcados, Guardados
  <1>3. \A k \in Marcados(g)' : ~PierdeLaMarca(redaccion[e], k) /\ k \in Marcados(g)
    <2> TAKE k \in Marcados(g)'
    <2>1. k \in Lotes /\ k \in Guardados /\ predefinidos[k] \in LotePruebasPredefinido
      BY <1>2, FilaConocida DEF Formados
    <2>2. predefinidos'[k] = IF PierdeLaMarca(redaccion[e], k)
                             THEN [predefinidos[k] EXCEPT !.defecto = FALSE] ELSE predefinidos[k]
      BY <2>1 DEF DejarUno
    <2>3. predefinidos'[k].defecto /\ predefinidos'[k].gestion = g
      BY DEF Marcados
    <2> QED BY <2>1, <2>2, <2>3 DEF Marcados, LotePruebasPredefinido
  <1>4. m \in Marcados(g) /\ n \in Marcados(g) /\ m \in Lotes /\ n \in Lotes
    BY <1>2, <1>3
  <1>5. ~VaADejarUno(e, m, g) /\ ~VaADejarUno(e, n, g)
    <2>1. g # SINDATO
      BY SindatoAparte
    <2>2. predefinidos[m].gestion = g /\ predefinidos[n].gestion = g
      BY <1>4 DEF Marcados
    <2> QED BY <1>3, <2>1, <2>2 DEF VaADejarUno, PierdeLaMarca
  <1>6. Disculpa(m, n, g)
    BY <1>4 DEF PredeterminadoUnico, Disculpa
  <1>7. \A d \in Redactores \ {e}, k \in Lotes : VaADejarUno(d, k, g) => VaADejarUno(d, k, g)'
    BY <1>1 DEF VaADejarUno, Redacta
  <1> QED BY <1>1, <1>4, <1>5, <1>6, <1>7 DEF Disculpa

LEMMA UnicoPaso ==
  Formados /\ PredeterminadoUnico /\ [NextPredefinidos]_varsPredefinidos => PredeterminadoUnico'
  <1> SUFFICES ASSUME Formados, PredeterminadoUnico, [NextPredefinidos]_varsPredefinidos
               PROVE  PredeterminadoUnico'
    OBVIOUS
  <1>1. ASSUME NEW e \in Redactores, NEW l \in Lotes, NEW gestion \in Gestiones \cup {SINDATO},
               NEW defecto \in BOOLEAN, NEW activo \in BOOLEAN, NEW detalles \in ListasEnviadas,
               GuardarPredefinido(e, l, gestion, defecto, activo, detalles)
        PROVE  PredeterminadoUnico'
    BY <1>1, UnicoAlGuardar
  <1>2. ASSUME NEW e \in Redactores, QuitarDetalles(e) \/ PonerDetalle(e)
        PROVE  PredeterminadoUnico'
    BY <1>2, UnicoAlSeguir
  <1>3. ASSUME NEW e \in Redactores, FallarDetalle(e) \/ CaerRedaccion(e)
        PROVE  PredeterminadoUnico'
    BY <1>3, UnicoAlCortar DEF FallarDetalle, CaerRedaccion, Poniendo
  <1>4. ASSUME NEW e \in Redactores, DejarUno(e) PROVE PredeterminadoUnico'
    BY <1>4, UnicoAlDejarUno
  <1>5. ASSUME NEW l \in Lotes, EliminarPredefinido(l) \/ RestaurarPredefinido(l)
        PROVE  PredeterminadoUnico'
    BY <1>5, UnicoAlMarcar DEF EliminarPredefinido, RestaurarPredefinido
  <1>6. ASSUME UNCHANGED varsPredefinidos PROVE PredeterminadoUnico'
    BY <1>6 DEF varsPredefinidos, PredeterminadoUnico, Marcados, Guardados, VaADejarUno, Redacta
  <1> QED BY <1>1, <1>2, <1>3, <1>4, <1>5, <1>6 DEF NextPredefinidos

(* For any batches, types of management and number of overlapping saves, a *)
(* type has one batch by default, but while a save of one of the two is    *)
(* under way or after one that did not reach its end (_apply_default_logic *)
(* runs last, and looks at deleted batches too).                           *)
THEOREM PredeterminadoSiempreUnico == SpecPredefinidos => []PredeterminadoUnico
  <1>1. InitPredefinidos => PredeterminadoUnico
    BY DEF InitPredefinidos, PredeterminadoUnico, Marcados, Guardados
  <1> QED BY <1>1, FormadosSiempre, UnicoPaso, PTL DEF SpecPredefinidos
-----------------------------------------------------------------------------
(* Finite sets in order.  What the prover cannot do by induction is done   *)
(* with a least set for which it would fail.                               *)
LEMMA HayMinimal ==
  ASSUME NEW D, IsFiniteSet(D), NEW B \in SUBSET (SUBSET D), B # {}
  PROVE  \E S \in B : \A T \in B : T \subseteq S => T = S
  <1>1. IsWellFoundedOn(StrictSubsetOrdering(D), FiniteSubsetsOf(D)) /\ FiniteSubsetsOf(D) = SUBSET D
    BY FS_StrictSubsetOrderingWellFounded, FS_FiniteSubsetsOfFinite
  <1>2. PICK S \in B : \A T \in B : ~(<<T, S>> \in StrictSubsetOrdering(D))
    BY <1>1, WFMin
  <1>3. \A T \in B : T \subseteq S /\ T # S => <<T, S>> \in StrictSubsetOrdering(D)
    BY DEF StrictSubsetOrdering
  <1>4. \A T \in B : T \subseteq S => T = S
    BY <1>2, <1>3
  <1> QED BY <1>4

OrdenTotal(D, R) ==
    /\ \A a, b \in D : a # b => <<a, b>> \in R \/ <<b, a>> \in R
    /\ \A a, b, c \in D : <<a, b>> \in R /\ <<b, c>> \in R => <<a, c>> \in R

Enumera(s, S, R) ==
    s \in [1..Cardinality(S) -> S] /\ \A i, j \in 1..Cardinality(S) : i < j => <<s[i], s[j]>> \in R

LEMMA HayUltimo ==
  ASSUME NEW D, IsFiniteSet(D), NEW R, OrdenTotal(D, R), NEW S \in SUBSET D, S # {}
  PROVE  \E m \in S : \A x \in S : x # m => <<x, m>> \in R
  <1> DEFINE Tiene(T) == \E m \in T : \A x \in T : x # m => <<x, m>> \in R
             B == {T \in SUBSET D : T # {} /\ ~Tiene(T)}
  <1> SUFFICES ASSUME B # {} PROVE FALSE
    OBVIOUS
  <1>0. B \in SUBSET (SUBSET D)
    OBVIOUS
  <1> HIDE DEF B
  <1>1. PICK T \in B : \A U \in B : U \subseteq T => U = T
    BY <1>0, HayMinimal
  <1> USE DEF B
  <1>2. PICK x : x \in T
    BY <1>1
  <1> DEFINE U == T \ {x}
  <1>3. T \subseteq D /\ T # {} /\ ~Tiene(T)
    BY <1>1
  <1>4. U # {}
    BY <1>2, <1>3
  <1>5. Tiene(U)
    <2>1. U \in SUBSET D /\ U \subseteq T /\ U # T
      BY <1>2, <1>3
    <2>2. U \notin B
      BY <1>1, <2>1
    <2> QED BY <1>4, <2>1, <2>2
  <1>6. PICK y \in U : \A z \in U : z # y => <<z, y>> \in R
    BY <1>5
  <1>7. CASE <<x, y>> \in R
    BY <1>2, <1>3, <1>6, <1>7
  <1>8. CASE <<y, x>> \in R
    <2>1. \A z \in T : z # x => <<z, x>> \in R
      BY <1>2, <1>3, <1>6, <1>8 DEF OrdenTotal
    <2> QED BY <1>2, <1>3, <2>1
  <1> QED BY <1>2, <1>3, <1>6, <1>7, <1>8 DEF OrdenTotal

LEMMA HayEnumeracion ==
  ASSUME NEW D, IsFiniteSet(D), NEW R, OrdenTotal(D, R)
  PROVE  \E s : Enumera(s, D, R)
  <1> DEFINE B == {T \in SUBSET D : ~\E s : Enumera(s, T, R)}
  <1> SUFFICES ASSUME B # {} PROVE FALSE
    OBVIOUS
  <1>0. B \in SUBSET (SUBSET D)
    OBVIOUS
  <1> HIDE DEF B
  <1>1. PICK T \in B : \A U \in B : U \subseteq T => U = T
    BY <1>0, HayMinimal
  <1> USE DEF B
  <1>2. T \subseteq D /\ ~\E s : Enumera(s, T, R)
    BY <1>1
  <1>3. IsFiniteSet(T) /\ Cardinality(T) \in Nat
    BY <1>2, FS_Subset, FS_CardinalityType
  <1>4. T # {}
    <2> SUFFICES ASSUME T = {} PROVE FALSE
      OBVIOUS
    <2>1. Cardinality(T) = 0
      BY FS_EmptySet
    <2>2. Enumera([i \in 1..0 |-> i], T, R)
      BY <2>1 DEF Enumera
    <2> QED BY <1>2, <2>2
  <1>5. PICK m \in T : \A x \in T : x # m => <<x, m>> \in R
    BY <1>2, <1>4, HayUltimo
  <1> DEFINE U == T \ {m}
             n == Cardinality(U)
  <1>6. n \in Nat /\ Cardinality(T) = n + 1
    <2>1. IsFiniteSet(U) /\ Cardinality(U) = Cardinality(T) - 1
      BY <1>3, <1>5, FS_RemoveElement
    <2>2. Cardinality(U) \in Nat
      BY <2>1, FS_CardinalityType
    <2> QED BY <1>3, <2>1, <2>2
  <1>7. U \notin B /\ U \in SUBSET D
    BY <1>1, <1>2, <1>5
  <1>8. PICK s : Enumera(s, U, R)
    BY <1>7
  <1>9. s \in [1..n -> U] /\ \A i, j \in 1..n : i < j => <<s[i], s[j]>> \in R
    BY <1>8 DEF Enumera
  <1> DEFINE t == [i \in 1..(n + 1) |-> IF i = n + 1 THEN m ELSE s[i]]
  <1> HIDE DEF n
  <1>10. \A i \in 1..(n + 1) : i # n + 1 => i \in 1..n
    BY <1>6
  <1>11. t \in [1..(n + 1) -> T] /\ \A i \in 1..n : t[i] = s[i] /\ s[i] \in U
    BY <1>5, <1>6, <1>9, <1>10
  <1>12. ASSUME NEW i \in 1..(n + 1), NEW j \in 1..(n + 1), i < j PROVE <<t[i], t[j]>> \in R
    <2>1. i \in 1..n
      BY <1>6, <1>12
    <2>2. CASE j = n + 1
      BY <1>5, <1>11, <2>1, <2>2
    <2>3. CASE j # n + 1
      BY <1>9, <1>10, <1>11, <1>12, <2>1, <2>3
    <2> QED BY <2>2, <2>3
  <1> HIDE DEF t
  <1>13. Enumera(t, T, R)
    BY <1>6, <1>11, <1>12 DEF Enumera
  <1> QED BY <1>2, <1>13

(* A list without repetitions, as long as a set has elements, has them all. *)
LEMMA SinRepetirEsTodo ==
  ASSUME NEW S, IsFiniteSet(S), NEW s \in [1..Cardinality(S) -> S],
         \A i, j \in 1..Cardinality(S) : i # j => s[i] # s[j]
  PROVE  \A x \in S : \E i \in 1..Cardinality(S) : s[i] = x
  <1> DEFINE n == Cardinality(S)
  <1>1. n \in Nat
    BY FS_CardinalityType
  <1> HIDE DEF n
  <1>2. s \in Injection(1..n, S)
    BY DEF Injection, IsInjective, n
  <1>3. Cardinality(1..n) = n
    <2>1. Cardinality(1..n) = IF 1 > n THEN 0 ELSE n - 1 + 1
      BY <1>1, FS_Interval
    <2> QED BY <1>1, <2>1
  <1>4. s \in Surjection(1..n, S)
    BY <1>2, <1>3, FS_Injection DEF n
  <1> QED BY <1>4 DEF Surjection, n

LEMMA DeMenorAMayorEs ==
  ASSUME NEW S \in SUBSET Nat, IsFiniteSet(S)
  PROVE  /\ DeMenorAMayor(S) \in Seq(S) /\ ToSet(DeMenorAMayor(S)) = S
         /\ DOMAIN DeMenorAMayor(S) = 1..Len(DeMenorAMayor(S)) /\ Len(DeMenorAMayor(S)) \in Nat
  <1> DEFINE n == Cardinality(S)
             R == {p \in S \X S : p[1] < p[2]}
             s == DeMenorAMayor(S)
  <1>1. n \in Nat
    BY FS_CardinalityType
  <1>2. \A a, b \in S : <<a, b>> \in R <=> a < b
    OBVIOUS
  <1>3. OrdenTotal(S, R)
    <2> HIDE DEF R
    <2> QED BY <1>2 DEF OrdenTotal
  <1>4. PICK t : Enumera(t, S, R)
    BY <1>3, HayEnumeracion
  <1> HIDE DEF R
  <1>5. t \in [1..n -> S] /\ \A i, j \in DOMAIN t : i < j => t[i] < t[j]
    BY <1>2, <1>4 DEF Enumera
  <1>6. s \in [1..n -> S] /\ \A i, j \in DOMAIN s : i < j => s[i] < s[j]
    BY <1>5 DEF DeMenorAMayor
  <1> HIDE DEF s
  <1> HIDE DEF n
  <1>7. \A i, j \in 1..n : i # j => s[i] # s[j]
    <2> SUFFICES ASSUME NEW i \in 1..n, NEW j \in 1..n, i # j PROVE s[i] # s[j]
      OBVIOUS
    <2>1. DOMAIN s = 1..n
      BY <1>6
    <2>2. s[i] \in Nat /\ s[j] \in Nat
      BY <1>6, <2>1
    <2>3. i < j \/ j < i
      BY <1>1
    <2>4. s[i] < s[j] \/ s[j] < s[i]
      BY <1>6, <2>1, <2>3
    <2> QED BY <2>2, <2>4
  <1>8. \A x \in S : \E i \in 1..n : s[i] = x
    BY <1>6, <1>7, SinRepetirEsTodo DEF n
  <1>9. s \in Seq(S) /\ DOMAIN s = 1..n /\ Len(s) = n
    BY <1>1, <1>6
  <1>10. \A x : x \in ToSet(s) <=> \E i \in 1..n : s[i] = x
    BY <1>9 DEF ToSet
  <1>11. ToSet(s) = S
    BY <1>6, <1>8, <1>10
  <1> QED BY <1>1, <1>9, <1>11 DEF s

-----------------------------------------------------------------------------
(* The values of a result and their workbook (Libro), for any fields,      *)
(* requests, lists of values and files.                                    *)

CamposPosibles == UNION {[K -> TiposDeDato] : K \in SUBSET (Casillas \cup {0})}
CeldasPosibles == UNION {[K -> Escritos] : K \in SUBSET (Casillas \cup {0})}
HojasPosibles  == UNION {[D -> CeldasPosibles] : D \in SUBSET PruebasMuestra}

EntradasDelLibro(listas, hojas, tipos) ==
    listas \subseteq Seq(Celda) /\ hojas \subseteq HojasPosibles /\ tipos \subseteq TiposDeDato

VersionGuardada ==
    [prueba : PruebasMuestra, campos : CamposPosibles \cup {NULO}, valores : Seq(Celda), leida : Nat,
     origen : HojasPosibles \cup {NULO}, primera : Nat]

FilaGuardada == [prueba : PruebasMuestra, version : Nat, historico : Seq(Nat)]

EscrituraPedida ==
    [prueba : PruebasMuestra, fila : Nat, leida : Nat, campos : CamposPosibles \cup {NULO},
     valores : Seq(Celda)]

SolicitudDeLibro ==
    [tipo : {"guardar", "corregir", "importar"}, escritas : Seq(EscrituraPedida),
     celdas : HojasPosibles \cup {NULO}, resto : Seq(PruebasMuestra), mezcla : Seq(Celda) \cup {NULO}]

LibroTipado ==
    /\ estructura \in CamposPosibles /\ DOMAIN estructura \subseteq Casillas
    /\ versiones \in Seq(VersionGuardada) /\ filas \in Seq(FilaGuardada)
    /\ solicitud \in [Clientes -> SolicitudDeLibro \cup {NULO}]
    /\ \A n \in DOMAIN filas : /\ filas[n].version \in DOMAIN versiones
                               /\ ToSet(filas[n].historico) \subseteq DOMAIN versiones

(* A version that a request which had not read it wrote over. *)
Perdida(i) ==
    \E j \in DOMAIN versiones : j > i /\ versiones[j].prueba = versiones[i].prueba /\ versiones[j].leida < i

(* A row keeps the versions of its test before its own; *)
FilaFiel(n) ==
    \A i \in DOMAIN versiones : versiones[i].prueba = filas[n].prueba /\ i < filas[n].version =>
        i \in ToSet(filas[n].historico) \/ Perdida(i)

(* a version is of a row, or of one that was stored later; *)
VersionFiel(i) ==
    /\ versiones[i].campos # NULO => Aceptados(versiones[i].campos, versiones[i].valores)
    /\ \E n \in DOMAIN filas : filas[n].prueba = versiones[i].prueba /\ i <= filas[n].version

(* and what a request is about to write was read from such a row.          *)
EscrituraFiel(w) ==
    /\ Aceptados(w.campos, w.valores)
    /\ w.fila = 0 => w.leida = 0
    /\ w.fila # 0 =>
          /\ w.fila \in DOMAIN filas /\ w.prueba = filas[w.fila].prueba
          /\ w.leida \in DOMAIN versiones /\ w.leida <= filas[w.fila].version
          /\ \A i \in DOMAIN versiones : versiones[i].prueba = w.prueba /\ i < w.leida =>
                i \in ToSet(filas[w.fila].historico) \/ Perdida(i)

EnEspera == \A c \in Clientes : ~Libre(c) =>
               \A k \in DOMAIN solicitud[c].escritas : EscrituraFiel(solicitud[c].escritas[k])

InvLibro ==
    /\ LibroTipado
    /\ \A i \in DOMAIN versiones : VersionFiel(i)
    /\ \A n \in DOMAIN filas : FilaFiel(n)
    /\ EnEspera

LEMMA ListaHecha ==
  ASSUME NEW S, NEW m \in Nat, NEW f \in [1..m -> S]
  PROVE  f \in Seq(S) /\ Len(f) = m /\ DOMAIN f = 1..m
  OBVIOUS

LEMMA TresCampos == ASSUME NEW e \in CamposPosibles
  PROVE  /\ DOMAIN e \in SUBSET (Casillas \cup {0}) /\ IsFiniteSet(DOMAIN e) /\ DOMAIN e \in SUBSET Nat
         /\ \A k \in DOMAIN e : e[k] \in TiposDeDato
  <1>1. PICK K \in SUBSET (Casillas \cup {0}) : e \in [K -> TiposDeDato]
    BY DEF CamposPosibles
  <1>2. IsFiniteSet(Casillas \cup {0})
    BY LibroEnOrden, FS_AddElement
  <1>3. IsFiniteSet(K)
    BY <1>2, FS_Subset
  <1> QED BY <1>1, <1>3, LibroEnOrden

LEMMA UnasCeldas == ASSUME NEW e \in CeldasPosibles
  PROVE  /\ DOMAIN e \in SUBSET (Casillas \cup {0}) /\ IsFiniteSet(DOMAIN e) /\ DOMAIN e \in SUBSET Nat
         /\ \A k \in DOMAIN e : e[k] \in Escritos
  <1>1. PICK K \in SUBSET (Casillas \cup {0}) : e \in [K -> Escritos]
    BY DEF CeldasPosibles
  <1>2. IsFiniteSet(Casillas \cup {0})
    BY LibroEnOrden, FS_AddElement
  <1>3. IsFiniteSet(K)
    BY <1>2, FS_Subset
  <1> QED BY <1>1, <1>3, LibroEnOrden

LEMMA UnaHoja == ASSUME NEW a \in HojasPosibles
  PROVE  /\ DOMAIN a \in SUBSET PruebasMuestra /\ IsFiniteSet(DOMAIN a) /\ DOMAIN a \in SUBSET Nat
         /\ \A p \in DOMAIN a : a[p] \in CeldasPosibles
  <1>1. PICK D \in SUBSET PruebasMuestra : a \in [D -> CeldasPosibles]
    BY DEF HojasPosibles
  <1>2. IsFiniteSet(D)
    BY LibroEnOrden, FS_Subset
  <1> QED BY <1>1, <1>2, LibroEnOrden

LEMMA CamposDeHoyTipados == ASSUME LibroTipado PROVE CamposDe(estructura) \in CamposPosibles
  <1>1. [k \in {0} |-> "decimal"] \in [{0} -> TiposDeDato] /\ {0} \in SUBSET (Casillas \cup {0})
    BY DEF TiposDeDato
  <1>2. [k \in {0} |-> "decimal"] \in CamposPosibles
    BY <1>1 DEF CamposPosibles
  <1> QED BY <1>2 DEF CamposDe, LibroTipado

LEMMA MaxEs ==
  ASSUME NEW T \in SUBSET Nat, T # {}, NEW n \in Nat, \A x \in T : x <= n
  PROVE  Max(T) \in T /\ \A y \in T : y <= Max(T)
  <1>1. PICK x \in T : \A y \in T : y <= x
    BY HayMaximo
  <1>2. \A y \in T : x >= y
    BY <1>1
  <1>3. Max(T) \in T /\ \A y \in T : Max(T) >= y
    BY <1>2 DEF Max
  <1> HIDE DEF Max
  <1> QED BY <1>3

(* What a transaction writes: the versions after those that were there, ...*)
LEMMA VersionesGuardadas ==
  ASSUME LibroTipado, NEW ws \in Seq(EscrituraPedida), NEW origen \in HojasPosibles \cup {NULO},
         Guardar(ws, origen)
  PROVE  /\ versiones' \in Seq(VersionGuardada)
         /\ Len(versiones) \in Nat /\ DOMAIN versiones = 1..Len(versiones)
         /\ Len(ws) \in Nat /\ DOMAIN ws = 1..Len(ws)
         /\ Len(versiones') = Len(versiones) + Len(ws) /\ DOMAIN versiones' = 1..Len(versiones')
         /\ \A i \in DOMAIN versiones : i \in DOMAIN versiones' /\ versiones'[i] = versiones[i]
         /\ \A k \in DOMAIN ws :
               /\ Len(versiones) + k \in DOMAIN versiones'
               /\ versiones'[Len(versiones) + k] =
                     [prueba |-> ws[k].prueba, campos |-> ws[k].campos, valores |-> ws[k].valores,
                      leida |-> ws[k].leida, origen |-> origen, primera |-> Len(versiones) + 1]
  <1> DEFINE base == Len(versiones)
             puesta(k) == [prueba |-> ws[k].prueba, campos |-> ws[k].campos, valores |-> ws[k].valores,
                           leida |-> ws[k].leida, origen |-> origen, primera |-> base + 1]
             nuevas == [k \in DOMAIN ws |-> puesta(k)]
  <1>1. versiones \in Seq(VersionGuardada) /\ base \in Nat /\ Len(ws) \in Nat /\ DOMAIN ws = 1..Len(ws)
    BY DEF LibroTipado
  <1>2. \A k \in DOMAIN ws : puesta(k) \in VersionGuardada
    <2> TAKE k \in DOMAIN ws
    <2>1. ws[k] \in EscrituraPedida
      OBVIOUS
    <2> QED BY <1>1, <2>1 DEF EscrituraPedida, VersionGuardada
  <1>3. nuevas \in [1..Len(ws) -> VersionGuardada]
    BY <1>1, <1>2
  <1>4. versiones' = versiones \o nuevas
    BY DEF Guardar
  <1>5. \A k \in DOMAIN ws : nuevas[k] = puesta(k)
    OBVIOUS
  <1> HIDE DEF nuevas, base, puesta
  <1>6. nuevas \in Seq(VersionGuardada) /\ Len(nuevas) = Len(ws) /\ DOMAIN nuevas = DOMAIN ws
    BY <1>1, <1>3, ListaHecha
  <1>7. versiones \o nuevas \in Seq(VersionGuardada)
    BY <1>1, <1>6
  <1>8. /\ DOMAIN versiones = 1..base /\ DOMAIN (versiones \o nuevas) = 1..Len(versiones \o nuevas)
        /\ Len(versiones \o nuevas) = base + Len(nuevas)
        /\ \A i \in DOMAIN versiones : /\ (versiones \o nuevas)[i] = versiones[i]
                                       /\ i \in DOMAIN (versiones \o nuevas)
        /\ \A i \in DOMAIN nuevas : /\ (versiones \o nuevas)[base + i] = nuevas[i]
                                    /\ base + i \in DOMAIN (versiones \o nuevas)
    BY <1>1, <1>6, Pegadas DEF base
  <1> QED BY <1>1, <1>4, <1>5, <1>6, <1>7, <1>8 DEF base, puesta

(* ... and the rows: of the last write of each, and one for each test that *)
(* had none.                                                               *)
Sobre(ws, n) == {i \in DOMAIN ws : ws[i].fila = n}

LEMMA FilasGuardadas ==
  ASSUME LibroTipado, NEW ws \in Seq(EscrituraPedida), NEW origen \in HojasPosibles \cup {NULO},
         Guardar(ws, origen)
  PROVE  /\ filas' \in Seq(FilaGuardada) /\ DOMAIN filas' = 1..Len(filas')
         /\ \A n \in DOMAIN filas :
               /\ n \in DOMAIN filas'
               /\ \/ Sobre(ws, n) = {} /\ filas'[n] = filas[n]
                  \/ \E i \in Sobre(ws, n) :
                        /\ \A k \in Sobre(ws, n) : k <= i
                        /\ filas'[n] = FilaEscrita(ws[i], Len(versiones) + i,
                                                   Append(filas[n].historico, ws[i].leida))
         /\ \A n \in DOMAIN filas' : n \notin DOMAIN filas =>
               \E k \in Sobre(ws, 0) : filas'[n] = FilaEscrita(ws[k], Len(versiones) + k, <<>>)
         /\ \A k \in Sobre(ws, 0) :
               \E n \in DOMAIN filas' : filas'[n] = FilaEscrita(ws[k], Len(versiones) + k, <<>>)
  <1> DEFINE base == Len(versiones)
             crean == DeMenorAMayor(Sobre(ws, 0))
             cambiada(n) == IF Sobre(ws, n) = {} THEN filas[n]
                            ELSE FilaEscrita(ws[Max(Sobre(ws, n))], base + Max(Sobre(ws, n)),
                                             Append(filas[n].historico, ws[Max(Sobre(ws, n))].leida))
             creada(k) == FilaEscrita(ws[k], base + k, <<>>)
             viejas == [n \in DOMAIN filas |-> cambiada(n)]
             nuevas == [j \in DOMAIN crean |-> creada(crean[j])]
  <1>1. /\ filas \in Seq(FilaGuardada) /\ base \in Nat /\ Len(ws) \in Nat /\ DOMAIN ws = 1..Len(ws)
        /\ Len(filas) \in Nat /\ DOMAIN filas = 1..Len(filas)
    BY DEF LibroTipado
  <1>2. filas' = viejas \o nuevas
    BY DEF Guardar, Sobre, Anterior
  <1>3. \A n : Sobre(ws, n) \in SUBSET (1..Len(ws)) /\ IsFiniteSet(Sobre(ws, n))
    <2>1. IsFiniteSet(1..Len(ws))
      BY <1>1, FS_Interval
    <2>2. \A n : Sobre(ws, n) \in SUBSET (1..Len(ws))
      BY <1>1 DEF Sobre
    <2> QED BY <2>1, <2>2, FS_Subset
  <1>4. \A n : Sobre(ws, n) # {} => /\ Max(Sobre(ws, n)) \in Sobre(ws, n)
                                    /\ \A k \in Sobre(ws, n) : k <= Max(Sobre(ws, n))
    <2> TAKE n
    <2>1. Sobre(ws, n) \in SUBSET Nat /\ \A k \in Sobre(ws, n) : k <= Len(ws)
      BY <1>1, <1>3
    <2> QED BY <1>1, <2>1, MaxEs
  <1>5. \A k \in DOMAIN ws : ws[k] \in EscrituraPedida /\ k \in Nat
    BY <1>1
  <1>6. \A k \in DOMAIN ws : \A h \in Seq(Nat) : FilaEscrita(ws[k], base + k, h) \in FilaGuardada
    BY <1>1, <1>5 DEF FilaEscrita, FilaGuardada, EscrituraPedida
  <1>7. \A n \in DOMAIN filas : cambiada(n) \in FilaGuardada
    <2> TAKE n \in DOMAIN filas
    <2>1. filas[n] \in FilaGuardada
      BY <1>1
    <2>2. \A k \in DOMAIN ws : Append(filas[n].historico, ws[k].leida) \in Seq(Nat)
      BY <1>5, <2>1 DEF FilaGuardada, EscrituraPedida
    <2>3. Sobre(ws, n) # {} => Max(Sobre(ws, n)) \in DOMAIN ws
      BY <1>4 DEF Sobre
    <2> HIDE DEF base
    <2> QED BY <1>6, <2>1, <2>2, <2>3
  <1>8. /\ crean \in Seq(Sobre(ws, 0)) /\ ToSet(crean) = Sobre(ws, 0)
        /\ DOMAIN crean = 1..Len(crean) /\ Len(crean) \in Nat
    BY <1>1, <1>3, DeMenorAMayorEs
  <1>9. \A j \in DOMAIN crean : crean[j] \in Sobre(ws, 0)
    BY <1>8
  <1>10. \A j \in DOMAIN crean : creada(crean[j]) \in FilaGuardada
    <2> HIDE DEF crean
    <2>1. \A j \in DOMAIN crean : crean[j] \in DOMAIN ws
      BY <1>9 DEF Sobre
    <2>2. \A k \in DOMAIN ws : creada(k) \in FilaGuardada
      BY <1>6, EmptySeq
    <2> HIDE DEF creada
    <2> QED BY <2>1, <2>2
  <1>11. viejas \in [1..Len(filas) -> FilaGuardada] /\ \A n \in DOMAIN filas : viejas[n] = cambiada(n)
    <2> HIDE DEF cambiada
    <2> QED BY <1>1, <1>7
  <1>12. nuevas \in [1..Len(crean) -> FilaGuardada] /\ \A j \in DOMAIN crean : nuevas[j] = creada(crean[j])
    <2> HIDE DEF creada, crean
    <2> QED BY <1>8, <1>10
  <1>13. \A n \in DOMAIN filas :
               \/ Sobre(ws, n) = {} /\ cambiada(n) = filas[n]
               \/ \E i \in Sobre(ws, n) :
                     /\ \A k \in Sobre(ws, n) : k <= i
                     /\ cambiada(n) = FilaEscrita(ws[i], base + i, Append(filas[n].historico, ws[i].leida))
    BY <1>4
  <1>14. \A k \in Sobre(ws, 0) : \E j \in DOMAIN crean : crean[j] = k
    BY <1>8 DEF ToSet
  <1> HIDE DEF viejas, nuevas, crean, creada, cambiada
  <1>15. /\ viejas \in Seq(FilaGuardada) /\ Len(viejas) = Len(filas) /\ DOMAIN viejas = DOMAIN filas
         /\ nuevas \in Seq(FilaGuardada) /\ Len(nuevas) = Len(crean) /\ DOMAIN nuevas = DOMAIN crean
    BY <1>1, <1>8, <1>11, <1>12, ListaHecha
  <1>16. /\ DOMAIN (viejas \o nuevas) = 1..Len(viejas \o nuevas)
         /\ Len(viejas \o nuevas) = Len(filas) + Len(crean)
         /\ \A n \in DOMAIN filas : (viejas \o nuevas)[n] = viejas[n] /\ n \in DOMAIN (viejas \o nuevas)
         /\ \A j \in DOMAIN crean : /\ (viejas \o nuevas)[Len(filas) + j] = nuevas[j]
                                    /\ Len(filas) + j \in DOMAIN (viejas \o nuevas)
    <2>1. /\ DOMAIN (viejas \o nuevas) = 1..Len(viejas \o nuevas)
          /\ Len(viejas \o nuevas) = Len(viejas) + Len(nuevas)
          /\ \A n \in DOMAIN viejas : (viejas \o nuevas)[n] = viejas[n] /\ n \in DOMAIN (viejas \o nuevas)
          /\ \A j \in DOMAIN nuevas : /\ (viejas \o nuevas)[Len(viejas) + j] = nuevas[j]
                                      /\ Len(viejas) + j \in DOMAIN (viejas \o nuevas)
      BY <1>15, Pegadas
    <2> QED BY <1>15, <2>1
  <1>17. filas' \in Seq(FilaGuardada) /\ DOMAIN filas' = 1..Len(filas')
    BY <1>2, <1>15, <1>16
  <1>18. ASSUME NEW n \in DOMAIN filas', n \notin DOMAIN filas
         PROVE  \E k \in Sobre(ws, 0) : filas'[n] = FilaEscrita(ws[k], base + k, <<>>)
    <2>1. n - Len(filas) \in DOMAIN crean /\ Len(filas) + (n - Len(filas)) = n
      BY <1>1, <1>2, <1>8, <1>16, <1>18
    <2>2. filas'[n] = creada(crean[n - Len(filas)])
      BY <1>2, <1>12, <1>16, <2>1
    <2> QED BY <1>9, <2>1, <2>2 DEF creada
  <1>19. ASSUME NEW k \in Sobre(ws, 0)
         PROVE  \E n \in DOMAIN filas' : filas'[n] = FilaEscrita(ws[k], base + k, <<>>)
    <2>1. PICK j \in DOMAIN crean : crean[j] = k
      BY <1>14
    <2> QED BY <1>2, <1>12, <1>16, <2>1 DEF creada
  <1>20. \A n \in DOMAIN filas : n \in DOMAIN filas' /\ filas'[n] = cambiada(n)
    BY <1>2, <1>11, <1>16
  <1> QED BY <1>13, <1>17, <1>18, <1>19, <1>20 DEF base

LEMMA InvAlGuardar ==
  ASSUME InvLibro, NEW ws \in Seq(EscrituraPedida), NEW origen \in HojasPosibles \cup {NULO},
         Guardar(ws, origen), \A k \in DOMAIN ws : EscrituraFiel(ws[k]),
         estructura' = estructura, NEW c \in Clientes, Despachar(c)
  PROVE  InvLibro'
  <1> DEFINE base == Len(versiones)
  <1>1. /\ LibroTipado /\ filas \in Seq(FilaGuardada) /\ DOMAIN filas = 1..Len(filas)
        /\ \A i \in DOMAIN versiones : VersionFiel(i)
        /\ \A n \in DOMAIN filas : /\ FilaFiel(n) /\ filas[n] \in FilaGuardada
                                   /\ filas[n].version \in DOMAIN versiones
                                   /\ ToSet(filas[n].historico) \subseteq DOMAIN versiones
    BY DEF InvLibro, LibroTipado
  <1>2. /\ versiones' \in Seq(VersionGuardada)
        /\ base \in Nat /\ DOMAIN versiones = 1..base /\ Len(ws) \in Nat /\ DOMAIN ws = 1..Len(ws)
        /\ Len(versiones') = base + Len(ws) /\ DOMAIN versiones' = 1..Len(versiones')
        /\ \A i \in DOMAIN versiones : i \in DOMAIN versiones' /\ versiones'[i] = versiones[i]
        /\ \A k \in DOMAIN ws :
              /\ base + k \in DOMAIN versiones'
              /\ versiones'[base + k] =
                    [prueba |-> ws[k].prueba, campos |-> ws[k].campos, valores |-> ws[k].valores,
                     leida |-> ws[k].leida, origen |-> origen, primera |-> base + 1]
    BY <1>1, VersionesGuardadas
  <1>3. \A k \in DOMAIN ws : /\ versiones'[base + k].prueba = ws[k].prueba
                             /\ versiones'[base + k].campos = ws[k].campos
                             /\ versiones'[base + k].valores = ws[k].valores
                             /\ versiones'[base + k].leida = ws[k].leida
    <2> HIDE DEF base
    <2> TAKE k \in DOMAIN ws
    <2> DEFINE v == versiones'[base + k]
    <2>1. v = [prueba |-> ws[k].prueba, campos |-> ws[k].campos, valores |-> ws[k].valores,
               leida |-> ws[k].leida, origen |-> origen, primera |-> base + 1]
      BY <1>2
    <2> HIDE DEF v
    <2>2. v.prueba = ws[k].prueba /\ v.campos = ws[k].campos /\ v.valores = ws[k].valores
          /\ v.leida = ws[k].leida
      BY <2>1
    <2> QED BY <2>2 DEF v
  <1>4. /\ filas' \in Seq(FilaGuardada) /\ DOMAIN filas' = 1..Len(filas')
        /\ \A n \in DOMAIN filas :
              /\ n \in DOMAIN filas'
              /\ \/ Sobre(ws, n) = {} /\ filas'[n] = filas[n]
                 \/ \E i \in Sobre(ws, n) :
                       /\ \A k \in Sobre(ws, n) : k <= i
                       /\ filas'[n] = FilaEscrita(ws[i], base + i, Append(filas[n].historico, ws[i].leida))
        /\ \A n \in DOMAIN filas' : n \notin DOMAIN filas =>
              \E k \in Sobre(ws, 0) : filas'[n] = FilaEscrita(ws[k], base + k, <<>>)
        /\ \A k \in Sobre(ws, 0) :
              \E n \in DOMAIN filas' : filas'[n] = FilaEscrita(ws[k], base + k, <<>>)
    BY <1>1, FilasGuardadas
  <1>5. \A k \in DOMAIN ws : /\ k \in Nat /\ k >= 1 /\ ws[k] \in EscrituraPedida /\ ws[k].leida \in 0..base
                             /\ ws[k].fila # 0 => ws[k].leida \in DOMAIN versiones
    BY <1>2 DEF EscrituraFiel
  <1>6. \A i \in DOMAIN versiones' : i \in DOMAIN versiones \/ \E k \in DOMAIN ws : i = base + k
    <2> TAKE i \in DOMAIN versiones'
    <2>1. CASE i <= base
      BY <1>2, <2>1
    <2>2. CASE i > base
      <3>1. i - base \in DOMAIN ws /\ i = base + (i - base)
        BY <1>2, <2>2
      <3> QED BY <3>1
    <2> QED BY <1>2, <2>1, <2>2
  <1> HIDE DEF base
  (* What was written over stays so; *)
  <1>7. \A i \in DOMAIN versiones : Perdida(i) => Perdida(i)'
    BY <1>2 DEF Perdida
  (* a write hides what was stored after it read. *)
  <1>8. ASSUME NEW k \in DOMAIN ws, NEW i \in DOMAIN versiones', i < base + k, ws[k].leida < i,
               versiones'[i].prueba = ws[k].prueba
        PROVE  Perdida(i)'
    <2>1. base + k \in DOMAIN versiones' /\ base + k > i
      BY <1>2, <1>5, <1>8
    <2>2. versiones'[base + k].prueba = versiones'[i].prueba /\ versiones'[base + k].leida < i
      BY <1>3, <1>8
    <2> QED BY <2>1, <2>2 DEF Perdida
  (* The history of a row grows, and its version does. *)
  <1>9. ASSUME NEW n \in DOMAIN filas
        PROVE  /\ filas'[n].prueba = filas[n].prueba /\ filas[n].version <= filas'[n].version
               /\ filas'[n].version \in DOMAIN versiones'
               /\ ToSet(filas[n].historico) \subseteq ToSet(filas'[n].historico)
               /\ ToSet(filas'[n].historico) \subseteq DOMAIN versiones'
               /\ FilaFiel(n)'
               /\ \A k \in Sobre(ws, n) : base + k <= filas'[n].version
    <2>1. CASE Sobre(ws, n) = {} /\ filas'[n] = filas[n]
      <3>1. ASSUME NEW i \in DOMAIN versiones', versiones'[i].prueba = filas[n].prueba, i < filas[n].version
            PROVE  i \in ToSet(filas[n].historico) \/ Perdida(i)'
        <4>1. i \in DOMAIN versiones /\ versiones'[i] = versiones[i]
          BY <1>1, <1>2, <3>1
        <4> QED BY <1>1, <1>7, <3>1, <4>1 DEF FilaFiel
      <3>2. FilaFiel(n)'
        BY <2>1, <3>1 DEF FilaFiel
      <3>3. filas[n].version \in DOMAIN versiones' /\ filas[n].version \in Nat
            /\ ToSet(filas[n].historico) \subseteq DOMAIN versiones'
        BY <1>1, <1>2
      <3> QED BY <2>1, <3>2, <3>3
    <2>2. ASSUME NEW i \in Sobre(ws, n), \A k \in Sobre(ws, n) : k <= i,
                 filas'[n] = FilaEscrita(ws[i], base + i, Append(filas[n].historico, ws[i].leida))
          PROVE  /\ filas'[n].prueba = filas[n].prueba /\ filas[n].version <= filas'[n].version
                 /\ filas'[n].version \in DOMAIN versiones'
                 /\ ToSet(filas[n].historico) \subseteq ToSet(filas'[n].historico)
                 /\ ToSet(filas'[n].historico) \subseteq DOMAIN versiones'
                 /\ FilaFiel(n)'
                 /\ \A k \in Sobre(ws, n) : base + k <= filas'[n].version
      <3> DEFINE w == ws[i]
                 h == Append(filas[n].historico, w.leida)
      <3>1. i \in DOMAIN ws /\ w.fila = n /\ n # 0 /\ EscrituraFiel(w)
        BY <1>1, <2>2 DEF Sobre
      <3>2. /\ filas'[n].prueba = w.prueba /\ filas'[n].version = base + i /\ filas'[n].historico = h
            /\ w.prueba = filas[n].prueba
        BY <2>2, <3>1 DEF FilaEscrita, EscrituraFiel
      <3>3. ToSet(h) = ToSet(filas[n].historico) \cup {w.leida}
        <4>1. filas[n].historico \in Seq(Nat) /\ w.leida \in Nat
          BY <1>1, <1>5, <3>1 DEF FilaGuardada, EscrituraPedida
        <4> HIDE DEF w
        <4>2. /\ DOMAIN h = 1..(Len(filas[n].historico) + 1) /\ Len(filas[n].historico) \in Nat
              /\ DOMAIN filas[n].historico = 1..Len(filas[n].historico)
              /\ h[Len(filas[n].historico) + 1] = w.leida
              /\ \A j \in 1..Len(filas[n].historico) : h[j] = filas[n].historico[j]
          BY <4>1
        <4> HIDE DEF h
        <4>3. \A x : x \in ToSet(h) <=> x \in ToSet(filas[n].historico) \/ x = w.leida
          BY <4>2 DEF ToSet
        <4> QED BY <4>3
      <3>4. w.leida \in DOMAIN versiones /\ base + i \in DOMAIN versiones'
        BY <1>2, <1>5, <3>1
      <3>5. ASSUME NEW j \in DOMAIN versiones', versiones'[j].prueba = w.prueba, j < base + i
            PROVE  j \in ToSet(h) \/ Perdida(j)'
        <4>1. CASE w.leida < j
          BY <1>8, <3>1, <3>5, <4>1
        <4>2. CASE j = w.leida
          BY <3>3, <4>2
        <4>3. CASE j < w.leida
          <5>1. j \in DOMAIN versiones /\ versiones'[j] = versiones[j]
            BY <1>2, <3>4, <4>3
          <5>2. j \in ToSet(filas[n].historico) \/ Perdida(j)
            BY <3>1, <3>5, <4>3, <5>1 DEF EscrituraFiel
          <5> QED BY <1>7, <3>3, <5>1, <5>2
        <4> QED BY <1>2, <3>4, <4>1, <4>2, <4>3
      <3>6. FilaFiel(n)'
        BY <3>2, <3>5 DEF FilaFiel
      <3>7. filas[n].version <= base + i
        BY <1>1, <1>2, <1>5, <3>1
      <3>8. \A k \in Sobre(ws, n) : base + k <= base + i
        BY <1>2, <1>5, <2>2 DEF Sobre
      <3>9. ToSet(filas[n].historico) \subseteq ToSet(h) /\ ToSet(h) \subseteq DOMAIN versiones'
        BY <1>1, <1>2, <3>3, <3>4
      <3> QED BY <3>2, <3>4, <3>6, <3>7, <3>8, <3>9
    <2> QED BY <1>4, <2>1, <2>2
  <1>10. ASSUME NEW n \in DOMAIN filas', n \notin DOMAIN filas
         PROVE  /\ FilaFiel(n)' /\ filas'[n].version \in DOMAIN versiones'
                /\ ToSet(filas'[n].historico) \subseteq DOMAIN versiones'
    <2>1. PICK k \in Sobre(ws, 0) : filas'[n] = FilaEscrita(ws[k], base + k, <<>>)
      BY <1>4, <1>10
    <2>2. k \in DOMAIN ws /\ ws[k].leida = 0
      BY <2>1 DEF Sobre, EscrituraFiel
    <2>3. filas'[n].prueba = ws[k].prueba /\ filas'[n].version = base + k /\ filas'[n].historico = <<>>
      BY <2>1 DEF FilaEscrita
    <2>4. \A j \in DOMAIN versiones' : versiones'[j].prueba = ws[k].prueba /\ j < base + k => Perdida(j)'
      <3> TAKE j \in DOMAIN versiones'
      <3>1. j > 0
        BY <1>2
      <3> QED BY <1>8, <2>2, <3>1
    <2>5. ToSet(<<>>) = {}
      BY DEF ToSet
    <2> QED BY <1>2, <2>2, <2>3, <2>4, <2>5 DEF FilaFiel
  <1>11. ASSUME NEW i \in DOMAIN versiones'
         PROVE  VersionFiel(i)'
    <2>1. CASE i \in DOMAIN versiones
      <3>1. PICK n \in DOMAIN filas : filas[n].prueba = versiones[i].prueba /\ i <= filas[n].version
        BY <1>1, <2>1 DEF VersionFiel
      <3>2. /\ n \in DOMAIN filas' /\ filas'[n].prueba = versiones'[i].prueba
            /\ i \in Nat /\ filas[n].version \in Nat /\ filas'[n].version \in Nat
            /\ filas[n].version <= filas'[n].version
        BY <1>1, <1>2, <1>4, <1>9, <2>1, <3>1
      <3>3. i <= filas'[n].version
        BY <3>1, <3>2
      <3>4. versiones'[i].campos # NULO => Aceptados(versiones'[i].campos, versiones'[i].valores)
        BY <1>1, <1>2, <2>1 DEF VersionFiel
      <3> QED BY <3>2, <3>3, <3>4 DEF VersionFiel
    <2>2. ASSUME NEW k \in DOMAIN ws, i = base + k PROVE VersionFiel(i)'
      <3>1. Aceptados(versiones'[i].campos, versiones'[i].valores)
        BY <1>3, <2>2 DEF EscrituraFiel
      <3>2. CASE ws[k].fila = 0
        <4>1. PICK n \in DOMAIN filas' : filas'[n] = FilaEscrita(ws[k], base + k, <<>>)
          BY <1>4, <3>2 DEF Sobre
        <4>2. filas'[n].prueba = versiones'[i].prueba /\ i <= filas'[n].version
          BY <1>2, <1>3, <2>2, <4>1 DEF FilaEscrita
        <4> QED BY <3>1, <4>2 DEF VersionFiel
      <3>3. CASE ws[k].fila # 0
        <4> DEFINE n == ws[k].fila
        <4>1. n \in DOMAIN filas /\ ws[k].prueba = filas[n].prueba /\ k \in Sobre(ws, n)
          BY <3>3 DEF EscrituraFiel, Sobre
        <4>2. n \in DOMAIN filas' /\ filas'[n].prueba = versiones'[i].prueba /\ i <= filas'[n].version
          BY <1>3, <1>4, <1>9, <2>2, <4>1
        <4> QED BY <3>1, <4>2 DEF VersionFiel
      <3> QED BY <3>2, <3>3
    <2> QED BY <1>6, <2>1, <2>2
  <1>12. ASSUME NEW w, EscrituraFiel(w) PROVE EscrituraFiel(w)'
    <2>1. CASE w.fila = 0
      BY <1>12, <2>1 DEF EscrituraFiel
    <2>2. CASE w.fila # 0
      <3> DEFINE n == w.fila
      <3>1. /\ n \in DOMAIN filas /\ w.prueba = filas[n].prueba
            /\ w.leida \in DOMAIN versiones /\ w.leida <= filas[n].version
            /\ Aceptados(w.campos, w.valores)
        BY <1>12, <2>2 DEF EscrituraFiel
      <3>2. w.leida <= filas'[n].version
        BY <1>1, <1>2, <1>9, <3>1
      <3>3. ASSUME NEW i \in DOMAIN versiones', versiones'[i].prueba = w.prueba, i < w.leida
            PROVE  i \in ToSet(filas'[n].historico) \/ Perdida(i)'
        <4>1. i \in DOMAIN versiones /\ versiones'[i] = versiones[i]
          BY <1>2, <3>1, <3>3
        <4>2. i \in ToSet(filas[n].historico) \/ Perdida(i)
          BY <1>12, <2>2, <3>3, <4>1 DEF EscrituraFiel
        <4> QED BY <1>7, <1>9, <3>1, <4>1, <4>2
      <3>4. n \in DOMAIN filas' /\ w.prueba = filas'[n].prueba /\ w.leida \in DOMAIN versiones'
        BY <1>2, <1>4, <1>9, <3>1
      <3> QED BY <2>2, <3>1, <3>2, <3>3, <3>4 DEF EscrituraFiel
    <2> QED BY <2>1, <2>2
  <1>13. solicitud' = [solicitud EXCEPT ![c] = NULO]
    BY DEF Despachar
  <1>14. EnEspera'
    <2> SUFFICES ASSUME NEW d \in Clientes, ~Libre(d)', NEW k \in DOMAIN solicitud'[d].escritas
                 PROVE  EscrituraFiel(solicitud[d].escritas[k])'
      BY DEF EnEspera
    <2>1. solicitud'[d] = solicitud[d] /\ ~Libre(d)
      BY <1>1, <1>13 DEF Libre, LibroTipado
    <2>2. PICK w : w = solicitud'[d].escritas[k]
      OBVIOUS
    <2>3. EscrituraFiel(w)
      BY <2>1, <2>2 DEF InvLibro, EnEspera
    <2>4. EscrituraFiel(w)'
      BY <1>12, <2>3
    <2> QED BY <2>2, <2>4 DEF EscrituraFiel, Perdida
  <1>15. LibroTipado'
    <2>1. solicitud' \in [Clientes -> SolicitudDeLibro \cup {NULO}]
      BY <1>1, <1>13 DEF LibroTipado
    <2>2. \A n \in DOMAIN filas' : /\ filas'[n].version \in DOMAIN versiones'
                                   /\ ToSet(filas'[n].historico) \subseteq DOMAIN versiones'
      BY <1>9, <1>10
    <2> QED BY <1>1, <1>2, <1>4, <2>1, <2>2 DEF LibroTipado
  <1>16. \A n \in DOMAIN filas' : FilaFiel(n)'
    BY <1>9, <1>10
  <1> QED BY <1>11, <1>14, <1>15, <1>16 DEF InvLibro

(* The row a request reads for a test, and what it is about to write.      *)
LEMMA FilaActivaEs ==
  ASSUME InvLibro, NEW p
  PROVE  LET n == FilaActiva(p) IN
         /\ n = 0 => \A m \in DOMAIN filas : filas[m].prueba # p
         /\ n # 0 => /\ n \in DOMAIN filas /\ filas[n].prueba = p
                     /\ \A m \in DOMAIN filas : filas[m].prueba = p => filas[m].version <= filas[n].version
  <1> DEFINE suyas == {m \in DOMAIN filas : filas[m].prueba = p}
             T == {filas[m].version : m \in suyas}
             mayor(n) == \A otra \in suyas : filas[otra].version <= filas[n].version
  <1>1. /\ DOMAIN filas \in SUBSET (Nat \ {0}) /\ Len(versiones) \in Nat
        /\ DOMAIN versiones = 1..Len(versiones)
        /\ \A m \in DOMAIN filas : filas[m].version \in DOMAIN versiones
    BY DEF InvLibro, LibroTipado
  <1>2. CASE suyas = {}
    BY <1>1, <1>2 DEF FilaActiva
  <1>3. CASE suyas # {}
    <2>1. T \in SUBSET Nat /\ T # {} /\ \A x \in T : x <= Len(versiones)
      BY <1>1, <1>3
    <2>2. PICK x \in T : \A y \in T : y <= x
      BY <1>1, <2>1, HayMaximo
    <2>3. \E n \in suyas : mayor(n)
      BY <2>2
    <2>4. FilaActiva(p) = CHOOSE n \in suyas : mayor(n)
      BY <1>3 DEF FilaActiva
    <2>5. FilaActiva(p) \in suyas /\ mayor(FilaActiva(p))
      BY <2>3, <2>4
    <2> QED BY <1>1, <2>5
  <1> QED BY <1>2, <1>3

LEMMA EscrituraRecienLeida ==
  ASSUME InvLibro, NEW p \in PruebasMuestra, NEW n \in Nat, NEW pedidos \in CamposPosibles \cup {NULO},
         NEW valores \in Seq(Celda), Aceptados(pedidos, valores),
         n # 0 => n \in DOMAIN filas /\ filas[n].prueba = p
  PROVE  EscrituraFiel(Escritura(p, n, pedidos, valores)) /\ Escritura(p, n, pedidos, valores) \in EscrituraPedida
  <1> DEFINE w == Escritura(p, n, pedidos, valores)
  <1>1. /\ w.prueba = p /\ w.fila = n /\ w.campos = pedidos /\ w.valores = valores
        /\ w.leida = IF n = 0 THEN 0 ELSE filas[n].version
    BY DEF Escritura, VersionDe
  <1>2. DOMAIN versiones \in SUBSET Nat /\ (n # 0 => filas[n].version \in DOMAIN versiones)
    BY DEF InvLibro, LibroTipado
  <1>3. w \in EscrituraPedida
    BY <1>2 DEF Escritura, VersionDe, EscrituraPedida
  <1> HIDE DEF w
  <1>4. n # 0 => /\ w.leida <= filas[n].version
                 /\ \A i \in DOMAIN versiones : versiones[i].prueba = p /\ i < w.leida =>
                       i \in ToSet(filas[n].historico) \/ Perdida(i)
    BY <1>1, <1>2 DEF InvLibro, FilaFiel
  <1>5. EscrituraFiel(w)
    BY <1>1, <1>2, <1>4 DEF EscrituraFiel
  <1> QED BY <1>3, <1>5 DEF w

LEMMA InvAlPedir ==
  ASSUME InvLibro, UNCHANGED <<filas, versiones>>,
         estructura' \in CamposPosibles, DOMAIN estructura' \subseteq Casillas,
         solicitud' \in [Clientes -> SolicitudDeLibro \cup {NULO}],
         \A d \in Clientes : \/ solicitud'[d] = solicitud[d]
                             \/ \A k \in DOMAIN solicitud'[d].escritas : EscrituraFiel(solicitud'[d].escritas[k])
  PROVE  InvLibro'
  <1>1. (\A i : VersionFiel(i) => VersionFiel(i)') /\ (\A n : FilaFiel(n) => FilaFiel(n)')
    BY DEF VersionFiel, FilaFiel, Perdida
  <1>2. \A w : EscrituraFiel(w) => EscrituraFiel(w)'
    BY DEF EscrituraFiel, Perdida
  <1>3. EnEspera'
    <2> SUFFICES ASSUME NEW d \in Clientes, ~Libre(d)', NEW k \in DOMAIN solicitud'[d].escritas
                 PROVE  EscrituraFiel(solicitud[d].escritas[k])'
      BY DEF EnEspera
    <2>1. PICK w : w = solicitud'[d].escritas[k]
      OBVIOUS
    <2>2. CASE solicitud'[d] = solicitud[d]
      BY <2>1, <2>2 DEF InvLibro, EnEspera, Libre, EscrituraFiel, Perdida
    <2>3. CASE \A j \in DOMAIN solicitud'[d].escritas : EscrituraFiel(solicitud'[d].escritas[j])
      <3>1. EscrituraFiel(w)'
        BY <1>2, <2>1, <2>3
      <3> QED BY <2>1, <3>1 DEF EscrituraFiel, Perdida
    <2> QED BY <2>2, <2>3
  <1>4. LibroTipado'
    BY DEF InvLibro, LibroTipado
  <1> QED BY <1>1, <1>3, <1>4 DEF InvLibro

LEMMA InvAlSolicitar ==
  ASSUME InvLibro, NEW c \in Clientes, UNCHANGED <<estructura, filas, versiones>>,
         NEW r \in SolicitudDeLibro, \A k \in DOMAIN r.escritas : EscrituraFiel(r.escritas[k]),
         solicitud' = [solicitud EXCEPT ![c] = r]
  PROVE  InvLibro'
  <1>1. solicitud \in [Clientes -> SolicitudDeLibro \cup {NULO}]
    BY DEF InvLibro, LibroTipado
  <1>2. solicitud' \in [Clientes -> SolicitudDeLibro \cup {NULO}]
    BY <1>1
  <1>3. \A d \in Clientes : solicitud'[d] = IF d = c THEN r ELSE solicitud[d]
    BY <1>1
  <1>4. \A d \in Clientes : \/ solicitud'[d] = solicitud[d]
                            \/ \A k \in DOMAIN solicitud'[d].escritas : EscrituraFiel(solicitud'[d].escritas[k])
    BY <1>3
  <1>5. estructura' \in CamposPosibles /\ DOMAIN estructura' \subseteq Casillas
    BY DEF InvLibro, LibroTipado
  <1> QED BY <1>2, <1>4, <1>5, InvAlPedir

(* The stored values with the cells over them: every cell is there, and no *)
(* other value is under its field.                                         *)
Lleva(valores, celdas) ==
    /\ \A k \in DOMAIN celdas : [clave |-> k, valor |-> celdas[k]] \in ToSet(valores)
    /\ \A c \in ToSet(valores) : c.clave \in DOMAIN celdas => c.valor = celdas[c.clave]

LEMMA MezclaLleva ==
  ASSUME NEW valores \in Seq(Celda), NEW celdas \in CeldasPosibles
  PROVE  Mezcla(valores, celdas) \in Seq(Celda) /\ Lleva(Mezcla(valores, celdas), celdas)
  <1> DEFINE puestas == {c.clave : c \in ToSet(valores)}
             nuevas == DeMenorAMayor(DOMAIN celdas \ puestas)
             viejo(i) == IF valores[i].clave \in DOMAIN celdas
                         THEN [valores[i] EXCEPT !.valor = celdas[valores[i].clave]] ELSE valores[i]
             nuevo(j) == [clave |-> nuevas[j], valor |-> celdas[nuevas[j]]]
             F == [i \in DOMAIN valores |-> viejo(i)]
             G == [j \in DOMAIN nuevas |-> nuevo(j)]
  <1>1. /\ DOMAIN celdas \in SUBSET (Casillas \cup {0}) /\ DOMAIN celdas \in SUBSET Nat
        /\ IsFiniteSet(DOMAIN celdas) /\ \A k \in DOMAIN celdas : celdas[k] \in Escritos
    BY UnasCeldas
  <1>2. DOMAIN celdas \ puestas \in SUBSET Nat /\ IsFiniteSet(DOMAIN celdas \ puestas)
    BY <1>1, FS_Subset
  <1>3. /\ nuevas \in Seq(DOMAIN celdas \ puestas) /\ ToSet(nuevas) = DOMAIN celdas \ puestas
        /\ DOMAIN nuevas = 1..Len(nuevas) /\ Len(nuevas) \in Nat
    <2> HIDE DEF puestas
    <2> QED BY <1>2, DeMenorAMayorEs
  <1> HIDE DEF nuevas
  <1>4. Len(valores) \in Nat /\ DOMAIN valores = 1..Len(valores) /\ \A i \in DOMAIN valores : valores[i] \in Celda
    OBVIOUS
  <1>5. \A i \in DOMAIN valores :
           /\ viejo(i) \in Celda /\ viejo(i).clave = valores[i].clave
           /\ valores[i].clave \in DOMAIN celdas => viejo(i).valor = celdas[valores[i].clave]
    BY <1>1, <1>4 DEF Celda
  <1>6. \A j \in DOMAIN nuevas : nuevas[j] \in DOMAIN celdas \ puestas
    BY <1>3
  <1>7. \A j \in DOMAIN nuevas : nuevo(j) \in Celda
    BY <1>1, <1>6 DEF Celda
  <1>8. F \in [1..Len(valores) -> Celda] /\ \A i \in DOMAIN valores : F[i] = viejo(i)
    BY <1>4, <1>5
  <1>9. G \in [1..Len(nuevas) -> Celda] /\ \A j \in DOMAIN nuevas : G[j] = nuevo(j)
    BY <1>3, <1>7
  <1>10. Mezcla(valores, celdas) = F \o G
    BY DEF Mezcla, nuevas
  <1> HIDE DEF F, G, viejo
  <1>11. /\ F \in Seq(Celda) /\ DOMAIN F = DOMAIN valores
         /\ G \in Seq(Celda) /\ DOMAIN G = DOMAIN nuevas
    BY <1>3, <1>4, <1>8, <1>9, ListaHecha
  <1>12. F \o G \in Seq(Celda)
    BY <1>11
  <1> DEFINE s == F \o G
  <1>13. /\ Len(F) \in Nat /\ Len(G) \in Nat /\ DOMAIN F = 1..Len(F) /\ DOMAIN G = 1..Len(G)
         /\ DOMAIN s = 1..Len(s) /\ Len(s) = Len(F) + Len(G)
         /\ \A i \in DOMAIN F : s[i] = F[i] /\ i \in DOMAIN s
         /\ \A j \in DOMAIN G : s[Len(F) + j] = G[j] /\ Len(F) + j \in DOMAIN s
    BY <1>11, Pegadas
  <1> HIDE DEF s
  <1>14. \A k \in DOMAIN s : (\E i \in DOMAIN valores : s[k] = viejo(i)) \/ \E j \in DOMAIN nuevas : s[k] = nuevo(j)
    <2> TAKE k \in DOMAIN s
    <2>1. CASE k <= Len(F)
      BY <1>8, <1>11, <1>13, <2>1
    <2>2. CASE k > Len(F)
      <3>1. k - Len(F) \in DOMAIN G /\ k = Len(F) + (k - Len(F))
        BY <1>13, <2>2
      <3> DEFINE j == k - Len(F)
      <3>2. s[k] = G[j] /\ G[j] = nuevo(j) /\ j \in DOMAIN nuevas
        BY <1>9, <1>11, <1>13, <3>1
      <3> HIDE DEF j, nuevo
      <3> QED BY <3>2
    <2> QED BY <1>13, <2>1, <2>2
  <1>15. ASSUME NEW c \in ToSet(s), c.clave \in DOMAIN celdas PROVE c.valor = celdas[c.clave]
    BY <1>5, <1>14, <1>15 DEF ToSet
  <1>16. ASSUME NEW k \in DOMAIN celdas PROVE [clave |-> k, valor |-> celdas[k]] \in ToSet(s)
    <2>1. CASE k \in puestas
      <3>1. PICK i \in DOMAIN valores : valores[i].clave = k
        BY <2>1 DEF ToSet
      <3>2. viejo(i) \in Celda /\ viejo(i).clave = k /\ viejo(i).valor = celdas[k]
        BY <1>5, <3>1
      <3>3. viejo(i) = [clave |-> k, valor |-> celdas[k]]
        BY <3>2 DEF Celda
      <3>4. s[i] = viejo(i) /\ i \in DOMAIN s
        BY <1>8, <1>11, <1>13
      <3> QED BY <3>3, <3>4 DEF ToSet
    <2>2. CASE k \notin puestas
      <3> HIDE DEF puestas
      <3>1. PICK j \in DOMAIN nuevas : nuevas[j] = k
        BY <1>3, <2>2 DEF ToSet
      <3>2. s[Len(F) + j] = nuevo(j) /\ Len(F) + j \in DOMAIN s
        BY <1>9, <1>11, <1>13
      <3>3. nuevo(j) = [clave |-> k, valor |-> celdas[k]]
        BY <3>1
      <3> HIDE DEF nuevo
      <3>4. [clave |-> k, valor |-> celdas[k]] \in {s[i] : i \in DOMAIN s}
        BY <3>2, <3>3
      <3> QED BY <3>4 DEF ToSet
    <2> QED BY <2>1, <2>2
  <1>17. Lleva(s, celdas)
    BY <1>15, <1>16 DEF Lleva
  <1> QED BY <1>10, <1>12, <1>17 DEF s

-----------------------------------------------------------------------------
(* The import of a file, test by test. *)

ImportaBien(r) == r.tipo = "importar" =>
    /\ r.celdas \in HojasPosibles /\ ToSet(r.resto) \subseteq DOMAIN r.celdas
    /\ \A p \in DOMAIN r.celdas :
          \/ p \in ToSet(r.resto)
          \/ \E k \in DOMAIN r.escritas :
                r.escritas[k].prueba = p /\ Lleva(r.escritas[k].valores, r.celdas[p])
    /\ r.mezcla # NULO /\ r.resto # <<>> => Lleva(r.mezcla, r.celdas[Head(r.resto)])

ImportadaEntera(j) == versiones[j].origen # NULO =>
    \A p \in DOMAIN versiones[j].origen :
        \E i \in DOMAIN versiones :
            /\ versiones[i].primera = versiones[j].primera /\ versiones[i].prueba = p
            /\ Lleva(versiones[i].valores, versiones[j].origen[p])

InvImportacion ==
    /\ InvLibro
    /\ \A c \in Clientes : ~Libre(c) => ImportaBien(solicitud[c])
    /\ \A j \in DOMAIN versiones : ImportadaEntera(j)

LEMMA ImportacionAlSolicitar ==
  ASSUME InvImportacion, NEW c \in Clientes, UNCHANGED <<estructura, filas, versiones>>,
         NEW r \in SolicitudDeLibro, \A k \in DOMAIN r.escritas : EscrituraFiel(r.escritas[k]),
         ImportaBien(r), solicitud' = [solicitud EXCEPT ![c] = r]
  PROVE  InvImportacion'
  <1>1. InvLibro'
    BY InvAlSolicitar DEF InvImportacion
  <1>2. solicitud \in [Clientes -> SolicitudDeLibro \cup {NULO}]
    BY DEF InvImportacion, InvLibro, LibroTipado
  <1>3. \A d \in Clientes : solicitud'[d] = IF d = c THEN r ELSE solicitud[d]
    BY <1>2
  <1>4. ASSUME NEW d \in Clientes, ~Libre(d)' PROVE ImportaBien(solicitud'[d])
    BY <1>3, <1>4 DEF InvImportacion, Libre
  <1>5. \A j \in DOMAIN versiones' : ImportadaEntera(j)'
    BY DEF InvImportacion, ImportadaEntera
  <1>6. (\A d \in Clientes : ~Libre(d) => ImportaBien(solicitud[d]))'
    BY <1>4 DEF ImportaBien
  <1> QED BY <1>1, <1>5, <1>6 DEF InvImportacion

LEMMA ImportacionAlGuardar ==
  ASSUME InvImportacion, NEW ws \in Seq(EscrituraPedida), NEW origen \in HojasPosibles \cup {NULO},
         Guardar(ws, origen), \A k \in DOMAIN ws : EscrituraFiel(ws[k]),
         origen # NULO /\ ws # <<>> =>
            \A p \in DOMAIN origen :
               \E k \in DOMAIN ws : ws[k].prueba = p /\ Lleva(ws[k].valores, origen[p]),
         estructura' = estructura, NEW c \in Clientes, Despachar(c)
  PROVE  InvImportacion'
  <1> DEFINE base == Len(versiones)
             puesta(k) == [prueba |-> ws[k].prueba, campos |-> ws[k].campos, valores |-> ws[k].valores,
                           leida |-> ws[k].leida, origen |-> origen, primera |-> base + 1]
  <1>1. LibroTipado /\ InvLibro'
    BY InvAlGuardar DEF InvImportacion, InvLibro
  <1>2. /\ base \in Nat /\ DOMAIN versiones = 1..base /\ Len(ws) \in Nat /\ DOMAIN ws = 1..Len(ws)
        /\ Len(versiones') = base + Len(ws) /\ DOMAIN versiones' = 1..Len(versiones')
        /\ \A i \in DOMAIN versiones : i \in DOMAIN versiones' /\ versiones'[i] = versiones[i]
        /\ \A k \in DOMAIN ws : base + k \in DOMAIN versiones' /\ versiones'[base + k] = puesta(k)
    BY <1>1, VersionesGuardadas
  <1>3. \A k \in DOMAIN ws : /\ puesta(k).prueba = ws[k].prueba /\ puesta(k).valores = ws[k].valores
                             /\ puesta(k).origen = origen /\ puesta(k).primera = base + 1
    OBVIOUS
  <1> HIDE DEF base, puesta
  <1>4. \A i \in DOMAIN versiones' : i \in DOMAIN versiones \/ \E k \in DOMAIN ws : i = base + k
    <2> TAKE i \in DOMAIN versiones'
    <2>1. CASE i <= base
      BY <1>2, <2>1
    <2>2. CASE i > base
      <3>1. i - base \in DOMAIN ws /\ i = base + (i - base)
        BY <1>2, <2>2
      <3> QED BY <3>1
    <2> QED BY <1>2, <2>1, <2>2
  <1>5. ASSUME NEW j \in DOMAIN versiones' PROVE ImportadaEntera(j)'
    <2>1. CASE j \in DOMAIN versiones
      <3>1. ImportadaEntera(j) /\ versiones'[j] = versiones[j]
        BY <1>2, <2>1 DEF InvImportacion
      <3> QED BY <1>2, <3>1 DEF ImportadaEntera
    <2>2. ASSUME NEW k \in DOMAIN ws, j = base + k PROVE ImportadaEntera(j)'
      <3> SUFFICES ASSUME origen # NULO, NEW p \in DOMAIN origen
                   PROVE  \E i \in DOMAIN versiones' :
                             /\ versiones'[i].primera = base + 1 /\ versiones'[i].prueba = p
                             /\ Lleva(versiones'[i].valores, origen[p])
        <4>1. versiones'[j].origen = origen /\ versiones'[j].primera = base + 1
          BY <1>2, <1>3, <2>2
        <4> QED BY <4>1 DEF ImportadaEntera, Lleva
      <3>1. ws # <<>>
        BY <1>2
      <3>2. PICK h \in DOMAIN ws : ws[h].prueba = p /\ Lleva(ws[h].valores, origen[p])
        BY <3>1
      <3>3. base + h \in DOMAIN versiones' /\ versiones'[base + h] = puesta(h)
        BY <1>2
      <3>4. versiones'[base + h].primera = base + 1 /\ versiones'[base + h].prueba = p
            /\ versiones'[base + h].valores = ws[h].valores
        BY <1>3, <3>2, <3>3
      <3> QED BY <3>2, <3>3, <3>4
    <2> QED BY <1>4, <2>1, <2>2
  <1>6. \A d \in Clientes : solicitud'[d] = NULO \/ solicitud'[d] = solicitud[d]
    BY <1>1 DEF LibroTipado, Despachar
  <1>7. (\A d \in Clientes : ~Libre(d) => ImportaBien(solicitud[d]))'
    BY <1>6 DEF InvImportacion, ImportaBien, Libre
  <1> QED BY <1>1, <1>5, <1>7 DEF InvImportacion

LEMMA SolicitudConocida ==
  ASSUME InvImportacion, NEW c \in Clientes, ~Libre(c)
  PROVE  /\ solicitud[c] \in SolicitudDeLibro /\ ImportaBien(solicitud[c])
         /\ solicitud[c].escritas \in Seq(EscrituraPedida)
         /\ \A k \in DOMAIN solicitud[c].escritas : EscrituraFiel(solicitud[c].escritas[k])
  <1>1. solicitud[c] \in SolicitudDeLibro /\ ImportaBien(solicitud[c])
    BY DEF InvImportacion, InvLibro, LibroTipado, Libre
  <1>2. \A k \in DOMAIN solicitud[c].escritas : EscrituraFiel(solicitud[c].escritas[k])
    BY DEF InvImportacion, InvLibro, EnEspera
  <1> QED BY <1>1, <1>2 DEF SolicitudDeLibro

LEMMA PasoAlGuardar ==
  ASSUME InvImportacion, NEW c \in Clientes, EscribirGuardado(c) \/ FallarImportacion(c) \/ TerminarImportacion(c)
  PROVE  InvImportacion'
  <1> DEFINE r == solicitud[c]
  <1>1. /\ r \in SolicitudDeLibro /\ ImportaBien(r) /\ r.escritas \in Seq(EscrituraPedida)
        /\ \A k \in DOMAIN r.escritas : EscrituraFiel(r.escritas[k])
    BY SolicitudConocida DEF EscribirGuardado, FallarImportacion, TerminarImportacion, EnCurso
  <1>2. r.celdas \in HojasPosibles \cup {NULO}
    BY <1>1 DEF SolicitudDeLibro
  <1>3. CASE EscribirGuardado(c)
    <2>1. Guardar(r.escritas, NULO) /\ Despachar(c) /\ estructura' = estructura
      BY <1>3 DEF EscribirGuardado
    <2> HIDE DEF r
    <2> QED BY <1>1, <2>1, ImportacionAlGuardar
  <1>4. CASE FallarImportacion(c)
    <2>1. Guardar(<<>>, r.celdas) /\ Despachar(c) /\ estructura' = estructura
      BY <1>4 DEF FallarImportacion, TrasError
    <2>2. <<>> \in Seq(EscrituraPedida) /\ DOMAIN <<>> = {}
      OBVIOUS
    <2> HIDE DEF r
    <2> QED BY <1>2, <2>1, <2>2, ImportacionAlGuardar
  <1>5. CASE TerminarImportacion(c)
    <2>1. Guardar(r.escritas, r.celdas) /\ Despachar(c) /\ estructura' = estructura
          /\ r.tipo = "importar" /\ r.resto = <<>>
      BY <1>5 DEF TerminarImportacion
    <2>2. ToSet(r.resto) = {}
      BY <2>1 DEF ToSet
    <2> HIDE DEF r
    <2>3. \A p \in DOMAIN r.celdas :
             \E k \in DOMAIN r.escritas : r.escritas[k].prueba = p /\ Lleva(r.escritas[k].valores, r.celdas[p])
      BY <1>1, <2>1, <2>2 DEF ImportaBien
    <2> QED BY <1>1, <1>2, <2>1, <2>3, ImportacionAlGuardar
  <1> QED BY <1>3, <1>4, <1>5

LEMMA FilaActivaEnNat ==
  ASSUME InvLibro, NEW p
  PROVE  /\ FilaActiva(p) \in Nat
         /\ FilaActiva(p) # 0 => FilaActiva(p) \in DOMAIN filas /\ filas[FilaActiva(p)].prueba = p
  <1>1. DOMAIN filas \in SUBSET Nat
    BY DEF InvLibro, LibroTipado
  <1> QED BY <1>1, FilaActivaEs

(* The two requests of the form: one write, just read.                     *)
LEMMA PasoAlAbrir ==
  ASSUME InvImportacion, NEW c \in Clientes, NEW tipo \in {"guardar", "corregir"}, NEW w \in EscrituraPedida,
         EscrituraFiel(w), Solicitar(c, tipo, <<w>>, NULO, <<>>), UNCHANGED <<estructura, filas, versiones>>
  PROVE  InvImportacion'
  <1> DEFINE r == [tipo |-> tipo, escritas |-> <<w>>, celdas |-> NULO, resto |-> <<>>, mezcla |-> NULO]
  <1>1. <<w>> \in Seq(EscrituraPedida) /\ <<>> \in Seq(PruebasMuestra) /\ DOMAIN <<w>> = {1} /\ <<w>>[1] = w
    OBVIOUS
  <1>2. r \in SolicitudDeLibro
    BY <1>1 DEF SolicitudDeLibro
  <1>3. solicitud' = [solicitud EXCEPT ![c] = r]
    BY DEF Solicitar
  <1>4. \A k \in DOMAIN r.escritas : EscrituraFiel(r.escritas[k])
    BY <1>1
  <1>5. ImportaBien(r)
    BY DEF ImportaBien
  <1> HIDE DEF r
  <1> QED BY <1>2, <1>3, <1>4, <1>5, ImportacionAlSolicitar

LEMMA PasoAlAbrirGuardado ==
  ASSUME InvImportacion, NEW c \in Clientes, NEW p \in PruebasMuestra, NEW valores \in Seq(Celda),
         NEW confirma \in BOOLEAN, AbrirGuardado(c, p, valores, confirma)
  PROVE  InvImportacion'
  <1> DEFINE w == Escritura(p, FilaActiva(p), CamposDe(estructura), valores)
  <1>1. InvLibro /\ CamposDe(estructura) \in CamposPosibles /\ Aceptados(CamposDe(estructura), valores)
    BY CamposDeHoyTipados DEF InvImportacion, InvLibro, AbrirGuardado
  <1>2. EscrituraFiel(w) /\ w \in EscrituraPedida
    <2> DEFINE n == FilaActiva(p)
               hoy == CamposDe(estructura)
    <2>1. n \in Nat /\ (n # 0 => n \in DOMAIN filas /\ filas[n].prueba = p)
      BY <1>1, FilaActivaEnNat
    <2>2. hoy \in CamposPosibles \cup {NULO} /\ Aceptados(hoy, valores)
      BY <1>1
    <2> HIDE DEF n, hoy
    <2>3. EscrituraFiel(Escritura(p, n, hoy, valores)) /\ Escritura(p, n, hoy, valores) \in EscrituraPedida
      BY <1>1, <2>1, <2>2, EscrituraRecienLeida
    <2> QED BY <2>3 DEF n, hoy
  <1>3. Solicitar(c, "guardar", <<w>>, NULO, <<>>) /\ UNCHANGED <<estructura, filas, versiones>>
    BY DEF AbrirGuardado
  <1> HIDE DEF w
  <1> QED BY <1>2, <1>3, PasoAlAbrir

LEMMA PasoAlAbrirCorreccion ==
  ASSUME InvImportacion, NEW c \in Clientes, NEW n \in DOMAIN filas, NEW valores \in Seq(Celda),
         AbrirCorreccion(c, n, valores)
  PROVE  InvImportacion'
  <1> DEFINE escritos == versiones[VersionDe(n)].campos
             p == filas[n].prueba
             w == Escritura(p, n, escritos, valores)
  <1>1. /\ InvLibro /\ n \in Nat /\ n # 0 /\ filas[n] \in FilaGuardada /\ filas[n].version \in DOMAIN versiones
        /\ versiones \in Seq(VersionGuardada)
    BY DEF InvImportacion, InvLibro, LibroTipado
  <1>2. versiones[filas[n].version] \in VersionGuardada
    BY <1>1
  <1>3. p \in PruebasMuestra /\ escritos \in CamposPosibles \cup {NULO} /\ Aceptados(escritos, valores)
    BY <1>1, <1>2 DEF VersionDe, VersionGuardada, FilaGuardada, AbrirCorreccion
  <1>4. Solicitar(c, "corregir", <<w>>, NULO, <<>>) /\ UNCHANGED <<estructura, filas, versiones>>
    BY DEF AbrirCorreccion
  <1>5. EscrituraFiel(w) /\ w \in EscrituraPedida
    <2> HIDE DEF escritos
    <2> QED BY <1>1, <1>3, EscrituraRecienLeida
  <1> HIDE DEF w
  <1> QED BY <1>4, <1>5, PasoAlAbrir

LEMMA PasoAlAnalizar ==
  ASSUME InvImportacion, NEW c \in Clientes, NEW celdas \in HojasPosibles, AnalizarImportacion(c, celdas)
  PROVE  InvImportacion'
  <1> DEFINE hoy == CamposDe(estructura)
             normal(p) == [k \in DOMAIN celdas[p] |-> Normalizado(hoy[k], celdas[p][k])]
             leidas == [p \in DOMAIN celdas |-> normal(p)]
             resto == DeMenorAMayor(DOMAIN celdas)
             r == [tipo |-> "importar", escritas |-> <<>>, celdas |-> leidas, resto |-> resto, mezcla |-> NULO]
  <1>1. /\ DOMAIN celdas \in SUBSET PruebasMuestra /\ DOMAIN celdas \in SUBSET Nat
        /\ IsFiniteSet(DOMAIN celdas) /\ \A p \in DOMAIN celdas : celdas[p] \in CeldasPosibles
    BY UnaHoja
  <1>2. ASSUME NEW p \in DOMAIN celdas PROVE normal(p) \in CeldasPosibles
    <2>1. /\ DOMAIN celdas[p] \in SUBSET (Casillas \cup {0})
          /\ \A k \in DOMAIN celdas[p] : celdas[p][k] \in Escritos
      BY <1>1, UnasCeldas
    <2>2. \A k \in DOMAIN celdas[p] : Normalizado(hoy[k], celdas[p][k]) \in Escritos
      BY <2>1, LibroEnOrden DEF Normalizado
    <2>3. normal(p) \in [DOMAIN celdas[p] -> Escritos]
      BY <2>2
    <2> QED BY <2>1, <2>3 DEF CeldasPosibles
  <1>3. leidas \in [DOMAIN celdas -> CeldasPosibles]
    BY <1>2
  <1>4. leidas \in HojasPosibles /\ DOMAIN leidas = DOMAIN celdas
    BY <1>1, <1>3 DEF HojasPosibles
  <1>5. resto \in Seq(DOMAIN celdas) /\ ToSet(resto) = DOMAIN celdas
    BY <1>1, DeMenorAMayorEs
  <1>6. solicitud' = [solicitud EXCEPT ![c] = r] /\ UNCHANGED <<estructura, filas, versiones>>
    BY DEF AnalizarImportacion, Solicitar
  <1> HIDE DEF leidas, resto
  <1>7. resto \in Seq(PruebasMuestra) /\ <<>> \in Seq(EscrituraPedida) /\ DOMAIN <<>> = {}
    BY <1>1, <1>5
  <1>8. r \in SolicitudDeLibro
    BY <1>4, <1>7 DEF SolicitudDeLibro
  <1>9. ImportaBien(r)
    BY <1>4, <1>5 DEF ImportaBien
  <1>10. \A k \in DOMAIN r.escritas : EscrituraFiel(r.escritas[k])
    BY <1>7
  <1> HIDE DEF r
  <1> QED BY <1>6, <1>8, <1>9, <1>10, ImportacionAlSolicitar

LEMMA RestoPorDelante ==
  ASSUME InvImportacion, NEW c \in Clientes, EnCurso(c)
  PROVE  LET r == solicitud[c] IN
         /\ r \in SolicitudDeLibro /\ ImportaBien(r) /\ r.tipo = "importar"
         /\ \A k \in DOMAIN r.escritas : EscrituraFiel(r.escritas[k])
         /\ r.celdas \in HojasPosibles
         /\ Head(r.resto) \in DOMAIN r.celdas /\ Head(r.resto) \in PruebasMuestra
         /\ Tail(r.resto) \in Seq(PruebasMuestra) /\ ToSet(Tail(r.resto)) \subseteq ToSet(r.resto)
         /\ \A p \in ToSet(r.resto) : p = Head(r.resto) \/ p \in ToSet(Tail(r.resto))
  <1> DEFINE r == solicitud[c]
             s == r.resto
  <1>1. /\ r \in SolicitudDeLibro /\ ImportaBien(r) /\ r.tipo = "importar"
        /\ \A k \in DOMAIN r.escritas : EscrituraFiel(r.escritas[k])
    BY SolicitudConocida DEF EnCurso
  <1>2. s \in Seq(PruebasMuestra) /\ s # <<>>
    BY <1>1 DEF SolicitudDeLibro, EnCurso
  <1>3. r.celdas \in HojasPosibles /\ ToSet(s) \subseteq DOMAIN r.celdas
    BY <1>1 DEF ImportaBien
  <1> HIDE DEF s, r
  <1>4. /\ Len(s) \in Nat /\ Len(s) # 0 /\ DOMAIN s = 1..Len(s) /\ Head(s) = s[1]
        /\ Tail(s) \in Seq(PruebasMuestra) /\ Len(Tail(s)) = Len(s) - 1 /\ DOMAIN Tail(s) = 1..(Len(s) - 1)
        /\ \A i \in 1..(Len(s) - 1) : Tail(s)[i] = s[i + 1]
    BY <1>2
  <1>5. Head(s) \in ToSet(s) /\ Head(s) \in PruebasMuestra
    BY <1>2, <1>4 DEF ToSet
  <1>6. ASSUME NEW p \in ToSet(Tail(s)) PROVE p \in ToSet(s)
    <2>1. PICK i \in DOMAIN Tail(s) : Tail(s)[i] = p
      BY DEF ToSet
    <2>2. i + 1 \in DOMAIN s /\ s[i + 1] = p
      BY <1>4, <2>1
    <2> QED BY <2>2 DEF ToSet
  <1>7. ASSUME NEW p \in ToSet(s) PROVE p = Head(s) \/ p \in ToSet(Tail(s))
    <2>1. PICK i \in DOMAIN s : s[i] = p
      BY DEF ToSet
    <2>2. CASE i = 1
      BY <1>4, <2>1, <2>2
    <2>3. CASE i # 1
      <3>1. i - 1 \in 1..(Len(s) - 1) /\ (i - 1) + 1 = i
        BY <1>4, <2>3
      <3>2. i - 1 \in DOMAIN Tail(s) /\ Tail(s)[i - 1] = p
        BY <1>4, <2>1, <3>1
      <3> QED BY <3>2 DEF ToSet
    <2> QED BY <2>2, <2>3
  <1> QED BY <1>1, <1>3, <1>4, <1>5, <1>6, <1>7 DEF s, r

LEMMA PasoAlMezclar ==
  ASSUME InvImportacion, NEW c \in Clientes, MezclarPrueba(c)
  PROVE  InvImportacion'
  <1> DEFINE r == solicitud[c]
             p == Head(r.resto)
             n == FilaActiva(p)
             m == Mezcla(ValoresDe(n), r.celdas[p])
             r2 == [tipo |-> r.tipo, escritas |-> r.escritas, celdas |-> r.celdas, resto |-> r.resto, mezcla |-> m]
  <1>1. /\ r \in SolicitudDeLibro /\ ImportaBien(r) /\ r.tipo = "importar"
        /\ \A k \in DOMAIN r.escritas : EscrituraFiel(r.escritas[k])
        /\ r.celdas \in HojasPosibles /\ p \in DOMAIN r.celdas
    BY RestoPorDelante DEF MezclarPrueba
  <1>2. r.celdas[p] \in CeldasPosibles
    BY <1>1, UnaHoja
  <1>3. ValoresDe(n) \in Seq(Celda)
    <2>1. n \in Nat /\ (n # 0 => n \in DOMAIN filas)
      BY FilaActivaEnNat DEF InvImportacion
    <2>2. n # 0 => versiones[filas[n].version] \in VersionGuardada
      BY <2>1 DEF InvImportacion, InvLibro, LibroTipado
    <2> HIDE DEF n
    <2> QED BY <2>2 DEF ValoresDe, VersionDe, VersionGuardada
  <1>4. m \in Seq(Celda) /\ Lleva(m, r.celdas[p])
    <2> HIDE DEF n, p, r
    <2> QED BY <1>2, <1>3, MezclaLleva
  <1>5. solicitud' = [solicitud EXCEPT ![c].mezcla = m] /\ UNCHANGED <<estructura, filas, versiones>>
    BY DEF MezclarPrueba
  <1>6. [r EXCEPT !.mezcla = m] = r2
    BY <1>1 DEF SolicitudDeLibro
  <1>7. solicitud' = [solicitud EXCEPT ![c] = r2]
    BY <1>5, <1>6
  <1> HIDE DEF m
  <1>8. r2 \in SolicitudDeLibro
    BY <1>1, <1>4 DEF SolicitudDeLibro
  <1>9. ImportaBien(r2)
    BY <1>1, <1>4 DEF ImportaBien
  <1>10. \A k \in DOMAIN r2.escritas : EscrituraFiel(r2.escritas[k])
    BY <1>1
  <1> HIDE DEF r2
  <1> QED BY <1>5, <1>7, <1>8, <1>9, <1>10, ImportacionAlSolicitar

LEMMA SolicitudAvanza ==
  ASSUME NEW r \in SolicitudDeLibro, NEW ws, NEW cola
  PROVE  [r EXCEPT !.escritas = ws, !.resto = cola, !.mezcla = NULO] =
            [tipo |-> r.tipo, escritas |-> ws, celdas |-> r.celdas, resto |-> cola, mezcla |-> NULO]
  <1> DEFINE pasos == {"tipo", "escritas", "celdas", "resto", "mezcla"}
             f == [r EXCEPT !.escritas = ws]
             g == [f EXCEPT !.resto = cola]
             h == [g EXCEPT !.mezcla = NULO]
  <1>1. r = [k \in pasos |-> r[k]]
    BY DEF SolicitudDeLibro
  <1>2. f = [k \in pasos |-> IF k = "escritas" THEN ws ELSE r[k]]
    BY <1>1
  <1>3. g = [k \in pasos |-> IF k = "resto" THEN cola ELSE f[k]]
    BY <1>2
  <1>4. h = [k \in pasos |-> IF k = "mezcla" THEN NULO ELSE g[k]]
    BY <1>3
  <1>5. /\ h = [k \in pasos |-> h[k]] /\ h["mezcla"] = NULO /\ h["resto"] = cola /\ h["escritas"] = ws
        /\ h["tipo"] = r["tipo"] /\ h["celdas"] = r["celdas"]
    BY <1>2, <1>3, <1>4
  <1> HIDE DEF h
  <1>6. h = [tipo |-> r.tipo, escritas |-> ws, celdas |-> r.celdas, resto |-> cola, mezcla |-> NULO]
    BY <1>5
  <1> QED BY <1>6 DEF h

LEMMA PasoAlGuardarPrueba ==
  ASSUME InvImportacion, NEW c \in Clientes, GuardarPrueba(c)
  PROVE  InvImportacion'
  <1> DEFINE r == solicitud[c]
             p == Head(r.resto)
             n == FilaActiva(p)
             hoy == CamposDe(estructura)
             w == Escritura(p, n, hoy, r.mezcla)
             ws == Append(r.escritas, w)
             r2 == [tipo |-> r.tipo, escritas |-> ws, celdas |-> r.celdas, resto |-> Tail(r.resto), mezcla |-> NULO]
  <1>1. /\ r \in SolicitudDeLibro /\ ImportaBien(r) /\ r.tipo = "importar"
        /\ \A k \in DOMAIN r.escritas : EscrituraFiel(r.escritas[k])
        /\ r.celdas \in HojasPosibles /\ p \in DOMAIN r.celdas /\ p \in PruebasMuestra
        /\ Tail(r.resto) \in Seq(PruebasMuestra) /\ ToSet(Tail(r.resto)) \subseteq ToSet(r.resto)
        /\ \A q \in ToSet(r.resto) : q = p \/ q \in ToSet(Tail(r.resto))
    BY RestoPorDelante DEF GuardarPrueba
  <1>2. /\ r.mezcla # NULO /\ r.resto # <<>> /\ Aceptados(hoy, r.mezcla)
        /\ UNCHANGED <<estructura, filas, versiones>>
    BY DEF GuardarPrueba, EnCurso
  <1>3. r.mezcla \in Seq(Celda) /\ Lleva(r.mezcla, r.celdas[p])
    BY <1>1, <1>2 DEF SolicitudDeLibro, ImportaBien
  <1>4. /\ InvLibro /\ hoy \in CamposPosibles \cup {NULO} /\ n \in Nat
        /\ n # 0 => n \in DOMAIN filas /\ filas[n].prueba = p
    BY CamposDeHoyTipados, FilaActivaEnNat DEF InvImportacion, InvLibro
  <1>5. EscrituraFiel(w) /\ w \in EscrituraPedida /\ w.prueba = p /\ w.valores = r.mezcla
    <2> HIDE DEF n, hoy, p, r
    <2>1. w.prueba = p /\ w.valores = r.mezcla
      BY DEF Escritura
    <2>2. EscrituraFiel(w) /\ w \in EscrituraPedida
      BY <1>1, <1>2, <1>3, <1>4, EscrituraRecienLeida
    <2> QED BY <2>1, <2>2
  <1>6. r.escritas \in Seq(EscrituraPedida)
    BY <1>1 DEF SolicitudDeLibro
  <1>7. solicitud' = [solicitud EXCEPT ![c] = r2]
    <2>1. solicitud' = [solicitud EXCEPT ![c].escritas = ws, ![c].resto = Tail(r.resto), ![c].mezcla = NULO]
      BY DEF GuardarPrueba
    <2>2. solicitud \in [Clientes -> SolicitudDeLibro \cup {NULO}]
      BY DEF InvImportacion, InvLibro, LibroTipado
    <2> DEFINE cola == Tail(r.resto)
    <2> HIDE DEF ws
    <2>3. [r EXCEPT !.escritas = ws, !.resto = cola, !.mezcla = NULO] = r2
      <3> HIDE DEF r
      <3>1. r \in SolicitudDeLibro
        BY <1>1
      <3> HIDE DEF cola
      <3> QED BY <3>1, SolicitudAvanza DEF r2, cola
    <2>4. solicitud' = [solicitud EXCEPT ![c] = [r EXCEPT !.escritas = ws, !.resto = Tail(r.resto), !.mezcla = NULO]]
      BY <2>1, <2>2
    <2> QED BY <2>3, <2>4
  <1> HIDE DEF w
  <1>8. /\ ws \in Seq(EscrituraPedida) /\ DOMAIN ws = 1..(Len(r.escritas) + 1)
        /\ Len(r.escritas) \in Nat /\ DOMAIN r.escritas = 1..Len(r.escritas)
        /\ ws[Len(r.escritas) + 1] = w /\ \A k \in 1..Len(r.escritas) : ws[k] = r.escritas[k]
    BY <1>5, <1>6
  <1> HIDE DEF ws
  <1>9. r2 \in SolicitudDeLibro
    BY <1>1, <1>8 DEF SolicitudDeLibro
  <1>10. ImportaBien(r2)
    <2> SUFFICES ASSUME NEW q \in DOMAIN r.celdas, q \notin ToSet(Tail(r.resto))
                 PROVE  \E k \in DOMAIN ws : ws[k].prueba = q /\ Lleva(ws[k].valores, r.celdas[q])
      BY <1>1 DEF ImportaBien
    <2>1. CASE q = p
      BY <1>3, <1>5, <1>8, <2>1
    <2>2. CASE q # p
      <3>1. q \notin ToSet(r.resto)
        BY <1>1, <2>2
      <3>2. PICK k \in DOMAIN r.escritas : r.escritas[k].prueba = q /\ Lleva(r.escritas[k].valores, r.celdas[q])
        BY <1>1, <3>1 DEF ImportaBien
      <3>3. k \in DOMAIN ws /\ ws[k] = r.escritas[k]
        BY <1>8
      <3> QED BY <3>2, <3>3
    <2> QED BY <2>1, <2>2
  <1>11. \A k \in DOMAIN r2.escritas : EscrituraFiel(r2.escritas[k])
    <2>1. \A k \in DOMAIN ws : k \in DOMAIN r.escritas \/ k = Len(r.escritas) + 1
      BY <1>8
    <2> QED BY <1>1, <1>5, <1>8, <2>1
  <1> HIDE DEF r2
  <1> QED BY <1>2, <1>7, <1>9, <1>10, <1>11, ImportacionAlSolicitar

LEMMA PasoAlEditar ==
  ASSUME InvImportacion, NEW k \in Casillas, NEW tipo \in TiposDeDato \cup {NULO}, EditarEstructura(k, tipo)
  PROVE  InvImportacion'
  <1> DEFINE sin == [x \in DOMAIN estructura \ {k} |-> estructura[x]]
             con == [x \in DOMAIN estructura \cup {k} |-> IF x = k THEN tipo ELSE estructura[x]]
  <1>1. /\ estructura \in CamposPosibles /\ DOMAIN estructura \subseteq Casillas
        /\ \A x \in DOMAIN estructura : estructura[x] \in TiposDeDato
        /\ solicitud \in [Clientes -> SolicitudDeLibro \cup {NULO}]
    BY TresCampos DEF InvImportacion, InvLibro, LibroTipado
  <1>2. estructura' = IF tipo = NULO THEN sin ELSE con
    BY DEF EditarEstructura
  <1>3. UNCHANGED <<filas, versiones, solicitud>>
    BY DEF EditarEstructura
  <1>4. sin \in [DOMAIN estructura \ {k} -> TiposDeDato] /\ DOMAIN sin \subseteq Casillas
    BY <1>1
  <1>5. tipo # NULO => con \in [DOMAIN estructura \cup {k} -> TiposDeDato] /\ DOMAIN con \subseteq Casillas
    BY <1>1
  <1>6. DOMAIN estructura \ {k} \in SUBSET (Casillas \cup {0}) /\ DOMAIN estructura \cup {k} \in SUBSET (Casillas \cup {0})
    BY <1>1
  <1> HIDE DEF sin, con
  <1>7. estructura' \in CamposPosibles /\ DOMAIN estructura' \subseteq Casillas
    BY <1>2, <1>4, <1>5, <1>6 DEF CamposPosibles
  <1>8. InvLibro'
    BY <1>1, <1>3, <1>7, InvAlPedir DEF InvImportacion
  <1>9. (\A c \in Clientes : ~Libre(c) => ImportaBien(solicitud[c]))' /\ (\A j \in DOMAIN versiones : ImportadaEntera(j))'
    BY <1>3 DEF InvImportacion, ImportaBien, ImportadaEntera, Libre
  <1> QED BY <1>8, <1>9 DEF InvImportacion

LEMMA ImportacionAlEmpezar == InitLibro => InvImportacion
  <1> SUFFICES ASSUME InitLibro PROVE InvImportacion
    OBVIOUS
  <1>1. estructura \in [Casillas -> TiposDeDato] /\ Casillas \in SUBSET (Casillas \cup {0})
    BY DEF InitLibro, TiposDeDato
  <1>2. estructura \in CamposPosibles /\ DOMAIN estructura \subseteq Casillas
    BY <1>1 DEF CamposPosibles
  <1>3. solicitud \in [Clientes -> SolicitudDeLibro \cup {NULO}] /\ \A c \in Clientes : Libre(c)
    BY DEF InitLibro, Libre
  <1>4. CASE filas = <<>> /\ versiones = <<>>
    <2>1. DOMAIN filas = {} /\ DOMAIN versiones = {} /\ filas \in Seq(FilaGuardada) /\ versiones \in Seq(VersionGuardada)
      BY <1>4
    <2> QED BY <1>2, <1>3, <2>1 DEF InvImportacion, InvLibro, LibroTipado, EnEspera
  <1>5. CASE versiones = <<Legado(1)>> /\ filas = <<[prueba |-> 1, version |-> 1, historico |-> <<>>]>>
    <2> DEFINE v == Legado(1)
               f == [prueba |-> 1, version |-> 1, historico |-> <<>>]
               celda == [clave |-> 1, valor |-> "numero"]
    <2>1. celda \in Celda /\ <<celda>> \in Seq(Celda)
      BY LibroEnOrden DEF Celda
    <2>2. v \in VersionGuardada /\ v.prueba = 1 /\ v.campos = NULO /\ v.origen = NULO
      <3> HIDE DEF celda
      <3>1. v = [prueba |-> 1, campos |-> NULO, valores |-> <<celda>>, leida |-> 0, origen |-> NULO, primera |-> 1]
        BY DEF Legado, celda
      <3> HIDE DEF v
      <3> QED BY <2>1, <3>1, LibroEnOrden DEF VersionGuardada
    <2>3. f \in FilaGuardada /\ f.version = 1 /\ f.prueba = 1 /\ ToSet(f.historico) = {}
      BY LibroEnOrden DEF FilaGuardada, ToSet
    <2> HIDE DEF v, f
    <2>4. /\ versiones = <<v>> /\ DOMAIN versiones = {1} /\ versiones[1] = v /\ versiones \in Seq(VersionGuardada)
          /\ filas = <<f>> /\ DOMAIN filas = {1} /\ filas[1] = f /\ filas \in Seq(FilaGuardada)
      BY <1>5, <2>2, <2>3 DEF v, f
    <2>5. LibroTipado
      BY <1>2, <1>3, <2>3, <2>4 DEF LibroTipado
    <2>6. VersionFiel(1) /\ FilaFiel(1) /\ ImportadaEntera(1)
      BY <2>2, <2>3, <2>4 DEF VersionFiel, FilaFiel, ImportadaEntera
    <2> QED BY <1>3, <2>4, <2>5, <2>6 DEF InvImportacion, InvLibro, EnEspera
  <1> QED BY <1>4, <1>5 DEF InitLibro

LEMMA ImportacionPaso ==
  ASSUME NEW listas, NEW hojas, NEW tipos, EntradasDelLibro(listas, hojas, tipos),
         InvImportacion, [NextLibro(listas, hojas, tipos)]_varsLibro
  PROVE  InvImportacion'
  <1>1. listas \subseteq Seq(Celda) /\ hojas \subseteq HojasPosibles /\ tipos \subseteq TiposDeDato
    BY DEF EntradasDelLibro
  <1>2. CASE UNCHANGED varsLibro
    BY <1>2 DEF varsLibro, InvImportacion, InvLibro, LibroTipado, VersionFiel, FilaFiel, EnEspera, EscrituraFiel,
                Perdida, Libre, ImportaBien, ImportadaEntera
  <1>3. ASSUME NEW c \in Clientes, NEW p \in PruebasMuestra, NEW v \in listas, NEW si \in BOOLEAN,
               AbrirGuardado(c, p, v, si)
        PROVE  InvImportacion'
    BY <1>1, <1>3, PasoAlAbrirGuardado
  <1>4. ASSUME NEW c \in Clientes, NEW n \in DOMAIN filas, NEW v \in listas, AbrirCorreccion(c, n, v)
        PROVE  InvImportacion'
    BY <1>1, <1>4, PasoAlAbrirCorreccion
  <1>5. ASSUME NEW c \in Clientes, NEW a \in hojas, AnalizarImportacion(c, a) PROVE InvImportacion'
    BY <1>1, <1>5, PasoAlAnalizar
  <1>6. ASSUME NEW c \in Clientes, MezclarPrueba(c) PROVE InvImportacion'
    BY <1>6, PasoAlMezclar
  <1>7. ASSUME NEW c \in Clientes, GuardarPrueba(c) PROVE InvImportacion'
    BY <1>7, PasoAlGuardarPrueba
  <1>8. ASSUME NEW c \in Clientes, EscribirGuardado(c) \/ FallarImportacion(c) \/ TerminarImportacion(c)
        PROVE  InvImportacion'
    BY <1>8, PasoAlGuardar
  <1>9. ASSUME NEW k \in Casillas, NEW t \in tipos \cup {NULO}, EditarEstructura(k, t) PROVE InvImportacion'
    BY <1>1, <1>9, PasoAlEditar
  <1> QED BY <1>2, <1>3, <1>4, <1>5, <1>6, <1>7, <1>8, <1>9 DEF NextLibro

(* For any fields of a test, requests at the same time and files: a value  *)
(* stored with its fields is judged as one of them, which it fits.         *)
THEOREM JuzgadoSiemprePorSuCampo ==
  ASSUME NEW listas, NEW hojas, NEW tipos, EntradasDelLibro(listas, hojas, tipos)
  PROVE  SpecLibro(listas, hojas, tipos) => []JuzgadoPorSuCampo
  <1>1. InvImportacion => JuzgadoPorSuCampo
    <2> SUFFICES ASSUME InvImportacion, NEW n \in DOMAIN filas, versiones[filas[n].version].campos # NULO,
                        NEW i \in DOMAIN versiones[filas[n].version].valores
                 PROVE  Valido(CampoQueJuzga(versiones[filas[n].version], i),
                               versiones[filas[n].version].valores[i].valor)
      BY DEF JuzgadoPorSuCampo
    <2> DEFINE v == versiones[filas[n].version]
    <2>1. VersionFiel(filas[n].version)
      BY DEF InvImportacion, InvLibro, LibroTipado
    <2>2. Aceptados(v.campos, v.valores)
      BY <2>1 DEF VersionFiel
    <2>3. v.valores[i].clave \in DOMAIN v.campos /\ Valido(v.campos[v.valores[i].clave], v.valores[i].valor)
      BY <2>2 DEF Aceptados, ToSet
    <2> QED BY <2>3 DEF CampoQueJuzga
  <1> QED BY <1>1, ImportacionAlEmpezar, ImportacionPaso, PTL DEF SpecLibro

(* For any fields, requests and files: the history of a result shows every *)
(* version stored for its test, but one that a request wrote over without  *)
(* having read it.                                                         *)
THEOREM HistoriaSiempreCompleta ==
  ASSUME NEW listas, NEW hojas, NEW tipos, EntradasDelLibro(listas, hojas, tipos)
  PROVE  SpecLibro(listas, hojas, tipos) => []HistoriaCompleta
  <1>1. InvImportacion => HistoriaCompleta
    <2> SUFFICES ASSUME InvImportacion, NEW i \in DOMAIN versiones
                 PROVE  i \in Mostradas(FilaActiva(versiones[i].prueba)) \/ Perdida(i)
      BY DEF HistoriaCompleta, Perdida
    <2> DEFINE p == versiones[i].prueba
               n == FilaActiva(p)
    <2>1. PICK m \in DOMAIN filas : filas[m].prueba = p /\ i <= filas[m].version
      BY DEF InvImportacion, InvLibro, VersionFiel
    <2>2. n \in DOMAIN filas /\ filas[n].prueba = p /\ filas[m].version <= filas[n].version
      BY <2>1, FilaActivaEs DEF InvImportacion
    <2>3. filas[m].version \in Nat /\ filas[n].version \in Nat /\ i \in Nat /\ FilaFiel(n)
      BY <2>1, <2>2 DEF InvImportacion, InvLibro, LibroTipado, FilaGuardada
    <2> HIDE DEF n
    <2>4. i <= filas[n].version
      BY <2>1, <2>2, <2>3
    <2>5. CASE i = filas[n].version
      BY <2>5 DEF Mostradas, n
    <2>6. CASE i < filas[n].version
      BY <2>2, <2>3, <2>6 DEF Mostradas, FilaFiel, n
    <2> QED BY <2>3, <2>4, <2>5, <2>6
  <1> QED BY <1>1, ImportacionAlEmpezar, ImportacionPaso, PTL DEF SpecLibro

(* For any fields, requests and files: an import stores all the cells of   *)
(* its file or none, and while nobody stores or edits the test its export  *)
(* shows each cell under its own field.                                    *)
THEOREM ImportacionSiempreEntera ==
  ASSUME NEW listas, NEW hojas, NEW tipos, EntradasDelLibro(listas, hojas, tipos)
  PROVE  SpecLibro(listas, hojas, tipos) => []ImportacionEntera
  <1>1. InvImportacion => ImportacionEntera
    <2> SUFFICES ASSUME InvImportacion, NEW j \in DOMAIN versiones, versiones[j].origen # NULO,
                        NEW p \in DOMAIN versiones[j].origen
                 PROVE  \E i \in DOMAIN versiones :
                           /\ versiones[i].primera = versiones[j].primera /\ versiones[i].prueba = p
                           /\ \A k \in DOMAIN versiones[j].origen[p] :
                                 [clave |-> k, valor |-> versiones[j].origen[p][k]] \in ToSet(versiones[i].valores)
                           /\ VersionDe(FilaActiva(p)) = i /\ versiones[i].campos = CamposDe(estructura) =>
                                 \A columna \in DOMAIN EnOrden(CamposDe(estructura)) :
                                     EnOrden(CamposDe(estructura))[columna] \in DOMAIN versiones[j].origen[p] =>
                                        Exportado(p, columna) =
                                           versiones[j].origen[p][EnOrden(CamposDe(estructura))[columna]]
      BY DEF ImportacionEntera
    <2> DEFINE celdas == versiones[j].origen[p]
    <2>1. PICK i \in DOMAIN versiones :
             /\ versiones[i].primera = versiones[j].primera /\ versiones[i].prueba = p
             /\ Lleva(versiones[i].valores, celdas)
      BY DEF InvImportacion, ImportadaEntera
    <2>2. versiones[i].valores \in Seq(Celda) /\ i # 0
      <3>1. versiones[i] \in VersionGuardada /\ i # 0
        BY DEF InvImportacion, InvLibro, LibroTipado
      <3> QED BY <3>1 DEF VersionGuardada
    <2> DEFINE valores == versiones[i].valores
    <2>3. ASSUME VersionDe(FilaActiva(p)) = i, NEW columna \in DOMAIN EnOrden(CamposDe(estructura)),
                 EnOrden(CamposDe(estructura))[columna] \in DOMAIN celdas
          PROVE  Exportado(p, columna) = celdas[EnOrden(CamposDe(estructura))[columna]]
      <3> DEFINE k == EnOrden(CamposDe(estructura))[columna]
                 suyas == {x \in DOMAIN valores : valores[x].clave = k}
      <3>1. ValoresDe(FilaActiva(p)) = valores
        BY <2>2, <2>3 DEF ValoresDe, VersionDe
      <3>2. Exportado(p, columna) = IF suyas # {} THEN valores[Max(suyas)].valor
                                  ELSE IF columna <= Len(valores) THEN valores[columna].valor ELSE "vacia"
        BY <3>1 DEF Exportado
      <3> HIDE DEF k, valores, celdas
      <3>3. Lleva(valores, celdas) /\ k \in DOMAIN celdas /\ valores \in Seq(Celda)
        BY <2>1, <2>2, <2>3 DEF k, valores
      <3>4. PICK x \in DOMAIN valores : valores[x] = [clave |-> k, valor |-> celdas[k]]
        BY <3>3 DEF Lleva, ToSet
      <3>5. x \in suyas /\ suyas \in SUBSET Nat /\ Len(valores) \in Nat /\ \A y \in suyas : y <= Len(valores)
        BY <3>3, <3>4
      <3>6. Max(suyas) \in suyas
        BY <3>5, MaxEs
      <3>7. valores[Max(suyas)] \in ToSet(valores) /\ valores[Max(suyas)].clave = k
        BY <3>6 DEF ToSet
      <3>8. valores[Max(suyas)].valor = celdas[k]
        BY <3>3, <3>7 DEF Lleva
      <3> QED BY <3>2, <3>5, <3>8 DEF k
    <2>4. \A k \in DOMAIN celdas : [clave |-> k, valor |-> celdas[k]] \in ToSet(versiones[i].valores)
      BY <2>1 DEF Lleva
    <2> HIDE DEF celdas
    <2> QED BY <2>1, <2>3, <2>4 DEF celdas
  <1> QED BY <1>1, ImportacionAlEmpezar, ImportacionPaso, PTL DEF SpecLibro

-----------------------------------------------------------------------------
(* The workbook of a batch (Planilla), for any fields, catalogues, plant   *)
(* and written rows.                                                       *)

CamposPuestos == tecnicos \in [CamposTecnicos -> CampoTecnico]

(* Each technical field of the template has its own column. *)
LEMMA ColumnasEs ==
  ASSUME CamposPuestos
  PROVE  /\ Columnas \in [1..Cardinality(EnPlanilla) -> EnPlanilla] /\ Cardinality(EnPlanilla) \in Nat
         /\ \A f \in EnPlanilla : Columna(f) \in 1..Cardinality(EnPlanilla) /\ Columnas[Columna(f)] = f
         /\ \A i \in 1..Cardinality(EnPlanilla) : Columna(Columnas[i]) = i
  <1> DEFINE S == EnPlanilla
             n == Cardinality(S)
             R == {p \in S \X S : Antes(p[1], p[2])}
             s == Columnas
  <1>1. S \in SUBSET CamposTecnicos /\ IsFiniteSet(S) /\ n \in Nat
    <2>1. S \in SUBSET CamposTecnicos
      BY DEF EnPlanilla
    <2>2. IsFiniteSet(S)
      BY <2>1, PlanillaFinita, FS_Subset
    <2> QED BY <2>1, <2>2, FS_CardinalityType
  <1>2. \A f \in CamposTecnicos : f \in Nat /\ tecnicos[f].orden \in Nat
    BY PlanillaFinita DEF CamposPuestos, CampoTecnico
  <1>3. \A f, g \in S : <<f, g>> \in R <=> Antes(f, g)
    OBVIOUS
  <1> HIDE DEF S
  <1>4. /\ \A f, g \in S : f # g => Antes(f, g) \/ Antes(g, f)
        /\ \A f, g, h \in S : Antes(f, g) /\ Antes(g, h) => Antes(f, h)
        /\ \A f, g \in S : Antes(f, g) => f # g
    BY <1>1, <1>2 DEF Antes
  <1> HIDE DEF R
  <1>5. OrdenTotal(S, R)
    BY <1>3, <1>4 DEF OrdenTotal
  <1>6. PICK t : Enumera(t, S, R)
    BY <1>1, <1>5, HayEnumeracion
  <1>7. t \in [1..n -> S] /\ \A i, j \in DOMAIN t : i < j => Antes(t[i], t[j])
    BY <1>3, <1>6 DEF Enumera
  <1>8. s \in [1..n -> S] /\ \A i, j \in DOMAIN s : i < j => Antes(s[i], s[j])
    BY <1>7 DEF Columnas, S
  <1> HIDE DEF s, n
  <1>9. \A i, j \in 1..n : i # j => s[i] # s[j]
    <2> SUFFICES ASSUME NEW i \in 1..n, NEW j \in 1..n, i # j PROVE s[i] # s[j]
      OBVIOUS
    <2>1. DOMAIN s = 1..n /\ s[i] \in S /\ s[j] \in S
      BY <1>8
    <2>2. i < j \/ j < i
      BY <1>1
    <2>3. Antes(s[i], s[j]) \/ Antes(s[j], s[i])
      BY <1>8, <2>1, <2>2
    <2> QED BY <1>4, <2>1, <2>3
  <1>10. \A f \in S : \E i \in 1..n : s[i] = f
    BY <1>1, <1>8, <1>9, SinRepetirEsTodo DEF n
  <1>11. \A f : Columna(f) = CHOOSE i \in 1..n : s[i] = f
    BY <1>8 DEF Columna, s
  <1>12. \A f \in S : Columna(f) \in 1..n /\ s[Columna(f)] = f
    BY <1>10, <1>11
  <1>13. ASSUME NEW i \in 1..n PROVE Columna(s[i]) = i
    <2>1. s[i] \in S
      BY <1>8
    <2> QED BY <1>9, <1>12, <2>1
  <1> QED BY <1>1, <1>8, <1>12, <1>13 DEF s, n, S

(* The motives an answer has. *)
LEMMA ErroresSon ==
  ASSUME NEW fila, NEW e
  PROVE  LET p == PuntoLeido(fila, e) IN
         /\ Errores(fila, e) \in SUBSET Motivos
         /\ "punto" \in Errores(fila, e) => fila.punto # SinDato /\ p = SinDato
         /\ "maquina" \in Errores(fila, e) =>
               /\ fila.maquina # SinDato /\ p = SinDato
               /\ ~(fila.maquina \in maquinas /\ DeLaEmpresa(e, fila.maquina.empresa))
         /\ "lubricante" \in Errores(fila, e) => fila.lubricante /\ ~lubricanteActivo
         /\ "opcion" \in Errores(fila, e) => \E f \in EnPlanilla : OpcionErrada(fila, f)
         /\ Errores(fila, e) = {} =>
               /\ fila.condicion \in Condiciones
               /\ fila.lubricante => lubricanteActivo
               /\ p # SinDato => fila.manual = SinDato
               /\ p = SinDato /\ fila.maquina # SinDato =>
                     fila.maquina \in maquinas /\ DeLaEmpresa(e, fila.maquina.empresa)
               /\ fila.condicion = "usada" => p # SinDato \/ fila.placa # SinDato
               /\ \A f \in EnPlanilla : ~OpcionErrada(fila, f) /\ ~CampoVacio(fila, f)
  <1> DEFINE p == PuntoLeido(fila, e)
             d == ErroresDeIdentidad(fila, e)
             T == {"condicion", "lubricante", "sinLubricante", "punto", "maquinaDelPunto", "placaDeMas",
                   "manualDeMas", "manualSinPlaca", "maquina", "sinLugar"}
             mal(k) == \E f \in EnPlanilla : IF k = "opcion" THEN OpcionErrada(fila, f) ELSE CampoVacio(fila, f)
  <1>1. /\ DOMAIN d = T
        /\ d.condicion <=> fila.condicion \notin Condiciones
        /\ d.lubricante <=> fila.lubricante /\ ~lubricanteActivo
        /\ d.punto <=> fila.punto # SinDato /\ p = SinDato
        /\ d.manualDeMas <=> p # SinDato /\ fila.manual # SinDato
        /\ d.maquina <=> /\ fila.maquina # SinDato /\ p = SinDato
                         /\ ~(fila.maquina \in maquinas /\ DeLaEmpresa(e, fila.maquina.empresa))
        /\ d.sinLugar <=> fila.condicion = "usada" /\ p = SinDato /\ fila.placa = SinDato
    <2> HIDE DEF p
    <2> QED BY DEF ErroresDeIdentidad, p
  <1>2. Errores(fila, e) = {k \in DOMAIN d : d[k]} \cup {k \in {"opcion", "campo"} : mal(k)}
    BY DEF Errores
  <1> HIDE DEF d, p
  <1>3. \A k : k \in Errores(fila, e) <=> (k \in T /\ d[k]) \/ (k \in {"opcion", "campo"} /\ mal(k))
    BY <1>1, <1>2
  <1> HIDE DEF mal
  <1>4. Errores(fila, e) \in SUBSET Motivos
    <2>1. \A k : k \in T \/ k \in {"opcion", "campo"} => k \in Motivos
      BY DEF Motivos
    <2> HIDE DEF T
    <2> QED BY <1>3, <2>1
  <1>5. /\ "punto" \in Errores(fila, e) <=> d["punto"]
        /\ "maquina" \in Errores(fila, e) <=> d["maquina"]
        /\ "lubricante" \in Errores(fila, e) <=> d["lubricante"]
        /\ "condicion" \in Errores(fila, e) <=> d["condicion"]
        /\ "manualDeMas" \in Errores(fila, e) <=> d["manualDeMas"]
        /\ "sinLugar" \in Errores(fila, e) <=> d["sinLugar"]
        /\ "opcion" \in Errores(fila, e) <=> mal("opcion")
        /\ "campo" \in Errores(fila, e) <=> mal("campo")
    BY <1>3
  <1>6. /\ mal("opcion") <=> \E f \in EnPlanilla : OpcionErrada(fila, f)
        /\ mal("campo") <=> \E f \in EnPlanilla : CampoVacio(fila, f)
    BY DEF mal
  <1> QED BY <1>1, <1>4, <1>5, <1>6 DEF p

-----------------------------------------------------------------------------
PlanillaTipada ==
    /\ CamposPuestos /\ catalogoVivo \in [CatalogosDeCampos -> BOOLEAN]
    /\ actuales \in [CatalogosDeCampos -> SUBSET Opciones]
    /\ \A c \in CatalogosDeCampos : \A o \in actuales[c] : catalogoDe[o] = c
    /\ catalogoDe \in [Opciones -> CatalogosDeCampos] /\ mudadas \subseteq Opciones
    /\ maquinas \subseteq Maquina /\ puntos \subseteq PuntoDeMedida
    /\ lubricanteActivo \in BOOLEAN /\ retoques \in 0..MaxCambiosDePlanilla
    /\ plantilla # SinDato => /\ DOMAIN plantilla = {"empresa", "encabezados", "vencida"}
                              /\ plantilla.empresa \in Empresas \cup {SinDato}
    /\ previa \in Respuesta \cup {SinDato}
    /\ previa # SinDato => plantilla # SinDato /\ (previa.errores = {} <=> previa.leida # SinDato)
    /\ muestra \in MuestraGuardada \cup MuestraRechazada \cup {SinDato}
    /\ muestra # SinDato => previa # SinDato

(* What was read is what is written under the titles, and of the company.  *)
LecturaFiel(l, titulos, e) ==
    /\ \A f \in DOMAIN l.atributos : \E i \in DOMAIN titulos :
          /\ titulos[i] = l.titulos[f]
          /\ l.fila.celdas[i] = SinDato \/ l.fila.celdas[i] = l.atributos[f]
    /\ \A i \in DOMAIN titulos : l.fila.celdas[i] # SinDato =>
          \E f \in DOMAIN l.atributos : l.titulos[f] = titulos[i] /\ l.atributos[f] = l.fila.celdas[i]
    /\ l.punto # SinDato => l.maquina = l.punto.maquina
    /\ (l.punto # SinDato \/ l.maquina # SinDato) /\ e # SinDato => l.maquina.empresa = e

Pasada == previa # SinDato /\ previa.errores = {}

LeidaFiel == Pasada => LecturaFiel(previa.leida, plantilla.encabezados, plantilla.empresa)

(* As long as nothing changes, the form takes what the preview passed.     *)
AunVale == Pasada /\ previa.vigente /\ muestra = SinDato =>
    \/ MuestraValida(Enviada) /\ DelLote(Enviada, plantilla.empresa)
    \/ \E f \in CamposRequeridos : ~catalogoVivo[tecnicos[f].catalogo]

InvPlanilla ==
    /\ PlanillaTipada /\ LeidaFiel /\ AunVale
    /\ OfrecidoLeido /\ AceptadaSeRegistra /\ RegistradaComoSeEscribio /\ ItemDeSuCatalogo

LEMMA PlanillaAlEmpezar == InitPlanilla => InvPlanilla
  <1> SUFFICES ASSUME InitPlanilla PROVE InvPlanilla
    OBVIOUS
  <1>1. /\ plantilla = SinDato /\ previa = SinDato /\ muestra = SinDato /\ retoques \in 0..MaxCambiosDePlanilla
    BY PlanillaFinita DEF InitPlanilla
  <1>2. /\ actuales \in [CatalogosDeCampos -> SUBSET Opciones]
        /\ \A c \in CatalogosDeCampos : \A o \in actuales[c] : catalogoDe[o] = c
        /\ catalogoDe \in [Opciones -> CatalogosDeCampos] /\ mudadas \subseteq Opciones
    BY DEF InitPlanilla
  <1>3. maquinas \subseteq Maquina /\ puntos \subseteq PuntoDeMedida
    BY FilasPosibles DEF InitPlanilla, PuntoDeMedida
  <1>4. CamposPuestos /\ catalogoVivo \in [CatalogosDeCampos -> BOOLEAN] /\ lubricanteActivo \in BOOLEAN
    BY DEF InitPlanilla, CamposPuestos
  <1>5. PlanillaTipada
    BY <1>1, <1>2, <1>3, <1>4 DEF PlanillaTipada
  <1> QED BY <1>1, <1>5
          DEF InvPlanilla, LeidaFiel, AunVale, Pasada, OfrecidoLeido, AceptadaSeRegistra,
              RegistradaComoSeEscribio, ItemDeSuCatalogo

LEMMA RespuestaEs == ASSUME PlanillaTipada, previa # SinDato
  PROVE  /\ previa \in Respuesta /\ DOMAIN previa = {"errores", "ofrecida", "vigente", "leida"}
         /\ Pasada => previa.leida \in Lectura
  <1>1. previa \in Respuesta
    BY DEF PlanillaTipada
  <1>2. previa.leida \in Lectura \cup {SinDato}
    BY <1>1 DEF Respuesta
  <1> QED BY <1>1, <1>2 DEF PlanillaTipada, Pasada, Respuesta

(* A stored value is an item, or unknown. *)
LEMMA ValorDeMuestra ==
  ASSUME PlanillaTipada, muestra # SinDato, muestra.estado # "rechazada", NEW f \in DOMAIN muestra.atributos
  PROVE  /\ muestra.atributos[f].valor \in Opciones \cup {DESCONOCIDO}
         /\ muestra.atributos[f].catalogo \in CatalogosDeCampos
  <1> DEFINE Atributo == [catalogo : CatalogosDeCampos, valor : Opciones \cup {DESCONOCIDO}]
  <1>1. muestra \in MuestraGuardada
    BY DEF PlanillaTipada, MuestraRechazada
  <1>2. muestra.atributos \in PorCampo(Atributo)
    BY <1>1 DEF MuestraGuardada
  <1> HIDE DEF Atributo
  <1>3. muestra.atributos[f] \in Atributo
    BY <1>2 DEF PorCampo
  <1> QED BY <1>3 DEF Atributo

(* The configuration changes: what was answered stays, but is not of now.  *)
LEMMA PlanillaAlCambiar ==
  ASSUME InvPlanilla, CambiarConfiguracion,
         CamposPuestos', (catalogoVivo \in [CatalogosDeCampos -> BOOLEAN])',
         (actuales \in [CatalogosDeCampos -> SUBSET Opciones])',
         (\A c \in CatalogosDeCampos : \A o \in actuales[c] : catalogoDe[o] = c)',
         (catalogoDe \in [Opciones -> CatalogosDeCampos])', (mudadas \subseteq Opciones)',
         mudadas \subseteq mudadas', \A o \in Opciones \ mudadas' : catalogoDe'[o] = catalogoDe[o],
         maquinas' = maquinas, puntos' \subseteq puntos, lubricanteActivo' \in BOOLEAN
  PROVE  InvPlanilla'
  <1>1. /\ PlanillaTipada /\ plantilla' = plantilla /\ muestra' = muestra
        /\ retoques' = retoques + 1 /\ retoques < MaxCambiosDePlanilla
        /\ previa' = IF previa = SinDato THEN SinDato ELSE [previa EXCEPT !.vigente = FALSE]
    BY DEF InvPlanilla, CambiarConfiguracion
  <1>2. CASE previa = SinDato
    <2>1. previa' = SinDato /\ muestra' = SinDato
      BY <1>1, <1>2 DEF PlanillaTipada
    <2>2. PlanillaTipada'
      BY <1>1, <2>1, PlanillaFinita DEF PlanillaTipada
    <2> QED BY <2>1, <2>2
            DEF InvPlanilla, LeidaFiel, AunVale, Pasada, OfrecidoLeido, AceptadaSeRegistra,
                RegistradaComoSeEscribio, ItemDeSuCatalogo
  <1>3. CASE previa # SinDato
    <2> DEFINE despues == [previa EXCEPT !.vigente = FALSE]
    <2>1. previa \in Respuesta
      BY <1>1, <1>3, RespuestaEs
    <2>2. /\ despues \in Respuesta /\ despues.errores = previa.errores /\ despues.leida = previa.leida
          /\ despues.ofrecida = previa.ofrecida /\ despues.vigente = FALSE
      BY <2>1 DEF Respuesta
    <2>3. previa' = despues
      BY <1>1, <1>3
    <2> HIDE DEF despues
    <2>4. previa' # SinDato /\ previa' \in Respuesta
      BY <2>2, <2>3, SinDatoNoEsFila
    <2>5. /\ previa'.errores = previa.errores /\ previa'.leida = previa.leida
          /\ previa'.ofrecida = previa.ofrecida /\ previa'.vigente = FALSE
      BY <2>2, <2>3
    <2>6. PlanillaTipada'
      BY <1>1, <1>3, <2>4, <2>5, PlanillaFinita DEF PlanillaTipada
    <2>7. LeidaFiel' /\ AunVale' /\ OfrecidoLeido' /\ AceptadaSeRegistra'
      BY <1>1, <1>3, <2>4, <2>5
      DEF InvPlanilla, LeidaFiel, Pasada, LecturaFiel, AunVale, OfrecidoLeido, AceptadaSeRegistra
    <2>8. RegistradaComoSeEscribio'
      BY <1>1, <2>5 DEF InvPlanilla, RegistradaComoSeEscribio
    <2>9. ItemDeSuCatalogo'
      <3> SUFFICES ASSUME muestra # SinDato, muestra.estado # "rechazada", NEW f \in DOMAIN muestra.atributos,
                          muestra.atributos[f].valor \notin {DESCONOCIDO} \cup mudadas'
                   PROVE  catalogoDe'[muestra.atributos[f].valor] = muestra.atributos[f].catalogo
        BY <1>1 DEF ItemDeSuCatalogo
      <3>1. muestra.atributos[f].valor \in Opciones \cup {DESCONOCIDO}
        BY <1>1, ValorDeMuestra
      <3>2. catalogoDe[muestra.atributos[f].valor] = muestra.atributos[f].catalogo
        BY DEF InvPlanilla, ItemDeSuCatalogo
      <3> QED BY <3>1, <3>2
    <2> QED BY <2>6, <2>7, <2>8, <2>9 DEF InvPlanilla
  <1> QED BY <1>2, <1>3

LEMMA PlanillaAlConfigurar ==
  ASSUME InvPlanilla,
         \/ \E f \in CamposTecnicos : BorrarCampoTecnico(f) \/ \E c \in CampoTecnico : EditarCampoTecnico(f, c)
         \/ \E c \in CatalogosDeCampos :
               \/ BorrarCatalogoDeCampo(c)
               \/ \E items \in SUBSET {o \in Opciones : catalogoDe[o] = c} : PublicarEdicion(c, items)
               \/ \E o \in Opciones, vigente \in BOOLEAN : MoverOpcion(o, c, vigente)
         \/ \E p \in PuntosIniciales : RetirarPuntoDeMedida(p)
         \/ RetirarLubricante
  PROVE  InvPlanilla'
  <1>1. /\ CamposPuestos /\ catalogoVivo \in [CatalogosDeCampos -> BOOLEAN]
        /\ actuales \in [CatalogosDeCampos -> SUBSET Opciones] /\ lubricanteActivo \in BOOLEAN
        /\ \A c \in CatalogosDeCampos : \A o \in actuales[c] : catalogoDe[o] = c
        /\ catalogoDe \in [Opciones -> CatalogosDeCampos] /\ mudadas \subseteq Opciones
    BY DEF InvPlanilla, PlanillaTipada
  <1>2. ASSUME NEW f \in CamposTecnicos, BorrarCampoTecnico(f) PROVE InvPlanilla'
    <2>1. tecnicos' = [tecnicos EXCEPT ![f].activo = ~@]
      BY <1>2 DEF BorrarCampoTecnico
    <2>2. tecnicos[f] \in CampoTecnico
      BY <1>1 DEF CamposPuestos
    <2>3. [tecnicos[f] EXCEPT !.activo = ~@] \in CampoTecnico
      BY <2>2 DEF CampoTecnico
    <2>4. CamposPuestos'
      BY <1>1, <2>1, <2>3 DEF CamposPuestos
    <2> QED BY <1>1, <1>2, <2>4, PlanillaAlCambiar DEF BorrarCampoTecnico
  <1>3. ASSUME NEW f \in CamposTecnicos, NEW c \in CampoTecnico, EditarCampoTecnico(f, c) PROVE InvPlanilla'
    <2>1. CamposPuestos'
      BY <1>1, <1>3 DEF CamposPuestos, EditarCampoTecnico
    <2> QED BY <1>1, <1>3, <2>1, PlanillaAlCambiar DEF EditarCampoTecnico
  <1>4. ASSUME NEW c \in CatalogosDeCampos, BorrarCatalogoDeCampo(c) PROVE InvPlanilla'
    <2>1. CamposPuestos' /\ (catalogoVivo \in [CatalogosDeCampos -> BOOLEAN])'
      BY <1>1, <1>4 DEF CamposPuestos, BorrarCatalogoDeCampo
    <2> QED BY <1>1, <1>4, <2>1, PlanillaAlCambiar DEF BorrarCatalogoDeCampo
  <1>5. ASSUME NEW c \in CatalogosDeCampos, NEW items \in SUBSET {o \in Opciones : catalogoDe[o] = c},
               PublicarEdicion(c, items)
        PROVE  InvPlanilla'
    <2>1. actuales' = [actuales EXCEPT ![c] = items] /\ CamposPuestos'
      BY <1>1, <1>5 DEF PublicarEdicion, CamposPuestos
    <2>2. /\ actuales' \in [CatalogosDeCampos -> SUBSET Opciones]
          /\ \A d \in CatalogosDeCampos : \A o \in actuales'[d] : catalogoDe[o] = d
      BY <1>1, <2>1
    <2> QED BY <1>1, <1>5, <2>1, <2>2, PlanillaAlCambiar DEF PublicarEdicion
  <1>6. ASSUME NEW p \in PuntosIniciales, RetirarPuntoDeMedida(p) PROVE InvPlanilla'
    BY <1>1, <1>6, PlanillaAlCambiar DEF RetirarPuntoDeMedida, CamposPuestos
  <1>7. ASSUME RetirarLubricante PROVE InvPlanilla'
    BY <1>1, <1>7, PlanillaAlCambiar DEF RetirarLubricante, CamposPuestos
  <1>8. ASSUME NEW c \in CatalogosDeCampos, NEW o \in Opciones, NEW vigente \in BOOLEAN,
               MoverOpcion(o, c, vigente)
        PROVE  InvPlanilla'
    <2> DEFINE lista(d) == IF d = c /\ vigente THEN actuales[d] \cup {o} ELSE actuales[d] \ {o}
    <2>1. /\ catalogoDe' = [catalogoDe EXCEPT ![o] = c] /\ mudadas' = mudadas \cup {o}
          /\ actuales' = [d \in CatalogosDeCampos |-> lista(d)]
          /\ CambiarConfiguracion
          /\ UNCHANGED <<tecnicos, catalogoVivo, maquinas, puntos, lubricanteActivo>>
      BY <1>8 DEF MoverOpcion
    <2>2. \A d \in CatalogosDeCampos : lista(d) \in SUBSET Opciones /\ lista(d) \subseteq actuales[d] \cup {o}
      BY <1>1
    <2>3. \A d \in CatalogosDeCampos : o \in lista(d) => d = c
      OBVIOUS
    <2> HIDE DEF lista
    <2>4. actuales' \in [CatalogosDeCampos -> SUBSET Opciones] /\ catalogoDe' \in [Opciones -> CatalogosDeCampos]
      BY <1>1, <2>1, <2>2
    <2>5. ASSUME NEW d \in CatalogosDeCampos, NEW x \in actuales'[d] PROVE catalogoDe'[x] = d
      <3>1. x \in lista(d) /\ x \in Opciones
        BY <2>1, <2>2, <2>5
      <3>2. CASE x = o
        BY <1>1, <2>1, <2>3, <3>1, <3>2
      <3>3. CASE x # o
        <4>1. x \in actuales[d]
          BY <2>2, <3>1, <3>3
        <4> QED BY <1>1, <2>1, <3>3, <4>1
      <3> QED BY <3>2, <3>3
    <2>6. \A x \in Opciones \ mudadas' : catalogoDe'[x] = catalogoDe[x]
      BY <1>1, <2>1
    <2>7. CamposPuestos'
      BY <1>1, <2>1 DEF CamposPuestos
    <2> QED BY <1>1, <2>1, <2>4, <2>5, <2>6, <2>7, PlanillaAlCambiar
  <1> QED BY <1>2, <1>3, <1>4, <1>5, <1>6, <1>7, <1>8

LEMMA PlanillaAlDescargar ==
  ASSUME InvPlanilla, NEW e \in Empresas \cup {SinDato}, Descargar(e) \/ Vencer
  PROVE  InvPlanilla'
  <1>1. /\ previa = SinDato /\ previa' = previa /\ muestra' = SinDato
        /\ UNCHANGED <<tecnicos, catalogoVivo, catalogoDe, actuales, maquinas, puntos, lubricanteActivo,
                       mudadas, retoques>>
    BY DEF InvPlanilla, PlanillaTipada, Descargar, Vencer, configuracionDePlanilla
  <1>2. DOMAIN plantilla' = {"empresa", "encabezados", "vencida"} /\ plantilla'.empresa \in Empresas \cup {SinDato}
    <2>1. CASE Descargar(e)
      BY <2>1 DEF Descargar
    <2>2. CASE Vencer
      <3>1. /\ plantilla' = [plantilla EXCEPT !.vencida = TRUE] /\ DOMAIN plantilla = {"empresa", "encabezados", "vencida"}
            /\ plantilla.empresa \in Empresas \cup {SinDato}
        BY <2>2 DEF Vencer, InvPlanilla, PlanillaTipada
      <3> QED BY <3>1
    <2> QED BY <2>1, <2>2
  <1>3. PlanillaTipada'
    BY <1>1, <1>2 DEF InvPlanilla, PlanillaTipada, CamposPuestos
  <1> QED BY <1>1, <1>3
          DEF InvPlanilla, LeidaFiel, AunVale, Pasada, OfrecidoLeido, AceptadaSeRegistra,
              RegistradaComoSeEscribio, ItemDeSuCatalogo

(* What the preview reads and answers for a row. *)
Leyendo(fila, e) ==
    LET p == PuntoLeido(fila, e) IN
    [fila |-> fila, punto |-> p, maquina |-> IF p # SinDato THEN p.maquina ELSE fila.maquina,
     titulos |-> [f \in EnPlanilla |-> tecnicos[f].titulo], atributos |-> Atributos(fila)]

LEMMA LeyendoEs ==
  ASSUME PlanillaTipada, NEW fila \in FilaDeMuestra, NEW e \in Empresas \cup {SinDato}
  PROVE  LET l == Leyendo(fila, e) IN
         /\ l \in Lectura /\ l.fila = fila /\ l.punto = PuntoLeido(fila, e)
         /\ l.maquina = IF l.punto # SinDato THEN l.punto.maquina ELSE fila.maquina
         /\ DOMAIN l.titulos = EnPlanilla /\ DOMAIN l.atributos = EnPlanilla
         /\ \A f \in EnPlanilla : l.titulos[f] = tecnicos[f].titulo /\ l.atributos[f] = Leido(fila, f)
         /\ l.punto # SinDato => l.punto \in puntos /\ (e # SinDato => l.punto.maquina.empresa = e)
         /\ \A f \in EnPlanilla : Columna(f) \in 1..Cardinality(CamposTecnicos) /\ tecnicos[f].catalogo \in CatalogosDeCampos
  <1> DEFINE p == PuntoLeido(fila, e)
             titulos == [f \in EnPlanilla |-> tecnicos[f].titulo]
             maquina == IF p # SinDato THEN p.maquina ELSE fila.maquina
  <1>1. EnPlanilla \in SUBSET CamposTecnicos /\ \A f \in EnPlanilla : tecnicos[f] \in CampoTecnico
    BY DEF EnPlanilla, PlanillaTipada, CamposPuestos
  <1>2. \A f \in EnPlanilla : Columna(f) \in 1..Cardinality(CamposTecnicos)
    <2> DEFINE n == Cardinality(EnPlanilla)
               m == Cardinality(CamposTecnicos)
    <2>1. n <= m /\ n \in Nat /\ m \in Nat
      BY <1>1, PlanillaFinita, FS_Subset, FS_CardinalityType
    <2>2. \A f \in EnPlanilla : Columna(f) \in 1..n
      BY ColumnasEs DEF PlanillaTipada
    <2> HIDE DEF n, m
    <2>3. \A f \in EnPlanilla : Columna(f) \in 1..m
      BY <2>1, <2>2
    <2> QED BY <2>3 DEF m
  <1>3. \A f \in EnPlanilla : Leido(fila, f) \in Opciones \cup {SinDato, DESCONOCIDO}
    <2> TAKE f \in EnPlanilla
    <2>1. fila.celdas \in [1..Cardinality(CamposTecnicos) -> Opciones \cup {SinDato, DESCONOCIDO}]
      BY DEF FilaDeMuestra
    <2>2. fila.celdas[Columna(f)] \in Opciones \cup {SinDato, DESCONOCIDO}
      BY <1>2, <2>1
    <2> QED BY <2>2 DEF Leido
  <1>4. titulos \in [EnPlanilla -> Titulos] /\ Atributos(fila) \in [EnPlanilla -> Opciones \cup {SinDato, DESCONOCIDO}]
    BY <1>1, <1>3 DEF CampoTecnico, Atributos
  <1>5. titulos \in PorCampo(Titulos) /\ Atributos(fila) \in PorCampo(Opciones \cup {SinDato, DESCONOCIDO})
    BY <1>1, <1>4 DEF PorCampo
  <1>6. p # SinDato => p \in puntos /\ (e # SinDato => p.maquina.empresa = e) /\ p \in PuntoDeMedida /\ p.maquina \in Maquina
    BY DEF PuntoLeido, DeLaEmpresa, PlanillaTipada, PuntoDeMedida
  <1>7. p \in PuntoDeMedida \cup {SinDato} /\ maquina \in Maquina \cup {SinDato}
    BY <1>6 DEF FilaDeMuestra
  <1>8. /\ DOMAIN titulos = EnPlanilla /\ DOMAIN Atributos(fila) = EnPlanilla
        /\ \A f \in EnPlanilla : titulos[f] = tecnicos[f].titulo /\ Atributos(fila)[f] = Leido(fila, f)
    BY DEF Atributos
  <1>9. Leyendo(fila, e) = [fila |-> fila, punto |-> p, maquina |-> maquina, titulos |-> titulos,
                            atributos |-> Atributos(fila)]
    BY DEF Leyendo
  <1>10. maquina = IF p # SinDato THEN p.maquina ELSE fila.maquina
    OBVIOUS
  <1>11. \A f \in EnPlanilla : tecnicos[f].catalogo \in CatalogosDeCampos
    BY <1>1 DEF CampoTecnico
  <1> HIDE DEF p, titulos, maquina
  <1>12. Leyendo(fila, e) \in Lectura
    BY <1>5, <1>7, <1>9 DEF Lectura
  <1> QED BY <1>2, <1>6, <1>8, <1>9, <1>10, <1>11, <1>12 DEF p

LEMMA LeyendoFiel ==
  ASSUME PlanillaTipada, NEW fila \in FilaDeMuestra, NEW e \in Empresas \cup {SinDato}, Errores(fila, e) = {}
  PROVE  LecturaFiel(Leyendo(fila, e), Encabezados, e)
  <1> DEFINE l == Leyendo(fila, e)
             p == PuntoLeido(fila, e)
             n == Cardinality(EnPlanilla)
  <1>1. /\ l.fila = fila /\ l.punto = p
        /\ l.maquina = IF p # SinDato THEN p.maquina ELSE fila.maquina
        /\ DOMAIN l.titulos = EnPlanilla /\ DOMAIN l.atributos = EnPlanilla
        /\ \A f \in EnPlanilla : l.titulos[f] = tecnicos[f].titulo /\ l.atributos[f] = Leido(fila, f)
        /\ p # SinDato => (e # SinDato => p.maquina.empresa = e)
    BY LeyendoEs
  <1>2. p = SinDato /\ fila.maquina # SinDato => DeLaEmpresa(e, fila.maquina.empresa)
    BY ErroresSon
  <1>3. /\ Columnas \in [1..n -> EnPlanilla]
        /\ \A f \in EnPlanilla : Columna(f) \in 1..n /\ Columnas[Columna(f)] = f
        /\ \A i \in 1..n : Columna(Columnas[i]) = i
    BY ColumnasEs DEF PlanillaTipada
  <1>4. DOMAIN Encabezados = 1..n /\ \A i \in 1..n : Encabezados[i] = tecnicos[Columnas[i]].titulo
    BY <1>3 DEF Encabezados
  <1> HIDE DEF l, p, n
  <1>5. ASSUME NEW f \in DOMAIN l.atributos
        PROVE  \E i \in DOMAIN Encabezados :
                  /\ Encabezados[i] = l.titulos[f]
                  /\ l.fila.celdas[i] = SinDato \/ l.fila.celdas[i] = l.atributos[f]
    <2>1. f \in EnPlanilla /\ Columna(f) \in DOMAIN Encabezados /\ Encabezados[Columna(f)] = l.titulos[f]
      BY <1>1, <1>3, <1>4
    <2>2. l.fila.celdas[Columna(f)] = SinDato \/ l.fila.celdas[Columna(f)] = l.atributos[f]
      BY <1>1, <2>1 DEF Leido
    <2> QED BY <2>1, <2>2
  <1>6. ASSUME NEW i \in DOMAIN Encabezados, l.fila.celdas[i] # SinDato
        PROVE  \E f \in DOMAIN l.atributos : l.titulos[f] = Encabezados[i] /\ l.atributos[f] = l.fila.celdas[i]
    <2>1. i \in 1..n /\ Columnas[i] \in EnPlanilla /\ Columna(Columnas[i]) = i
      BY <1>3, <1>4
    <2>2. l.atributos[Columnas[i]] = l.fila.celdas[i]
      BY <1>1, <1>6, <2>1 DEF Leido
    <2> QED BY <1>1, <1>4, <2>1, <2>2
  <1>7. /\ l.punto # SinDato => l.maquina = l.punto.maquina
        /\ (l.punto # SinDato \/ l.maquina # SinDato) /\ e # SinDato => l.maquina.empresa = e
    BY <1>1, <1>2 DEF DeLaEmpresa
  <1> QED BY <1>5, <1>6, <1>7 DEF LecturaFiel, l

LEMMA PlanillaAlPrevisualizar ==
  ASSUME InvPlanilla, NEW fila \in FilasEscritas, Previsualizar(fila)
  PROVE  InvPlanilla'
  <1> DEFINE e == plantilla.empresa
             l == Leyendo(fila, e)
             errores == Errores(fila, e)
             p == PuntoLeido(fila, e)
             r == [errores |-> errores, ofrecida |-> Ofrece(fila, e), vigente |-> TRUE,
                   leida |-> IF errores = {} THEN l ELSE SinDato]
  <1>1. /\ PlanillaTipada /\ plantilla # SinDato /\ previa = SinDato /\ muestra = SinDato
        /\ plantilla.encabezados = Encabezados
        /\ plantilla' = plantilla /\ muestra' = muestra /\ retoques' = retoques
        /\ UNCHANGED <<tecnicos, catalogoVivo, catalogoDe, actuales, maquinas, puntos, lubricanteActivo, mudadas>>
        /\ previa' = r
    BY DEF InvPlanilla, PlanillaTipada, Previsualizar, Leyendo, configuracionDePlanilla
  <1>2. fila \in FilaDeMuestra /\ e \in Empresas \cup {SinDato}
    BY <1>1, FilasPosibles DEF PlanillaTipada
  <1>3. l \in Lectura /\ l # SinDato
    BY <1>1, <1>2, LeyendoEs, SinDatoNoEsFila
  <1>4. errores \in SUBSET Motivos
    BY ErroresSon
  <1>5. Ofrece(fila, e) \in BOOLEAN
    BY DEF Ofrece
  <1>6. errores = {} => LecturaFiel(l, plantilla.encabezados, e)
    BY <1>1, <1>2, LeyendoFiel
  <1>7. errores = {} =>
           /\ fila.condicion \in Condiciones
           /\ fila.lubricante => lubricanteActivo
           /\ p # SinDato => fila.manual = SinDato
           /\ fila.condicion = "usada" => p # SinDato \/ fila.placa # SinDato
           /\ \A f \in EnPlanilla : ~OpcionErrada(fila, f) /\ ~CampoVacio(fila, f)
    BY ErroresSon
  <1>8. /\ l.fila = fila /\ l.punto = p
        /\ l.maquina = IF p # SinDato THEN p.maquina ELSE fila.maquina
        /\ DOMAIN l.atributos = EnPlanilla
        /\ \A f \in EnPlanilla : l.atributos[f] = Leido(fila, f) /\ tecnicos[f].catalogo \in CatalogosDeCampos
        /\ p # SinDato => p \in puntos /\ (e # SinDato => p.maquina.empresa = e)
    BY <1>1, <1>2, LeyendoEs
  <1>9. Ofrece(fila, e) => errores \cap {"punto", "maquina", "lubricante", "opcion"} = {}
    <2> SUFFICES ASSUME Ofrece(fila, e)
                 PROVE  "punto" \notin errores /\ "maquina" \notin errores /\ "lubricante" \notin errores /\ "opcion" \notin errores
      OBVIOUS
    <2>1. "punto" \notin errores
      BY ErroresSon DEF Ofrece, PuntoLeido, DeLaEmpresa
    <2>2. "maquina" \notin errores
      BY ErroresSon DEF Ofrece, DeLaEmpresa
    <2>3. "lubricante" \notin errores
      BY ErroresSon DEF Ofrece
    <2>4. \A f \in EnPlanilla : ~OpcionErrada(fila, f)
      BY DEF Ofrece, OpcionErrada, Leido
    <2>5. "opcion" \notin errores
      BY <2>4, ErroresSon
    <2> QED BY <2>1, <2>2, <2>3, <2>5
  <1> HIDE DEF l, errores, p
  <1>10. r \in Respuesta
    BY <1>3, <1>4, <1>5 DEF Respuesta
  <1>11. /\ previa' \in Respuesta /\ previa'.errores = errores /\ previa'.ofrecida = Ofrece(fila, e)
         /\ errores = {} => previa'.leida = l
         /\ errores # {} => previa'.leida = SinDato
    BY <1>1, <1>10
  <1> HIDE DEF r
  <1>12. PlanillaTipada'
    BY <1>1, <1>3, <1>11 DEF PlanillaTipada, CamposPuestos
  <1>13. LeidaFiel'
    BY <1>1, <1>6, <1>11 DEF LeidaFiel, Pasada, LecturaFiel
  <1>14. OfrecidoLeido'
    BY <1>9, <1>11 DEF OfrecidoLeido
  <1>15. AceptadaSeRegistra' /\ RegistradaComoSeEscribio' /\ ItemDeSuCatalogo'
    BY <1>1 DEF AceptadaSeRegistra, RegistradaComoSeEscribio, ItemDeSuCatalogo
  <1>16. ASSUME errores = {}, \A f \in CamposRequeridos : catalogoVivo[tecnicos[f].catalogo]
         PROVE  (MuestraValida(Enviada) /\ DelLote(Enviada, plantilla.empresa))'
    <2> DEFINE llenos == {f \in EnPlanilla : l.atributos[f] # SinDato}
               m == [condicion |-> fila.condicion, maquina |-> l.maquina, punto |-> p, placa |-> fila.placa,
                     manual |-> fila.manual, lubricante |-> fila.lubricante,
                     atributos |-> [f \in llenos |-> l.atributos[f]]]
    <2>1. Enviada' = m
      BY <1>8, <1>11, <1>16 DEF Enviada
    <2>2. /\ m.condicion = fila.condicion /\ m.maquina = l.maquina /\ m.punto = p /\ m.placa = fila.placa
          /\ m.manual = fila.manual /\ m.lubricante = fila.lubricante /\ DOMAIN m.atributos = llenos
          /\ \A f \in llenos : m.atributos[f] = l.atributos[f]
      OBVIOUS
    <2> HIDE DEF m
    <2>3. \A f \in llenos : ValorValido(f, m.atributos[f])
      <3> SUFFICES ASSUME NEW f \in llenos PROVE ValorValido(f, l.atributos[f])
        BY <2>2
      <3>1. l.atributos[f] = Leido(fila, f) /\ l.atributos[f] # SinDato /\ ~OpcionErrada(fila, f)
            /\ tecnicos[f].catalogo \in CatalogosDeCampos
        BY <1>7, <1>8, <1>16
      <3>2. l.atributos[f] = DESCONOCIDO \/ l.atributos[f] \in actuales[tecnicos[f].catalogo]
        BY <3>1 DEF OpcionErrada
      <3> QED BY <1>1, <3>1, <3>2 DEF PlanillaTipada, ValorValido
    <2>4. CamposRequeridos \subseteq llenos
      <3> SUFFICES ASSUME NEW f \in CamposRequeridos PROVE f \in llenos
        OBVIOUS
      <3>1. f \in EnPlanilla /\ tecnicos[f].obligatorio
        BY <1>16 DEF CamposRequeridos, EnPlanilla
      <3>2. l.atributos[f] \in Opciones \cup {DESCONOCIDO}
        BY <1>7, <1>8, <1>16, <3>1 DEF CampoVacio
      <3> QED BY <3>1, <3>2, SinDatoNoEsFila, PlanillaFinita
    <2> HIDE DEF llenos
    <2>5. MuestraValida(m)
      BY <1>7, <1>8, <1>16, <2>2, <2>3, <2>4 DEF MuestraValida
    <2>6. DelLote(m, e)
      BY <1>8, <2>2 DEF DelLote
    <2> QED BY <1>1, <2>1, <2>5, <2>6 DEF MuestraValida, DelLote, ValorValido, CamposRequeridos
  <1>17. AunVale'
    BY <1>1, <1>11, <1>16 DEF AunVale, Pasada, CamposRequeridos
  <1> QED BY <1>12, <1>13, <1>14, <1>15, <1>17 DEF InvPlanilla

(* What the front end sends of an accepted row. *)
LEMMA EnviadaEs ==
  ASSUME InvPlanilla, Pasada
  PROVE  LET l == previa.leida  m == Enviada IN
         /\ DOMAIN m.atributos = {f \in DOMAIN l.atributos : l.atributos[f] # SinDato}
         /\ \A f \in DOMAIN m.atributos : m.atributos[f] = l.atributos[f] /\ m.atributos[f] \in Opciones \cup {DESCONOCIDO}
         /\ DOMAIN m.atributos \in SUBSET CamposTecnicos
         /\ m.maquina = l.maquina /\ m.punto = l.punto /\ m.placa = l.fila.placa /\ m.manual = l.fila.manual
         /\ l.maquina \in Maquina \cup {SinDato} /\ l.punto \in PuntoDeMedida \cup {SinDato}
         /\ l.fila.placa \in Placas \cup {SinDato} /\ l.fila.manual \in Nombres \cup {SinDato}
  <1> DEFINE l == previa.leida
             llenos == {f \in DOMAIN l.atributos : l.atributos[f] # SinDato}
  <1>1. l \in Lectura
    BY RespuestaEs DEF InvPlanilla, Pasada
  <1>2. /\ l.fila \in FilaDeMuestra /\ l.maquina \in Maquina \cup {SinDato} /\ l.punto \in PuntoDeMedida \cup {SinDato}
        /\ l.atributos \in PorCampo(Opciones \cup {SinDato, DESCONOCIDO})
    BY <1>1 DEF Lectura
  <1>3. PICK F \in SUBSET CamposTecnicos : l.atributos \in [F -> Opciones \cup {SinDato, DESCONOCIDO}]
    BY <1>2 DEF PorCampo
  <1>4. llenos \in SUBSET CamposTecnicos /\ \A f \in llenos : l.atributos[f] \in Opciones \cup {DESCONOCIDO}
    BY <1>3
  <1>5. l.fila.placa \in Placas \cup {SinDato} /\ l.fila.manual \in Nombres \cup {SinDato}
    BY <1>2 DEF FilaDeMuestra
  <1>6. Enviada = [condicion |-> l.fila.condicion, maquina |-> l.maquina, punto |-> l.punto,
                   placa |-> l.fila.placa, manual |-> l.fila.manual, lubricante |-> l.fila.lubricante,
                   atributos |-> [f \in llenos |-> l.atributos[f]]]
    BY DEF Enviada
  <1> HIDE DEF l
  <1>7. /\ DOMAIN Enviada.atributos = llenos /\ \A f \in llenos : Enviada.atributos[f] = l.atributos[f]
        /\ Enviada.maquina = l.maquina /\ Enviada.punto = l.punto
        /\ Enviada.placa = l.fila.placa /\ Enviada.manual = l.fila.manual
    BY <1>6
  <1> QED BY <1>2, <1>4, <1>5, <1>7 DEF l

LEMMA PlanillaAlRegistrar ==
  ASSUME InvPlanilla, NEW e \in Empresas \cup {SinDato}, RegistrarLote(e) \/ AgregarAlLote(e)
  PROVE  InvPlanilla'
  <1> DEFINE l == previa.leida
             m == Enviada
  <1>1. /\ PlanillaTipada /\ Pasada /\ muestra = SinDato /\ previa # SinDato /\ plantilla # SinDato
        /\ UNCHANGED <<tecnicos, catalogoVivo, catalogoDe, actuales, lubricanteActivo, plantilla, previa, retoques>>
        /\ mudadas' = {}
    BY DEF InvPlanilla, PlanillaTipada, RegistrarLote, AgregarAlLote, Registrable, Pasada
  <1>2. \/ \E nueva \in BOOLEAN : MuestraValida(m) /\ (nueva => DelLote(m, e)) /\ GuardarMuestra(m, e, nueva)
        \/ ~(MuestraValida(m) /\ DelLote(m, e)) /\ RechazarMuestra(e)
    BY DEF RegistrarLote, AgregarAlLote
  <1>3. LecturaFiel(l, plantilla.encabezados, plantilla.empresa)
    BY <1>1 DEF InvPlanilla, PlanillaTipada, LeidaFiel
  <1>4. /\ DOMAIN m.atributos = {f \in DOMAIN l.atributos : l.atributos[f] # SinDato}
        /\ \A f \in DOMAIN m.atributos : m.atributos[f] = l.atributos[f] /\ m.atributos[f] \in Opciones \cup {DESCONOCIDO}
        /\ DOMAIN m.atributos \in SUBSET CamposTecnicos
        /\ m.maquina = l.maquina /\ m.punto = l.punto /\ m.placa = l.fila.placa /\ m.manual = l.fila.manual
        /\ l.maquina \in Maquina \cup {SinDato} /\ l.punto \in PuntoDeMedida \cup {SinDato}
        /\ l.fila.placa \in Placas \cup {SinDato} /\ l.fila.manual \in Nombres \cup {SinDato}
    BY <1>1, EnviadaEs
  <1> HIDE DEF m
  <1>5. LeidaFiel' /\ OfrecidoLeido'
    BY <1>1 DEF InvPlanilla, LeidaFiel, Pasada, LecturaFiel, OfrecidoLeido
  <1>6. ASSUME NEW nueva \in BOOLEAN, MuestraValida(m), nueva => DelLote(m, e), GuardarMuestra(m, e, nueva)
        PROVE  InvPlanilla'
    <2> DEFINE maquina == MaquinaResuelta(m, e)
               punto == PuntoResuelto(m, maquina)
               atributos == [f \in DOMAIN m.atributos |->
                                [catalogo |-> tecnicos[f].catalogo, valor |-> m.atributos[f]]]
    <2>1. /\ muestra' = [estado |-> "registrada", nueva |-> nueva, empresa |-> e, maquina |-> maquina,
                         punto |-> punto, atributos |-> atributos]
          /\ maquinas' = maquinas \cup ({maquina} \ {SinDato})
          /\ puntos' = puntos \cup ({punto} \ {SinDato})
      BY <1>6 DEF GuardarMuestra
    <2>2. maquina \in Maquina \cup {SinDato}
      BY <1>3, <1>4 DEF MaquinaResuelta, LecturaFiel, Maquina, PuntoDeMedida
    <2>20. ASSUME nueva, maquina # SinDato, e # SinDato, e = plantilla.empresa \/ l.punto # SinDato
           PROVE  maquina.empresa = e
      <3>1. CASE l.punto # SinDato
        BY <1>4, <1>6, <2>20, <3>1 DEF MaquinaResuelta, DelLote
      <3>2. CASE l.punto = SinDato
        <4>1. l.maquina # SinDato => l.maquina.empresa = e
          BY <1>3, <2>20, <3>2 DEF LecturaFiel
        <4> QED BY <1>4, <2>20, <3>2, <4>1 DEF MaquinaResuelta
      <3> QED BY <3>1, <3>2
    <2>3. punto # SinDato => punto.maquina = maquina
      <3>1. m.punto # SinDato => maquina = m.punto.maquina
        BY DEF MaquinaResuelta
      <3> HIDE DEF maquina
      <3> QED BY <3>1 DEF PuntoResuelto
    <2> HIDE DEF maquina
    <2>4. punto \in PuntoDeMedida \cup {SinDato}
      BY <1>4, <2>2 DEF PuntoResuelto, PuntoDeMedida
    <2>5. /\ DOMAIN atributos = DOMAIN m.atributos
          /\ \A f \in DOMAIN m.atributos : /\ atributos[f].catalogo = tecnicos[f].catalogo
                                           /\ atributos[f].valor = m.atributos[f]
      OBVIOUS
    <2>6. atributos \in PorCampo([catalogo : CatalogosDeCampos, valor : Opciones \cup {DESCONOCIDO}])
      <3>1. \A f \in CamposTecnicos : tecnicos[f].catalogo \in CatalogosDeCampos
        BY <1>1 DEF PlanillaTipada, CamposPuestos, CampoTecnico
      <3>2. atributos \in [DOMAIN m.atributos -> [catalogo : CatalogosDeCampos, valor : Opciones \cup {DESCONOCIDO}]]
        BY <1>4, <3>1
      <3> HIDE DEF atributos
      <3> QED BY <1>4, <3>2 DEF PorCampo
    <2> HIDE DEF atributos, punto
    <2>7. muestra' \in MuestraGuardada
      BY <2>1, <2>2, <2>4, <2>6 DEF MuestraGuardada
    <2>8. /\ muestra'.estado = "registrada" /\ muestra'.empresa = e /\ muestra'.maquina = maquina /\ muestra'.nueva = nueva
          /\ muestra'.punto = punto /\ muestra'.atributos = atributos
      BY <2>1
    <2>9. PlanillaTipada'
      BY <1>1, <2>1, <2>2, <2>4, <2>7 DEF PlanillaTipada, CamposPuestos
    <2>10. AunVale' /\ AceptadaSeRegistra'
      BY <2>7, <2>8, SinDatoNoEsFila DEF AunVale, AceptadaSeRegistra
    <2>11. \A f \in DOMAIN m.atributos : ValorValido(f, m.atributos[f])
      BY <1>6 DEF MuestraValida
    <2>12. ItemDeSuCatalogo'
      BY <1>1, <2>5, <2>8, <2>11 DEF ItemDeSuCatalogo, ValorValido
    <2>13. RegistradaComoSeEscribio'
      <3> DEFINE titulos == plantilla.encabezados
      <3>1. ASSUME NEW f \in DOMAIN atributos
            PROVE  \E i \in DOMAIN titulos : /\ titulos[i] = l.titulos[f]
                                             /\ l.fila.celdas[i] = SinDato \/ l.fila.celdas[i] = atributos[f].valor
        BY <1>3, <1>4, <2>5 DEF LecturaFiel
      <3>2. ASSUME NEW i \in DOMAIN titulos, l.fila.celdas[i] # SinDato
            PROVE  \E f \in DOMAIN atributos : l.titulos[f] = titulos[i] /\ atributos[f].valor = l.fila.celdas[i]
        <4>1. PICK f \in DOMAIN l.atributos : l.titulos[f] = titulos[i] /\ l.atributos[f] = l.fila.celdas[i]
          BY <1>3, <3>2 DEF LecturaFiel
        <4>2. f \in DOMAIN m.atributos
          BY <1>4, <3>2, <4>1
        <4> QED BY <1>4, <2>5, <4>1, <4>2
      <3> QED BY <1>1, <2>20, <2>3, <2>8, <3>1, <3>2 DEF RegistradaComoSeEscribio
    <2> QED BY <1>5, <2>9, <2>10, <2>12, <2>13 DEF InvPlanilla
  <1>7. ASSUME ~(MuestraValida(m) /\ DelLote(m, e)), RechazarMuestra(e) PROVE InvPlanilla'
    <2> DEFINE exigido == \E f \in CamposRequeridos : ~catalogoVivo[tecnicos[f].catalogo]
    <2>1. muestra' = [estado |-> "rechazada", empresa |-> e, exigido |-> exigido] /\ maquinas' = maquinas /\ puntos' = puntos
      BY <1>7 DEF RechazarMuestra
    <2>2. e = plantilla.empresa => ~previa.vigente \/ exigido
      BY <1>1, <1>7 DEF InvPlanilla, AunVale, m
    <2>3. exigido \in BOOLEAN
      OBVIOUS
    <2> HIDE DEF exigido
    <2>4. muestra' \in MuestraRechazada
      BY <2>1, <2>3 DEF MuestraRechazada
    <2>5. muestra'.estado = "rechazada" /\ muestra'.exigido = exigido /\ muestra'.empresa = e
      BY <2>1
    <2>6. PlanillaTipada'
      BY <1>1, <2>1, <2>4 DEF PlanillaTipada, CamposPuestos
    <2>7. AunVale'
      BY <2>4, SinDatoNoEsFila DEF AunVale
    <2>8. AceptadaSeRegistra' /\ RegistradaComoSeEscribio' /\ ItemDeSuCatalogo'
      BY <1>1, <2>2, <2>5 DEF AceptadaSeRegistra, RegistradaComoSeEscribio, ItemDeSuCatalogo
    <2> QED BY <1>5, <2>6, <2>7, <2>8 DEF InvPlanilla
  <1> QED BY <1>2, <1>6, <1>7

DeSuCatalogo(a) == a.valor \notin {DESCONOCIDO} \cup mudadas => catalogoDe[a.valor] = a.catalogo

(* The attributes of a stored sample change, all with valid values. *)
LEMMA PlanillaAlEditarMuestra ==
  ASSUME InvPlanilla, muestra # SinDato, muestra.estado # "rechazada", NEW nuevos,
         retoques < MaxCambiosDePlanilla, retoques' = retoques + 1,
         UNCHANGED <<tecnicos, catalogoVivo, catalogoDe, actuales, maquinas, puntos, lubricanteActivo,
                     plantilla, previa, mudadas>>,
         muestra' = [muestra EXCEPT !.estado = "editada", !.atributos = nuevos],
         nuevos \in PorCampo([catalogo : CatalogosDeCampos, valor : Opciones \cup {DESCONOCIDO}]),
         \A f \in DOMAIN nuevos : DeSuCatalogo(nuevos[f])
  PROVE  InvPlanilla'
  <1>1. PlanillaTipada /\ muestra \in MuestraGuardada /\ previa # SinDato
    BY DEF InvPlanilla, PlanillaTipada, MuestraRechazada
  <1>2. muestra' \in MuestraGuardada /\ muestra'.estado = "editada" /\ muestra'.atributos = nuevos
    <2>1. [muestra EXCEPT !.estado = "editada"] \in MuestraGuardada
      BY <1>1 DEF MuestraGuardada
    <2> DEFINE n == [muestra EXCEPT !.estado = "editada"]
    <2>2. n.estado = "editada"
      BY <1>1 DEF MuestraGuardada
    <2>3. muestra' = [n EXCEPT !.atributos = nuevos]
      OBVIOUS
    <2> HIDE DEF n
    <2>4. n \in MuestraGuardada
      BY <2>1 DEF n
    <2> QED BY <2>2, <2>3, <2>4 DEF MuestraGuardada
  <1>3. PlanillaTipada'
    BY <1>1, <1>2, PlanillaFinita DEF PlanillaTipada, CamposPuestos
  <1>4. LeidaFiel' /\ OfrecidoLeido'
    BY DEF InvPlanilla, LeidaFiel, Pasada, LecturaFiel, OfrecidoLeido
  <1>5. AunVale' /\ AceptadaSeRegistra' /\ RegistradaComoSeEscribio'
    BY <1>2, SinDatoNoEsFila DEF AunVale, AceptadaSeRegistra, RegistradaComoSeEscribio
  <1>6. ItemDeSuCatalogo'
    BY <1>2 DEF ItemDeSuCatalogo, DeSuCatalogo
  <1> QED BY <1>3, <1>4, <1>5, <1>6 DEF InvPlanilla

LEMMA AtributosEditados ==
  ASSUME InvPlanilla,
         \/ \E f \in CamposTecnicos : \/ BorrarAtributo(f)
                                      \/ \E v \in Opciones \cup {DESCONOCIDO} : EditarAtributo(f, v)
         \/ \E enviados \in SUBSET CamposTecnicos, v \in Opciones \cup {DESCONOCIDO} : ReemplazarAtributos(enviados, v)
  PROVE  InvPlanilla'
  <1> DEFINE a == muestra.atributos
             Atributo == [catalogo : CatalogosDeCampos, valor : Opciones \cup {DESCONOCIDO}]
  <1>1. /\ muestra # SinDato /\ muestra.estado # "rechazada"
        /\ retoques < MaxCambiosDePlanilla /\ retoques' = retoques + 1
        /\ UNCHANGED <<tecnicos, catalogoVivo, catalogoDe, actuales, maquinas, puntos, lubricanteActivo,
                       plantilla, previa, mudadas>>
    BY DEF BorrarAtributo, EditarAtributo, ReemplazarAtributos, configuracionDePlanilla
  <1>2. muestra \in MuestraGuardada
    BY <1>1 DEF InvPlanilla, PlanillaTipada, MuestraRechazada
  <1>3. a \in PorCampo(Atributo)
    BY <1>2 DEF MuestraGuardada
  <1>4. PICK F \in SUBSET CamposTecnicos : a \in [F -> Atributo]
    BY <1>3 DEF PorCampo
  <1>5. \A f \in DOMAIN a : DeSuCatalogo(a[f])
    BY <1>1 DEF InvPlanilla, ItemDeSuCatalogo, DeSuCatalogo
  <1>6. \A f \in CamposTecnicos : tecnicos[f].catalogo \in CatalogosDeCampos
    BY DEF InvPlanilla, PlanillaTipada, CamposPuestos, CampoTecnico
  <1>7. \A f \in CamposTecnicos, v \in Opciones \cup {DESCONOCIDO} :
           /\ [catalogo |-> tecnicos[f].catalogo, valor |-> v] \in Atributo
           /\ ValorValido(f, v) => DeSuCatalogo([catalogo |-> tecnicos[f].catalogo, valor |-> v])
    BY <1>6 DEF ValorValido, DeSuCatalogo
  <1>8. ASSUME NEW f \in CamposTecnicos, BorrarAtributo(f) PROVE InvPlanilla'
    <2> DEFINE nuevos == [g \in DOMAIN a \ {f} |-> a[g]]
    <2>1. muestra' = [muestra EXCEPT !.estado = "editada", !.atributos = nuevos]
      BY <1>2, <1>8 DEF BorrarAtributo, MuestraGuardada
    <2>2. nuevos \in [F \ {f} -> Atributo] /\ F \ {f} \in SUBSET CamposTecnicos
      BY <1>4
    <2>3. nuevos \in PorCampo(Atributo)
      BY <2>2 DEF PorCampo
    <2>4. \A g \in DOMAIN nuevos : DeSuCatalogo(nuevos[g])
      BY <1>5
    <2> HIDE DEF nuevos
    <2> QED BY <1>1, <2>1, <2>3, <2>4, PlanillaAlEditarMuestra
  <1>9. ASSUME NEW f \in CamposTecnicos, NEW v \in Opciones \cup {DESCONOCIDO}, EditarAtributo(f, v)
        PROVE  InvPlanilla'
    <2> DEFINE nuevo == [catalogo |-> tecnicos[f].catalogo, valor |-> v]
               nuevos == [g \in DOMAIN a \cup {f} |-> IF g # f THEN a[g] ELSE nuevo]
    <2>1. muestra' = [muestra EXCEPT !.estado = "editada", !.atributos = nuevos]
      BY <1>2, <1>9 DEF EditarAtributo, MuestraGuardada
    <2>2. nuevo \in Atributo /\ DeSuCatalogo(nuevo)
      BY <1>7, <1>9 DEF EditarAtributo
    <2> HIDE DEF nuevo
    <2>4. nuevos \in [F \cup {f} -> Atributo] /\ F \cup {f} \in SUBSET CamposTecnicos
      BY <1>4, <2>2
    <2>5. nuevos \in PorCampo(Atributo)
      BY <2>4 DEF PorCampo
    <2>6. \A g \in DOMAIN nuevos : DeSuCatalogo(nuevos[g])
      BY <1>5, <2>2
    <2> HIDE DEF nuevos
    <2> QED BY <1>1, <2>1, <2>5, <2>6, PlanillaAlEditarMuestra
  <1>10. ASSUME NEW G \in SUBSET CamposTecnicos, NEW v \in Opciones \cup {DESCONOCIDO}, ReemplazarAtributos(G, v)
         PROVE  InvPlanilla'
    <2> DEFINE nuevos == [f \in G |-> [catalogo |-> tecnicos[f].catalogo, valor |-> v]]
    <2>1. muestra' = [muestra EXCEPT !.estado = "editada", !.atributos = nuevos]
      BY <1>10 DEF ReemplazarAtributos
    <2>2. nuevos \in [G -> Atributo]
      BY <1>7
    <2>3. nuevos \in PorCampo(Atributo)
      BY <2>2 DEF PorCampo
    <2>4. \A f \in G : DeSuCatalogo([catalogo |-> tecnicos[f].catalogo, valor |-> v])
      BY <1>7, <1>10 DEF ReemplazarAtributos
    <2>5. \A f \in DOMAIN nuevos : DeSuCatalogo(nuevos[f])
      BY <2>4
    <2> HIDE DEF nuevos
    <2> QED BY <1>1, <2>1, <2>3, <2>5, PlanillaAlEditarMuestra
  <1> QED BY <1>8, <1>9, <1>10

LEMMA PlanillaPaso == InvPlanilla /\ [NextPlanilla]_varsPlanilla => InvPlanilla'
  <1> SUFFICES ASSUME InvPlanilla, [NextPlanilla]_varsPlanilla PROVE InvPlanilla'
    OBVIOUS
  <1>1. CASE UNCHANGED varsPlanilla
    <2>1. PlanillaTipada' /\ LeidaFiel' /\ OfrecidoLeido' /\ AceptadaSeRegistra'
      BY <1>1 DEF varsPlanilla, InvPlanilla, PlanillaTipada, CamposPuestos, LeidaFiel, LecturaFiel, Pasada, OfrecidoLeido,
                  AceptadaSeRegistra
    <2>2. AunVale'
      BY <1>1 DEF varsPlanilla, InvPlanilla, AunVale, Pasada, Enviada, MuestraValida, DelLote, ValorValido,
                  CamposRequeridos
    <2>3. RegistradaComoSeEscribio' /\ ItemDeSuCatalogo'
      BY <1>1 DEF varsPlanilla, InvPlanilla, RegistradaComoSeEscribio, ItemDeSuCatalogo
    <2> QED BY <2>1, <2>2, <2>3 DEF InvPlanilla
  <1>2. ASSUME NEW e \in Empresas \cup {SinDato}, Descargar(e) PROVE InvPlanilla'
    BY <1>2, PlanillaAlDescargar
  <1>3. CASE Vencer
    BY <1>3, PlanillaAlDescargar
  <1>4. ASSUME NEW fila \in FilasEscritas, Previsualizar(fila) PROVE InvPlanilla'
    BY <1>4, PlanillaAlPrevisualizar
  <1>5. ASSUME NEW e \in Empresas \cup {SinDato}, RegistrarLote(e) \/ AgregarAlLote(e) PROVE InvPlanilla'
    BY <1>5, PlanillaAlRegistrar
  <1> QED BY <1>1, <1>2, <1>3, <1>4, <1>5, PlanillaAlConfigurar, AtributosEditados DEF NextPlanilla

(* For any technical fields, catalogues, plant and written rows: what the  *)
(* template offers is read; what the preview passes is registered, as it   *)
(* was written, in a batch of the company of the template; a sample of a   *)
(* new batch of that company, or of a registered point, is of the company  *)
(* of its batch; and an item is stored with its own catalogue and keeps it *)
(* until the item itself is moved.                                         *)
THEOREM PlanillaSiempreFiel == SpecPlanilla => []PlanillaFiel
  <1>1. InvPlanilla => PlanillaFiel
    BY DEF InvPlanilla, PlanillaFiel
  <1> QED BY <1>1, PlanillaAlEmpezar, PlanillaPaso, PTL DEF SpecPlanilla

(* Technical fields, catalogues and plant keep their types, and an answer  *)
(* of the preview has errors or a row that was read.                       *)
THEOREM PlanillaSiempreTipada == SpecPlanilla => []TiposPlanilla
  <1>1. InvPlanilla => TiposPlanilla
    <2> SUFFICES ASSUME InvPlanilla PROVE TiposPlanilla
      OBVIOUS
    <2>1. muestra # SinDato => muestra.estado \in {"registrada", "editada", "rechazada"}
      BY DEF InvPlanilla, PlanillaTipada, MuestraGuardada, MuestraRechazada
    <2> QED BY <2>1 DEF InvPlanilla, PlanillaTipada, CamposPuestos, TiposPlanilla
  <1> QED BY <1>1, PlanillaAlEmpezar, PlanillaPaso, PTL DEF SpecPlanilla

(* Fields, rows and versions keep their types, and a row names versions    *)
(* that are stored.                                                        *)
THEOREM LibroSiempreTipado ==
  ASSUME NEW listas, NEW hojas, NEW tipos, EntradasDelLibro(listas, hojas, tipos)
  PROVE  SpecLibro(listas, hojas, tipos) => []TiposLibro
  <1>1. InvImportacion => TiposLibro
    <2> SUFFICES ASSUME InvImportacion PROVE TiposLibro
      OBVIOUS
    <2>1. LibroTipado
      BY DEF InvImportacion, InvLibro
    <2>2. \A k \in DOMAIN estructura : estructura[k] \in TiposDeDato
      BY <2>1, TresCampos DEF LibroTipado
    <2>3. ASSUME NEW n \in DOMAIN filas PROVE filas[n].prueba \in PruebasMuestra
      <3>1. filas \in Seq(FilaGuardada)
        BY <2>1 DEF LibroTipado
      <3>2. filas[n] \in FilaGuardada
        BY <3>1
      <3> QED BY <3>2 DEF FilaGuardada
    <2>4. ASSUME NEW i \in DOMAIN versiones PROVE ToSet(versiones[i].valores) \subseteq Celda
      <3>1. versiones \in Seq(VersionGuardada)
        BY <2>1 DEF LibroTipado
      <3>2. versiones[i] \in VersionGuardada
        BY <3>1
      <3>3. versiones[i].valores \in Seq(Celda)
        BY <3>2 DEF VersionGuardada
      <3> QED BY <3>3 DEF ToSet
    <2> QED BY <2>1, <2>2, <2>3, <2>4 DEF LibroTipado, TiposLibro
  <1> QED BY <1>1, ImportacionAlEmpezar, ImportacionPaso, PTL DEF SpecLibro

-----------------------------------------------------------------------------
(* The parts together. *)
Areas(listas, hojas, tipos) ==
    /\ SpecEvaluacion /\ SpecLimites /\ SpecContrato /\ SpecCatalogos /\ SpecDocumento
    /\ SpecLibro(listas, hojas, tipos) /\ SpecPlanilla /\ SpecPredefinidos

LEMMA EntradasDeLaCorrida == EntradasDelLibro(ListasDeValores, Archivos, {"booleano"})
  <1>1. /\ 1 \in Casillas /\ 2 \in Casillas /\ 1 \in PruebasMuestra /\ 2 \in PruebasMuestra
        /\ {"numero", "opcion", "vacia", "etiqueta"} \subseteq Escritos
    BY LibroEnOrden, DosCasillas
  <1>2. ListasDeValores \subseteq Seq(Celda)
    <2>1. \A k \in {1, 2} : \A v \in {"numero", "opcion", "vacia"} : [clave |-> k, valor |-> v] \in Celda
      BY <1>1 DEF Celda
    <2>2. \A a, b \in Celda : <<a>> \in Seq(Celda) /\ <<a, b>> \in Seq(Celda)
      OBVIOUS
    <2> QED BY <2>1, <2>2 DEF ListasDeValores
  <1>3. Archivos \subseteq HojasPosibles
    <2> SUFFICES ASSUME NEW D \in {{1}, {1, 2}}, NEW v \in {"numero", "etiqueta"}
                 PROVE  [p \in D |-> [k \in {1} |-> v]] \in HojasPosibles
      BY DEF Archivos
    <2>1. [k \in {1} |-> v] \in [{1} -> Escritos] /\ {1} \in SUBSET (Casillas \cup {0})
      BY <1>1
    <2>2. [k \in {1} |-> v] \in CeldasPosibles
      BY <2>1 DEF CeldasPosibles
    <2>3. D \in SUBSET PruebasMuestra
      BY <1>1
    <2>4. [p \in D |-> [k \in {1} |-> v]] \in [D -> CeldasPosibles]
      BY <2>2
    <2> QED BY <2>3, <2>4 DEF HojasPosibles
  <1>4. {"booleano"} \subseteq TiposDeDato
    BY DEF TiposDeDato
  <1> QED BY <1>2, <1>3, <1>4 DEF EntradasDelLibro

(* Each part of a behaviour of the checked whole behaves as its own module *)
(* says, and sends lists and files a client may send: what is proved of    *)
(* the parts, run all at once and without the bounds of the run, holds of  *)
(* it.                                                                     *)
THEOREM CadaParteEsLaSuya ==
  /\ SpecConfiguracion => Areas(ListasDeValores, Archivos, {"booleano"})
  /\ EntradasDelLibro(ListasDeValores, Archivos, {"booleano"})
  <1> DEFINE Conf == [NextConfiguracion]_varsConfiguracion
  <1>1. InitConfiguracion =>
            /\ InitEvaluacion /\ InitLimites /\ InitContrato /\ InitCatalogos /\ InitDocumento
            /\ InitLibro /\ InitPlanilla /\ InitPredefinidos
    BY DEF InitConfiguracion
  <1>2. Conf => [NextEvaluacion]_varsEvaluacion
    BY DEF NextConfiguracion, varsConfiguracion, NextEvaluacion, NextRegla, NextResumen
  <1>3. Conf => [NextVersiones \/ NextAsignacion]_varsLimites
    BY DEF NextConfiguracion, varsConfiguracion
  <1>4. Conf => [NextContrato]_varsContrato
    BY DEF NextConfiguracion, varsConfiguracion
  <1>5. Conf => [NextEdiciones \/ NextItems \/ NextEscala]_varsCatalogos
    BY DEF NextConfiguracion, varsConfiguracion
  <1>6. Conf => [NextDocumento]_varsDocumento
    BY DEF NextConfiguracion, varsConfiguracion
  <1>7. Conf => [NextLibro(ListasDeValores, Archivos, {"booleano"})]_varsLibro
    BY DEF NextConfiguracion, varsConfiguracion
  <1>8. Conf => [NextPlanilla]_varsPlanilla
    BY DEF NextConfiguracion, varsConfiguracion
  <1>9. Conf => [NextPredefinidos]_varsPredefinidos
    BY DEF NextConfiguracion, varsConfiguracion
  <1>10. SpecConfiguracion => Areas(ListasDeValores, Archivos, {"booleano"})
    BY <1>1, <1>2, <1>3, <1>4, <1>5, <1>6, <1>7, <1>8, <1>9, PTL
    DEF SpecConfiguracion, Areas, SpecEvaluacion, SpecLimites, SpecContrato, SpecCatalogos,
        SpecDocumento, SpecLibro, SpecPlanilla, SpecPredefinidos
  <1> QED BY <1>10, EntradasDeLaCorrida

(* Every table of the technical configuration holds rows of its form,      *)
(* whatever requests overlap, fail or repeat, and all the parts working at *)
(* once.                                                                   *)
THEOREM ConfiguracionTipada ==
  ASSUME NEW listas, NEW hojas, NEW tipos, EntradasDelLibro(listas, hojas, tipos)
  PROVE  Areas(listas, hojas, tipos) => []TiposConfiguracion
  <1>1. SpecLibro(listas, hojas, tipos) => []TiposLibro
    BY LibroSiempreTipado
  <1>2. SpecPredefinidos => []TiposPredefinidos
    <2>1. Formados => TiposPredefinidos
      BY DEF Formados
    <2> QED BY <2>1, FormadosSiempre, PTL
  <1>3. /\ TiposEvaluacion /\ TiposLimites /\ TiposContrato /\ TiposCatalogos /\ TiposDocumento
        /\ TiposLibro /\ TiposPlanilla /\ TiposPredefinidos
        => TiposConfiguracion
    BY DEF TiposConfiguracion
  <1> QED BY <1>1, <1>2, <1>3, EvaluacionTipada, LimitesTipados, ContratoTipado,
             CatalogosTipados, DocumentoTipado, PlanillaSiempreTipada, PTL DEF Areas

(* What the parts promise, all at once: a verdict that no grouping and no  *)
(* printing changes and no rewriting of an unambiguous scale, a leaf       *)
(* judged by its own rule, one answer to a repeated request, an edition    *)
(* that can be used, a scale with an order, a stored value under its field *)
(* and in its history, a workbook that says what was written, one batch by *)
(* default of a type, and a document that stays.                           *)
THEOREM ConfiguracionCorrecta ==
  ASSUME NEW listas, NEW hojas, NEW tipos, EntradasDelLibro(listas, hojas, tipos)
  PROVE  Areas(listas, hojas, tipos) =>
      /\ [](SeveridadMonotona /\ VeredictoCanonico /\ GruposNoCambianElVeredicto /\ ImpresoFiel)
      /\ [](RespuestaUnica /\ ReglaDeSuHoja /\ VigenteUsable /\ OrdenUnico)
      /\ [](JuzgadoPorSuCampo /\ HistoriaCompleta /\ ImportacionEntera)
      /\ [](PlanillaFiel /\ PredeterminadoUnico)
      /\ DocumentoConservado
  <1>1. SpecLibro(listas, hojas, tipos) => []JuzgadoPorSuCampo
    BY JuzgadoSiemprePorSuCampo
  <1>2. SpecLibro(listas, hojas, tipos) => []HistoriaCompleta
    BY HistoriaSiempreCompleta
  <1>3. SpecLibro(listas, hojas, tipos) => []ImportacionEntera
    BY ImportacionSiempreEntera
  <1> QED BY <1>1, <1>2, <1>3, SeveridadSiempreMonotona, CanonicaSiempreJuzgaIgual,
             GruposNuncaCambianElVeredicto, ImpresoSiempreFiel, RespuestaSiempreUnica,
             SiempreReglaDeSuHoja, VigenteSiempreUsable, OrdenSiempreUnico, PlanillaSiempreFiel,
             PredeterminadoSiempreUnico, DocumentoSiempreConservado, PTL DEF Areas
=============================================================================
