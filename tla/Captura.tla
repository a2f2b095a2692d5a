------------------------------ MODULE Captura ------------------------------
(***************************************************************************)
(* Assignment of tests to the samples of a received batch and entry of     *)
(* their results: assign_batch with synchronize_batch_assignments, the     *)
(* draft and the confirmation of one result, the confirmation of a batch,  *)
(* the Excel import, the invalidation and the correction of a result.      *)
(***************************************************************************)
EXTENDS Recepcion

(* Slip: a draft result does not protect its test. *)
ProtegidoSinBorrador(e) == e \in completados \/ e \in ensayosRevisados

(* What a test must not have for an assignment to change or delete it. *)
Protegido(e) ==
    e \in completados \/ e \in ensayosRevisados \/ resultado[e] # "ninguno"

(* POST assign-batch: the tests of the samples S become P.  Rows left out of
   P are deleted, with their results, unless protected. *)
AsignarPruebas(S, P, ea) ==
    LET retirados == {e \in S \X (Pruebas \ P) : ~Protegido(e)}
        pedidos   == {e \in S \X P : asignacion[e] = "no" \/ ~Protegido(e)}
    IN  /\ PuedeAsignar
        /\ S # {} /\ S \subseteq activas
        /\ asignacion' = [e \in Ensayos |-> IF e \in retirados THEN "no"
                                            ELSE IF e \in pedidos THEN ea
                                            ELSE asignacion[e]]
        /\ resultado' = [e \in Ensayos |-> IF e \in retirados THEN "ninguno"
                                           ELSE resultado[e]]
        /\ completados' = completados \ retirados
        /\ ensayosRevisados' = ensayosRevisados \ retirados
        /\ completos' = completos \ retirados
        /\ UNCHANGED <<varsLote, varsMuestra, varsInterpretacion, varsInforme>>

(* The values a save stores leave no field empty, or do. *)
Llenar(e, lleno) ==
    completos' = IF lleno THEN completos \cup {e} ELSE completos \ {e}

(* After a result of e was stored: its sample, the marker and the batch. *)
PropagarResultado(e, corrige) ==
    /\ Sincronizar({e[1]})
    /\ MarcarPendiente({m \in {e[1]} : corrige /\ MarcaAlcanza(m, e[2])})
    /\ UNCHANGED <<ingreso, filas, activas, ingresadas, contenido, varsInforme>>
    /\ Recalcular

(* _save_result_payload.  A retry with the key of a stored confirmation
   changes nothing.  The fields the request leaves out are not asked for. *)
PuedeCapturar(e) ==
    asignacion[e] # "no" /\ e[1] \in activas /\ PuedeIngresarResultados

(* save_draft *)
GuardarBorrador(e, lleno) ==
    /\ PuedeCapturar(e)
    /\ resultado' = [resultado EXCEPT ![e] = "pendiente"]
    /\ completados' = completados \ {e}
    /\ UNCHANGED <<asignacion, ensayosRevisados>>
    /\ Llenar(e, lleno)
    /\ PropagarResultado(e, resultado[e] = "rechazado")

(* A confirmation takes the review back only from an invalidated result. *)
RetirarRevision(E) ==
    ensayosRevisados' = ensayosRevisados \ {e \in E : resultado[e] = "rechazado"}

(* confirm_result *)
ConfirmarResultado(e, lleno) ==
    /\ PuedeCapturar(e)
    /\ resultado' = [resultado EXCEPT ![e] = "preliminar"]
    /\ completados' = completados \cup {e}
    /\ RetirarRevision({e})
    /\ UNCHANGED asignacion
    /\ Llenar(e, lleno)
    /\ PropagarResultado(e, resultado[e] = "rechazado")

(* excel_import: the tests E are stored as drafts in one transaction, the
   imported values added to the stored ones; samples and batch follow, the
   marker of the interpretation does not.  The capability is asked again
   before each test and still holds if a rejected one comes last. *)
ImportarExcel(E, llenos) ==
    /\ E # {} /\ llenos \subseteq E
    /\ \A e \in E : PuedeCapturar(e)
    /\ resultado' = [e \in Ensayos |-> IF e \in E THEN "pendiente" ELSE resultado[e]]
    /\ completados' = completados \ E
    /\ completos' = completos \cup llenos
    /\ UNCHANGED <<asignacion, ensayosRevisados, ingreso, filas, activas, ingresadas,
                   varsInterpretacion, varsInforme>>
    /\ Sincronizar({e[1] : e \in E})
    /\ Recalcular

(* confirm_batch_results: every confirmed test of the batch, those of an
   invalidated sample too. *)
ConfirmarLote ==
    /\ PuedeIngresarResultados
    /\ Confirmados \subseteq completos
    /\ resultado' = [e \in Ensayos |-> IF e \in Confirmados THEN "preliminar"
                                       ELSE resultado[e]]
    /\ completados' = completados \cup Confirmados
    /\ RetirarRevision(Confirmados)
    /\ UNCHANGED <<asignacion, completos, ingreso, filas, activas, ingresadas,
                   varsInterpretacion, varsInforme>>
    /\ Sincronizar({e[1] : e \in Confirmados})
    /\ Recalcular

(* POST resultado/invalidate, one transaction: the review, the interpretation
   and the reports of the sample lose their force. *)
InvalidarResultado(e) ==
    /\ resultado[e] # "ninguno"
    /\ resultado' = [resultado EXCEPT ![e] = "rechazado"]
    /\ completados' = completados \ {e}
    /\ ensayosRevisados' = ensayosRevisados \ {e}
    /\ marca' = [marca EXCEPT ![e[1]] = "requiere_revision"]
    /\ invalidadoPor' = [invalidadoPor EXCEPT ![e[1]] = e[2]]
    /\ UNCHANGED <<asignacion, completos, ingreso, filas, activas, ingresadas, contenido>>
    /\ Sincronizar({e[1]})
    /\ AnularInformesDe(e[1])
    /\ Recalcular

(* correct_result: no state of the batch, the sample or the result stops it,
   and the reports are left as they are. *)
CorregirResultado(e, lleno) ==
    /\ resultado[e] # "ninguno"
    /\ resultado' = [resultado EXCEPT ![e] = "preliminar"]
    /\ completados' = completados \cup {e}
    /\ ensayosRevisados' = ensayosRevisados \ {e}
    /\ UNCHANGED asignacion
    /\ Llenar(e, lleno)
    /\ PropagarResultado(e, TRUE)

Asignar ==
    \E S \in SUBSET Muestras, P \in SUBSET Pruebas, ea \in {"borrador", "confirmada"} :
        AsignarPruebas(S, P, ea)

Capturar ==
    \/ \E e \in Ensayos, lleno \in BOOLEAN : GuardarBorrador(e, lleno)
    \/ \E e \in Ensayos, lleno \in BOOLEAN : ConfirmarResultado(e, lleno)
    \/ \E E \in SUBSET Ensayos : \E llenos \in SUBSET E : ImportarExcel(E, llenos)
    \/ ConfirmarLote
    \/ \E e \in Ensayos : InvalidarResultado(e)
    \/ \E e \in Ensayos, lleno \in BOOLEAN : CorregirResultado(e, lleno)
=============================================================================
