------------------------------ MODULE Revision ------------------------------
(***************************************************************************)
(* Review of the results and interpretation of the samples:                *)
(* mark_sample_test_reviewed, complete_batch_review,                       *)
(* save_interpretation_sample, and the two reads that repair the marker of *)
(* an interpretation (interpretation_sample, _batch_review_payload).       *)
(***************************************************************************)
EXTENDS Captura

(* A result that can be approved. *)
Revisable(e) == e \in completados /\ resultado[e] \notin {"ninguno", "rechazado"}

(* POST mark reviewed.  The batch is recalculated, and the transitional
   marker released, only when the step completes the sample. *)
MarcarEnsayoRevisado(e) ==
    /\ asignacion[e] # "no" /\ e[1] \in activas
    /\ PuedeRevisar
    /\ Revisable(e)
    /\ ensayosRevisados' = ensayosRevisados \cup {e}
    /\ resultado' = [resultado EXCEPT ![e] = "aprobado"]
    /\ UNCHANGED <<asignacion, completados, completos, ingreso, filas, activas,
                   ingresadas, invalidadoPor, contenido, varsInforme>>
    /\ Sincronizar({e[1]})
    /\ LimpiarMarca({e[1]})
    /\ IF e[1] \in revisadas' THEN Recalcular ELSE UNCHANGED estado

(* POST complete review: the tests become reviewed, the estatus of their
   results stays as it is. *)
CompletarRevision ==
    /\ PuedeRevisar
    /\ ensayosRevisados' = ensayosRevisados \cup
                             {e \in Confirmados : e[1] \in activas /\ Revisable(e)}
    /\ UNCHANGED <<asignacion, completados, resultado, completos, ingreso, filas,
                   activas, ingresadas, invalidadoPor, contenido, varsInforme>>
    /\ Sincronizar(filas)
    /\ LimpiarMarca(filas)
    /\ Recalcular

Interpretable(m) ==
    /\ m \in activas /\ m \in revisadas
    /\ \A e \in EnsayosDe({m}) : resultado[e] # "rechazado"

(* PATCH interpretation: replaces the saved one, marker included; the text
   may be empty. *)
GuardarInterpretacion(m, conTexto) ==
    /\ Interpretable(m)
    /\ marca' = [marca EXCEPT ![m] = "sin"]
    /\ invalidadoPor' = [invalidadoPor EXCEPT ![m] = NINGUNA]
    /\ contenido' = IF conTexto THEN contenido \cup {m} ELSE contenido \ {m}
    /\ UNCHANGED <<varsLote, varsMuestra, varsEnsayo, varsInforme>>

SinRechazados(m) == \A e \in ConfirmadosDe(m) : resultado[e] # "rechazado"

(* GET interpretation of one sample: the first repair that applies. *)
LeerInterpretacion(m) ==
    /\ m \in filas /\ SinRechazados(m)
    /\ \/ marca[m] = "requiere_revision" /\ MarcarPendiente({m})
       \/ /\ marca[m] = "pendiente_revision" /\ m \in revisadas
          /\ marca' = [marca EXCEPT ![m] = "sin"] /\ UNCHANGED invalidadoPor
    /\ UNCHANGED <<varsLote, varsMuestra, contenido, varsEnsayo, varsInforme>>

(* GET review or interpretation of the batch: both repairs, on every sample. *)
LeerLote ==
    LET sinCausa == {m \in filas : marca[m] = "requiere_revision" /\ SinRechazados(m)}
        enEspera == {m \in filas : marca[m] = "pendiente_revision"}
        libres   == (sinCausa \cup enEspera) \cap revisadas
    IN  /\ marca' = [m \in Muestras |-> IF m \in libres THEN "sin"
                                        ELSE IF m \in sinCausa THEN "pendiente_revision"
                                        ELSE marca[m]]
        /\ invalidadoPor' = [m \in Muestras |-> IF m \in sinCausa THEN NINGUNA
                                                ELSE invalidadoPor[m]]
        /\ UNCHANGED <<varsLote, varsMuestra, contenido, varsEnsayo, varsInforme>>

Revisar ==
    \/ \E e \in Ensayos : MarcarEnsayoRevisado(e)
    \/ CompletarRevision
    \/ \E m \in Muestras, conTexto \in BOOLEAN : GuardarInterpretacion(m, conTexto)
    \/ \E m \in Muestras : LeerInterpretacion(m)
    \/ LeerLote
=============================================================================
