-------------------------- MODULE Interpretaciones --------------------------
(***************************************************************************)
(* The interpretation of the samples of a reviewed batch, its immutable    *)
(* versions, and the reports generated from them, at the grain of the row  *)
(* locks of PostgreSQL (READ COMMITTED).  What a transaction writes is     *)
(* seen at its commit, and its locks last until then.                      *)
(*                                                                         *)
(* A content is the number of the version that introduced it, 0 for none.  *)
(* Foreign keys are checked at the commit (Django declares them deferred)  *)
(* and wait for whoever holds the referenced row FOR UPDATE.  The branch   *)
(* for interpretations older than the versions is out of reach here: no    *)
(* sample starts with one.                                                 *)
(***************************************************************************)
EXTENDS Naturals, FiniteSets, FiniteSetsExt

CONSTANTS
    Muestras,       \* ids of the active samples, the order they are locked in
    Peticiones,     \* requests in progress at the same time
    Tipos,          \* endpoints they call
    MaxVersiones,   \* bound: versions of one sample when a save starts
    MaxReportes,    \* bound: reports of one sample when a generation starts
    NADIE

TiposDeInterpretacion == {"guardar", "generar", "generarLote", "invalidar"}
ASSUME InterpretacionesAssumption ==
    /\ Muestras \subseteq Nat /\ IsFiniteSet(Muestras)
    /\ Tipos \subseteq TiposDeInterpretacion
    /\ MaxVersiones \in Nat /\ MaxReportes \in Nat
    /\ NADIE \notin Peticiones

VARIABLES
    guardada,     \* content of campos_adicionales.interpretacion
    conMarca,     \* ... .estado = "requiere_revision"
    rechazadas,   \* samples with an invalidated result
    revisadas,    \* is_revisado
    ultima,       \* last VersionInterpretacion of the sample
    informes,     \* Reporte rows, with the content and the version they carry
    candadoLote,  \* who holds the row of the batch FOR UPDATE
    candado,      \* who holds the row of the sample
    peticion

varsFilas == <<guardada, conMarca, rechazadas, revisadas, ultima, informes>>
candados  == <<candadoLote, candado>>
varsTodas == <<varsFilas, candados, peticion>>

Libre == [paso |-> "libre"]
TopeVersiones == MaxVersiones + Cardinality(Peticiones)
TopeReportes  == MaxReportes + Cardinality(Peticiones)
Pasos == {"bloquearLote", "bloquear", "confirmar", "enlazar", "insertar"}
Peticion == [paso : Pasos, tipo : Tipos, m : Muestras, leida : 0..TopeVersiones,
             foto : [Muestras -> 0..TopeVersiones], version : 0..TopeReportes]

TypeOK ==
    /\ guardada \in [Muestras -> 0..TopeVersiones]
    /\ ultima \in [Muestras -> 0..TopeVersiones]
    /\ conMarca \cup rechazadas \cup revisadas \subseteq Muestras
    /\ informes \subseteq [muestra : Muestras, version : 1..TopeReportes,
                           foto : 0..TopeVersiones, enlace : 0..TopeVersiones,
                           vigente : BOOLEAN, delLote : BOOLEAN]
    /\ candadoLote \in Peticiones \cup {NADIE}
    /\ candado \in [Muestras -> Peticiones \cup {NADIE}]
    /\ peticion \in [Peticiones -> Peticion \cup {Libre}]

Init ==
    /\ guardada = [m \in Muestras |-> 0] /\ ultima = [m \in Muestras |-> 0]
    /\ conMarca = {} /\ rechazadas = {} /\ revisadas = Muestras
    /\ informes = {}
    /\ candadoLote = NADIE /\ candado = [m \in Muestras |-> NADIE]
    /\ peticion = [p \in Peticiones |-> Libre]

-----------------------------------------------------------------------------
EnCurso(p, tipo, paso) ==
    peticion[p] # Libre /\ peticion[p].tipo = tipo /\ peticion[p].paso = paso

(* The contents a request has read: so far of the samples in S. *)
Copia(S) == [m \in Muestras |-> IF m \in S THEN guardada[m] ELSE 0]

Empezar(p, tipo, paso, m, foto) ==
    /\ peticion[p] = Libre /\ tipo \in Tipos
    /\ peticion' = [peticion EXCEPT ![p] =
          [paso |-> paso, tipo |-> tipo, m |-> m, leida |-> 0, foto |-> foto,
           version |-> 0]]
    /\ UNCHANGED <<varsFilas, candados>>

(* The end of a transaction, or of a request without one. *)
Terminar(p) ==
    /\ peticion' = [peticion EXCEPT ![p] = Libre]
    /\ candadoLote' = IF candadoLote = p THEN NADIE ELSE candadoLote
    /\ candado' = [m \in Muestras |-> IF candado[m] = p THEN NADIE ELSE candado[m]]

TieneInterpretacion(m) == m \notin conMarca /\ guardada[m] # 0
VersionesDe(m) == {r.version : r \in {i \in informes : i.muestra = m}}
UltimoNumero(m) == Max(VersionesDe(m) \cup {0})
Siguiente(m) == UltimoNumero(m) + 1

(* Bounds: a request starts only while these are not reached; the ones in
   progress may pass them. *)
QuedanVersiones(m) == ultima[m] < MaxVersiones
QuedanReportes(m)  == UltimoNumero(m) < MaxReportes

-----------------------------------------------------------------------------
(* save_interpretation_sample: checks, then one transaction *)

(* The checks before the lock. *)
GuardarComprobar(p, m) ==
    /\ m \notin rechazadas /\ m \in revisadas
    /\ QuedanVersiones(m)
    /\ Empezar(p, "guardar", "bloquear", m, Copia({}))

(* Slip: the row of the sample is read without locking it. *)
GuardarLeerSinCandado(p) ==
    /\ EnCurso(p, "guardar", "bloquear")
    /\ peticion' = [peticion EXCEPT ![p].paso = "confirmar",
                                    ![p].leida = ultima[peticion[p].m]]
    /\ UNCHANGED <<varsFilas, candados>>

(* Slip: the batch is locked first, to refer to it later. *)
GuardarBloquearConLote(p) ==
    /\ EnCurso(p, "guardar", "bloquear")
    /\ IF candadoLote = p
       THEN /\ candado[peticion[p].m] = NADIE
            /\ candado' = [candado EXCEPT ![peticion[p].m] = p]
            /\ peticion' = [peticion EXCEPT ![p].paso = "confirmar",
                                            ![p].leida = ultima[peticion[p].m]]
            /\ UNCHANGED candadoLote
       ELSE /\ candadoLote = NADIE
            /\ candadoLote' = p
            /\ UNCHANGED <<candado, peticion>>
    /\ UNCHANGED varsFilas

(* select_for_update on the sample, then the last version. *)
GuardarBloquear(p) ==
    /\ EnCurso(p, "guardar", "bloquear")
    /\ candado[peticion[p].m] = NADIE
    /\ candado' = [candado EXCEPT ![peticion[p].m] = p]
    /\ peticion' = [peticion EXCEPT ![p].paso = "confirmar",
                                    ![p].leida = ultima[peticion[p].m]]
    /\ UNCHANGED <<varsFilas, candadoLote>>

(* The commit: the audit event refers to the batch.  A repeated number breaks
   the unique constraint and nothing is stored. *)
GuardarConfirmar(p) ==
    /\ EnCurso(p, "guardar", "confirmar")
    /\ candadoLote \in {NADIE, p}
    /\ LET m == peticion[p].m
           v == peticion[p].leida + 1 IN
       IF v > ultima[m]
       THEN /\ ultima' = [ultima EXCEPT ![m] = v]
            /\ guardada' = [guardada EXCEPT ![m] = v]
            /\ conMarca' = conMarca \ {m}
       ELSE UNCHANGED <<ultima, guardada, conMarca>>
    /\ Terminar(p)
    /\ UNCHANGED <<rechazadas, revisadas, informes>>

-----------------------------------------------------------------------------
(* generate-batch-from-interpretation: one transaction *)

GenerarLoteEmpezar(p) ==
    /\ \A m \in Muestras : QuedanReportes(m)
    /\ Empezar(p, "generarLote", "bloquearLote", Min(Muestras), Copia({}))

(* Slip: the samples are read before, and the batch alone is locked. *)
GenerarLoteLeerAntes(p) ==
    /\ EnCurso(p, "generarLote", "bloquearLote")
    /\ \/ /\ peticion[p].leida = 0
          /\ peticion' = [peticion EXCEPT ![p].foto = Copia(Muestras), ![p].leida = 1]
          /\ UNCHANGED candadoLote
       \/ /\ peticion[p].leida = 1 /\ candadoLote = NADIE
          /\ candadoLote' = p
          /\ peticion' = [peticion EXCEPT ![p].paso = "confirmar"]
    /\ UNCHANGED <<varsFilas, candado>>

GenerarLoteBloquearLote(p) ==
    /\ EnCurso(p, "generarLote", "bloquearLote")
    /\ candadoLote = NADIE
    /\ candadoLote' = p
    /\ peticion' = [peticion EXCEPT ![p].paso = "bloquear"]
    /\ UNCHANGED <<varsFilas, candado>>

(* The samples are locked in the order of their ids, and each is read as it
   stands when its lock is granted. *)
PorBloquear(p) == {m \in Muestras : candado[m] # p}
GenerarLoteBloquear(p) ==
    /\ EnCurso(p, "generarLote", "bloquear")
    /\ LET m == Min(PorBloquear(p)) IN
       /\ candado[m] = NADIE
       /\ candado' = [candado EXCEPT ![m] = p]
       /\ peticion' = [peticion EXCEPT
             ![p].foto[m] = guardada[m],
             ![p].paso = IF PorBloquear(p) = {m} THEN "confirmar" ELSE "bloquear"]
    /\ UNCHANGED <<varsFilas, candadoLote>>

InformeDe(m, version, foto, enlace, delLote) ==
    [muestra |-> m, version |-> version, foto |-> foto, enlace |-> enlace,
     vigente |-> TRUE, delLote |-> delLote]

(* A report of each sample from the rows that are locked, or none. *)
GenerarLoteConfirmar(p) ==
    /\ EnCurso(p, "generarLote", "confirmar")
    /\ IF \A m \in Muestras :
              m \in revisadas \ conMarca /\ peticion[p].foto[m] # 0
       THEN informes' = informes \cup
               {InformeDe(m, Siguiente(m), peticion[p].foto[m], ultima[m], TRUE) : m \in Muestras}
       ELSE UNCHANGED informes
    /\ Terminar(p)
    /\ UNCHANGED <<guardada, conMarca, rechazadas, revisadas, ultima>>

-----------------------------------------------------------------------------
(* generate-from-interpretation: no transaction *)

(* The sample is read once; its content goes into the snapshot. *)
GenerarLeer(p, m) ==
    /\ m \in revisadas /\ TieneInterpretacion(m)
    /\ QuedanReportes(m)
    /\ Empezar(p, "generar", "enlazar", m, Copia({m}))

(* _next_version and _interpretation_version_for_report *)
GenerarEnlazar(p) ==
    /\ EnCurso(p, "generar", "enlazar")
    /\ peticion' = [peticion EXCEPT ![p].paso = "insertar",
                                    ![p].version = Siguiente(peticion[p].m),
                                    ![p].leida = ultima[peticion[p].m]]
    /\ UNCHANGED <<varsFilas, candados>>

(* Held FOR UPDATE; the save of an invalidation lets references pass. *)
ParaActualizar(m) == candado[m] # NADIE /\ peticion[candado[m]].tipo # "invalidar"

(* A version number taken meanwhile breaks unique_together: 500, no report. *)
GenerarInsertar(p) ==
    /\ EnCurso(p, "generar", "insertar")
    /\ candadoLote = NADIE /\ ~ParaActualizar(peticion[p].m)
    /\ LET q == peticion[p] IN
       informes' = IF q.version \in VersionesDe(q.m) THEN informes
                   ELSE informes \cup {InformeDe(q.m, q.version, q.foto[q.m], q.leida, FALSE)}
    /\ Terminar(p)
    /\ UNCHANGED <<guardada, conMarca, rechazadas, revisadas, ultima>>

-----------------------------------------------------------------------------
(* resultados/invalidate: the object is read, then one transaction *)

InvalidarLeer(p, m) == Empezar(p, "invalidar", "bloquear", m, Copia({m}))

(* muestra.save(update_fields=["campos_adicionales"]) *)
InvalidarBloquear(p) ==
    /\ EnCurso(p, "invalidar", "bloquear")
    /\ candado[peticion[p].m] = NADIE
    /\ candado' = [candado EXCEPT ![peticion[p].m] = p]
    /\ peticion' = [peticion EXCEPT ![p].paso = "confirmar"]
    /\ UNCHANGED <<varsFilas, candadoLote>>

(* Slip: the reports of the sample stay in force. *)
ConfirmarSinAnular(p) ==
    /\ EnCurso(p, "invalidar", "confirmar")
    /\ candadoLote = NADIE
    /\ LET m == peticion[p].m IN
       /\ guardada' = [guardada EXCEPT ![m] = peticion[p].foto[m]]
       /\ conMarca' = conMarca \cup {m}
       /\ rechazadas' = rechazadas \cup {m}
       /\ revisadas' = revisadas \ {m}
    /\ Terminar(p)
    /\ UNCHANGED <<ultima, informes>>

(* The batch is saved last, then the commit.  The interpretation written is
   the one read at the beginning, with the marker. *)
InvalidarConfirmar(p) ==
    /\ EnCurso(p, "invalidar", "confirmar")
    /\ candadoLote = NADIE
    /\ LET m == peticion[p].m IN
       /\ guardada' = [guardada EXCEPT ![m] = peticion[p].foto[m]]
       /\ conMarca' = conMarca \cup {m}
       /\ rechazadas' = rechazadas \cup {m}
       /\ revisadas' = revisadas \ {m}
       /\ informes' = {IF r.muestra = m THEN [r EXCEPT !.vigente = FALSE] ELSE r :
                         r \in informes}
    /\ Terminar(p)
    /\ UNCHANGED ultima

(* correct_result and the review that follows, taken as one step: the result
   is valid again, the sample reviewed, the marker gone, the content kept. *)
Corregir(m) ==
    /\ m \in rechazadas /\ candado[m] = NADIE
    /\ rechazadas' = rechazadas \ {m}
    /\ revisadas' = revisadas \cup {m}
    /\ conMarca' = conMarca \ {m}
    /\ UNCHANGED <<guardada, ultima, informes, candados, peticion>>

-----------------------------------------------------------------------------
(* PostgreSQL: a request of a cycle of waits may be aborted. *)

(* Whom p waits for. *)
Espera(p) ==
    IF peticion[p] = Libre THEN NADIE
    ELSE LET q == peticion[p] IN
    CASE q.paso = "bloquearLote" -> candadoLote
      [] q.paso = "bloquear" /\ q.tipo = "generarLote" ->
            candado[Min(PorBloquear(p))]
      [] q.paso = "bloquear" /\ q.tipo # "generarLote" -> candado[q.m]
      [] q.paso = "confirmar" /\ q.tipo # "generarLote" -> candadoLote
      [] OTHER -> NADIE

EnAbrazo(p) == \E q \in Peticiones : Espera(p) = q /\ Espera(q) = p

Abortar(p) == EnAbrazo(p) /\ Terminar(p) /\ UNCHANGED varsFilas

-----------------------------------------------------------------------------
Empieza(p) ==
    \/ \E m \in Muestras : GuardarComprobar(p, m) \/ GenerarLeer(p, m) \/ InvalidarLeer(p, m)
    \/ GenerarLoteEmpezar(p)
Bloquea(p) ==
    \/ GuardarBloquear(p) \/ InvalidarBloquear(p)
    \/ GenerarLoteBloquearLote(p) \/ GenerarLoteBloquear(p)
Confirma(p) ==
    \/ GuardarConfirmar(p) \/ GenerarLoteConfirmar(p) \/ InvalidarConfirmar(p)
    \/ GenerarInsertar(p)

Sigue(p) == Bloquea(p) \/ GenerarEnlazar(p) \/ Confirma(p)

Next ==
    \/ \E p \in Peticiones : Empieza(p) \/ Sigue(p) \/ Abortar(p)
    \/ \E m \in Muestras : Corregir(m)

(* A request that started goes on: the waiters of a row get it in turn, so one
   that can go on again and again does.  Nobody has to start a request or to
   correct, and nothing is asked of the deadlock detector: deadlock_timeout
   may be long, and what depends on it is said below. *)
Equidad == \A p \in Peticiones : SF_varsTodas(Sigue(p))

Spec == Init /\ [][Next]_varsTodas
SpecEquitativa == Spec /\ Equidad

-----------------------------------------------------------------------------
(* "dos guardados simultaneos no pueden reutilizar el mismo consecutivo": the
   number a save is about to use is still free. *)
ConsecutivoLibre ==
    \A p \in Peticiones :
        EnCurso(p, "guardar", "confirmar") => peticion[p].leida = ultima[peticion[p].m]

(* A report of the batch generation is not in force while a result of its
   sample is invalidated, whichever of the two transactions went first: both
   hold the row of the sample.  (The single generation holds nothing, and may
   insert its report after the invalidation.) *)
InformeDeLoteVigente ==
    \A r \in informes : r.delLote /\ r.muestra \in rechazadas => ~r.vigente

(* A report that a batch generation issues carries the content its sample has
   at that moment ("El lote y sus muestras se bloquean durante la
   generacion"), though the samples are locked one after another while
   others are being saved and invalidated. *)
LoteConContenidoVigente ==
    [][\A r \in informes' \ informes :
          r.delLote /\ r.vigente => r.foto = guardada[r.muestra]]_varsTodas

(* Only a batch generation, which takes the batch before the samples, is ever
   in an embrace with another request: a save and an invalidation, or two of
   them, cannot wait for each other. *)
AbrazoDeLote(q) ==
    EnAbrazo(q) /\ peticion[q].tipo = "generarLote"
AbrazoSoloDelLote ==
    \A p, q \in Peticiones :
        Espera(p) = q /\ Espera(q) = p => AbrazoDeLote(p) \/ AbrazoDeLote(q)

(* Every request ends, again and again, with no help from the deadlock
   detector, unless a batch generation is left in an embrace for good. *)
TerminaSinDetector ==
    \/ \A p \in Peticiones : []<>(peticion[p] = Libre)
    \/ \E q \in Peticiones : <>[]AbrazoDeLote(q)
-----------------------------------------------------------------------------
(* What the repository says of itself and the code does not do.            *)

(* "los reportes nuevos quedan ligados a la version exacta utilizada": the
   version a report is linked to is the one its snapshot was made of.  Broken
   by the single generation, and by an invalidation that writes back an
   interpretation older than the last version. *)
EnlaceFiel == \A r \in informes : r.foto = r.enlace
=============================================================================
