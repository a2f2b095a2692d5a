------------------------- MODULE Laboratorio_proofs -------------------------
(***************************************************************************)
(* What holds of the laboratory for any samples, tests and bound on the    *)
(* report versions; and, for any number of requests, that two deliveries   *)
(* at once still close the batch and that requests which do not overlap    *)
(* are the atomic endpoints.                                               *)
(***************************************************************************)
EXTENDS MCEntregaConcurrente, FiniteSetTheorems, TLAPS

(* The derived state of a batch is always one of its states, and of a batch
   that exists. *)
LEMMA EstadoDerivado ==
    /\ EstadoDeMuestras \in EstadosLote \ {"sin_lote"}
    /\ EstadoDeMuestras' \in EstadosLote \ {"sin_lote"}
BY DEF EstadoDeMuestras, EstadosLote

(* Type correctness of reception. *)
LEMMA TipoRecibir == TypeOK /\ Recibir => TypeOK'
<1> SUFFICES ASSUME TypeOK, Recibir PROVE TypeOK'
    OBVIOUS
<1> USE EstadoDerivado DEF TypeOK, Recalcular, varsMuestra, varsInterpretacion, varsEnsayo, varsInforme
<1>1. ASSUME NEW nuevo \in EstadosDelCliente, NEW S \in SUBSET Muestras, CrearLote(nuevo, S)
      PROVE  TypeOK'
    BY <1>1 DEF CrearLote, EstadosDelCliente, EstadosLote
<1>2. ASSUME NEW nuevo \in EstadosDelCliente, EditarLote(nuevo)
      PROVE  TypeOK'
    BY <1>2 DEF EditarLote, EstadosLote
<1>3. CASE EliminarLote
    BY <1>3 DEF EliminarLote, EstadosLote
<1>4. CASE RegistrarBorrador
    BY <1>4 DEF RegistrarBorrador, EstadosLote
<1>5. CASE CancelarLote
    BY <1>5 DEF CancelarLote, EstadosLote
<1>6. CASE ReabrirLote
    BY <1>6 DEF ReabrirLote, EstadosLote
<1>7. CASE RecalcularEstado
    BY <1>7 DEF RecalcularEstado
<1>8. ASSUME NEW S \in SUBSET Muestras, AgregarMuestras(S)
      PROVE  TypeOK'
    BY <1>8 DEF AgregarMuestras
<1>9. ASSUME NEW m \in Muestras, EliminarMuestra(m)
      PROVE  TypeOK'
    BY <1>9 DEF EliminarMuestra, BorrarMuestra, EnsayosDe, InformesDe, Ensayos, Informes,
                EstadosAsignacion, EstadosResultado, EstadosInforme, Marcas
<1>10. ASSUME NEW m \in Muestras, InvalidarMuestra(m)
       PROVE  TypeOK'
    BY <1>10 DEF InvalidarMuestra, AnularInformesDe, InformesDe, EstadosInforme
<1>11. ASSUME NEW m \in Muestras, ReactivarMuestra(m)
       PROVE  TypeOK'
    BY <1>11 DEF ReactivarMuestra
<1>12. CASE IngresarLote
    BY <1>12 DEF IngresarLote, EstadosLote
<1>13. CASE RevertirIngreso
    BY <1>13 DEF RevertirIngreso, EstadosLote
<1>14. QED
    BY <1>1, <1>2, <1>3, <1>4, <1>5, <1>6, <1>7, <1>8, <1>9, <1>10, <1>11, <1>12, <1>13
       DEF Recibir

(* Type correctness of the assignment: it touches tests of active samples. *)
LEMMA TipoAsignar == TypeOK /\ Asignar => TypeOK'
<1> SUFFICES ASSUME TypeOK, NEW S \in SUBSET Muestras, NEW P1 \in SUBSET Pruebas,
                    NEW ea \in {"borrador", "confirmada"}, AsignarPruebas(S, P1, ea)
             PROVE  TypeOK'
    BY DEF Asignar
<1> QED
    BY DEF AsignarPruebas, TypeOK, Ensayos, EstadosAsignacion, EstadosResultado,
           varsLote, varsMuestra, varsInterpretacion, varsInforme

(* Recomputed flags belong to samples that have a row. *)
LEMMA TipoSincronizar ==
    ASSUME TypeOK, NEW S \in SUBSET filas, Sincronizar(S)
    PROVE  conResultados' \subseteq filas /\ revisadas' \subseteq filas
BY DEF Sincronizar, TypeOK

(* Moving a marker on keeps it one of the markers. *)
LEMMA TipoMarcarPendiente ==
    ASSUME TypeOK, NEW S, MarcarPendiente(S)
    PROVE  /\ marca' \in [Muestras -> Marcas]
           /\ invalidadoPor' \in [Muestras -> Pruebas \cup {NINGUNA}]
BY DEF MarcarPendiente, TypeOK, Marcas

(* Releasing a marker keeps it one of the markers. *)
LEMMA TipoLimpiarMarca ==
    ASSUME TypeOK, NEW S, LimpiarMarca(S)
    PROVE  marca' \in [Muestras -> Marcas]
BY DEF LimpiarMarca, TypeOK, Marcas

(* The test whose result is stored or replaced has a row. *)
LEMMA TipoPropagar ==
    ASSUME TypeOK, NEW e \in Ensayos, e[1] \in filas, NEW corrige \in BOOLEAN,
           PropagarResultado(e, corrige), UNCHANGED asignacion,
           completados' \subseteq Ensayos, ensayosRevisados' \subseteq Ensayos,
           completos' \subseteq Ensayos, resultado' \in [Ensayos -> EstadosResultado]
    PROVE  TypeOK'
<1>1. conResultados' \subseteq filas /\ revisadas' \subseteq filas
    BY TipoSincronizar DEF PropagarResultado
<1>2. /\ marca' \in [Muestras -> Marcas]
      /\ invalidadoPor' \in [Muestras -> Pruebas \cup {NINGUNA}]
    BY TipoMarcarPendiente DEF PropagarResultado
<1>3. estado' \in EstadosLote \ {"sin_lote"}
    BY EstadoDerivado DEF PropagarResultado, Recalcular, EstadosLote
<1>4. QED
    BY <1>1, <1>2, <1>3 DEF PropagarResultado, TypeOK, varsInforme

(* Type correctness of the entry of results: a result belongs to a sample
   that has a row because the sample entered the laboratory. *)
LEMMA TipoCapturar == TypeOK /\ EvidenciaIngresada /\ Capturar => TypeOK'
<1> SUFFICES ASSUME TypeOK, EvidenciaIngresada, Capturar PROVE TypeOK'
    OBVIOUS
<1>0. \A e \in Ensayos : resultado[e] # "ninguno" => e[1] \in filas
    BY DEF TypeOK, EvidenciaIngresada, Protegido
<1>1. ASSUME NEW e \in Ensayos, NEW lleno \in BOOLEAN, GuardarBorrador(e, lleno)
      PROVE  TypeOK'
    BY <1>1, TipoPropagar
       DEF GuardarBorrador, PuedeCapturar, Llenar, TypeOK, EstadosResultado
<1>2. ASSUME NEW e \in Ensayos, NEW lleno \in BOOLEAN, ConfirmarResultado(e, lleno)
      PROVE  TypeOK'
    BY <1>2, TipoPropagar
       DEF ConfirmarResultado, RetirarRevision, PuedeCapturar, Llenar, TypeOK, EstadosResultado
<1>3. ASSUME NEW E \in SUBSET Ensayos, NEW llenos \in SUBSET E, ImportarExcel(E, llenos)
      PROVE  TypeOK'
  <2>1. {e[1] : e \in E} \subseteq filas
    BY <1>3 DEF ImportarExcel, PuedeCapturar, TypeOK
  <2>2. conResultados' \subseteq filas /\ revisadas' \subseteq filas
    BY <1>3, <2>1, TipoSincronizar DEF ImportarExcel
  <2>3. QED
    BY <1>3, <2>2, EstadoDerivado
       DEF ImportarExcel, Recalcular, TypeOK, EstadosResultado, varsInterpretacion, varsInforme
<1>4. CASE ConfirmarLote
  <2>1. {e[1] : e \in Confirmados} \subseteq filas
    BY DEF Confirmados, TypeOK
  <2>2. conResultados' \subseteq filas /\ revisadas' \subseteq filas
    BY <1>4, <2>1, TipoSincronizar DEF ConfirmarLote
  <2>3. QED
    BY <1>4, <2>2, EstadoDerivado
       DEF ConfirmarLote, RetirarRevision, Confirmados, Recalcular, TypeOK,
           EstadosResultado, varsInterpretacion, varsInforme
<1>5. ASSUME NEW e \in Ensayos, InvalidarResultado(e)
      PROVE  TypeOK'
  <2>1. e[1] \in filas /\ e[1] \in Muestras /\ e[2] \in Pruebas
    BY <1>0, <1>5 DEF InvalidarResultado, Ensayos
  <2>2. conResultados' \subseteq filas /\ revisadas' \subseteq filas
    BY <1>5, <2>1, TipoSincronizar DEF InvalidarResultado
  <2>3. /\ estatus' \in [Informes -> EstadosInforme]
        /\ \A x \in Informes : estatus[x] # "no" => estatus'[x] # "no"
        /\ visibles' \subseteq visibles
        /\ UNCHANGED <<aprobados, enviados, correos>>
    BY <1>5 DEF InvalidarResultado, AnularInformesDe, TypeOK, EstadosInforme
  <2>4. QED
    BY <1>5, <2>1, <2>2, <2>3, EstadoDerivado
       DEF InvalidarResultado, Recalcular, TypeOK, EstadosResultado, Marcas
<1>6. ASSUME NEW e \in Ensayos, NEW lleno \in BOOLEAN, CorregirResultado(e, lleno)
      PROVE  TypeOK'
    BY <1>0, <1>6, TipoPropagar DEF CorregirResultado, Llenar, TypeOK, EstadosResultado
<1>7. QED
    BY <1>1, <1>2, <1>3, <1>4, <1>5, <1>6 DEF Capturar

(* Type correctness of the review. *)
LEMMA TipoRevisar == TypeOK /\ EvidenciaIngresada /\ Revisar => TypeOK'
<1> SUFFICES ASSUME TypeOK, EvidenciaIngresada, Revisar PROVE TypeOK'
    OBVIOUS
<1>1. ASSUME NEW e \in Ensayos, MarcarEnsayoRevisado(e)
      PROVE  TypeOK'
  <2>1. e[1] \in filas /\ filas # {}
    BY <1>1 DEF MarcarEnsayoRevisado, TypeOK
  <2>2. conResultados' \subseteq filas /\ revisadas' \subseteq filas
    BY <1>1, <2>1, TipoSincronizar DEF MarcarEnsayoRevisado
  <2>3. marca' \in [Muestras -> Marcas]
    BY <1>1, TipoLimpiarMarca DEF MarcarEnsayoRevisado
  <2>4. estado' \in EstadosLote /\ (estado' = "sin_lote" => filas = {})
    BY <1>1, EstadoDerivado DEF MarcarEnsayoRevisado, Recalcular, TypeOK
  <2>5. QED
    BY <1>1, <2>2, <2>3, <2>4
       DEF MarcarEnsayoRevisado, TypeOK, EstadosResultado, varsInforme
<1>2. CASE CompletarRevision
  <2>1. conResultados' \subseteq filas /\ revisadas' \subseteq filas
    BY <1>2, TipoSincronizar DEF CompletarRevision
  <2>2. marca' \in [Muestras -> Marcas]
    BY <1>2, TipoLimpiarMarca DEF CompletarRevision
  <2>3. estado' \in EstadosLote /\ (estado' = "sin_lote" => filas = {})
    BY <1>2, EstadoDerivado DEF CompletarRevision, Recalcular, TypeOK
  <2>4. QED
    BY <1>2, <2>1, <2>2, <2>3 DEF CompletarRevision, Confirmados, TypeOK, varsInforme
<1>3. ASSUME NEW m \in Muestras, NEW conTexto \in BOOLEAN, GuardarInterpretacion(m, conTexto)
      PROVE  TypeOK'
    BY <1>3 DEF GuardarInterpretacion, TypeOK, Marcas, varsLote, varsMuestra, varsEnsayo, varsInforme
<1>4. ASSUME NEW m \in Muestras, LeerInterpretacion(m)
      PROVE  TypeOK'
  <2>1. /\ marca' \in [Muestras -> Marcas]
        /\ invalidadoPor' \in [Muestras -> Pruebas \cup {NINGUNA}]
    BY <1>4, TipoMarcarPendiente DEF LeerInterpretacion, TypeOK, Marcas
  <2>2. QED
    BY <1>4, <2>1 DEF LeerInterpretacion, TypeOK, varsLote, varsMuestra, varsEnsayo, varsInforme
<1>5. CASE LeerLote
    BY <1>5 DEF LeerLote, TypeOK, Marcas, varsLote, varsMuestra, varsEnsayo, varsInforme
<1>6. QED
    BY <1>1, <1>2, <1>3, <1>4, <1>5 DEF Revisar

(* Closing or reopening a batch keeps its state one of the states. *)
LEMMA TipoMarcarReportado ==
    ASSUME TypeOK, MarcarReportado
    PROVE  estado' \in EstadosLote /\ (estado' = "sin_lote" => filas = {})
BY EstadoDerivado DEF MarcarReportado, TypeOK, EstadosLote

(* The delivery of reports does not touch the laboratory under them. *)
LEMMA MarcoEntregar ==
    Entregar => UNCHANGED <<ingreso, varsMuestra, varsInterpretacion, varsEnsayo>>
BY DEF Entregar, GenerarInforme, GenerarInformesLote, Generar, Aprobar, EnviarAprobacion,
       Publicar, Ocultar, EnviarCorreo, Despachar, FallarCorreo, EnviarLote, Anular, varsLote

(* What each endpoint of the delivery does to the rows of the reports. *)
LEMMA TipoInformes ==
    ASSUME TypeOK, Entregar
    PROVE  /\ estatus' \in [Informes -> EstadosInforme]
           /\ visibles' \cup aprobados' \cup enviados' \cup correos'
                \subseteq {x \in Informes : estatus'[x] # "no"}
<1> DEFINE Bien == /\ estatus' \in [Informes -> EstadosInforme]
                   /\ visibles' \cup aprobados' \cup enviados' \cup correos'
                        \subseteq {x \in Informes : estatus'[x] # "no"}
<1> USE DEF TypeOK, EstadosInforme
<1>1. ASSUME NEW X \in SUBSET Informes, Generar(X)
      PROVE  Bien
    BY <1>1 DEF Generar
<1>2. ASSUME NEW X \in SUBSET Informes, Despachar(X)
      PROVE  Bien
    BY <1>2 DEF Despachar
<1>3. ASSUME NEW x \in Informes, Aprobar(x) \/ EnviarAprobacion(x) \/ Anular(x)
      PROVE  Bien
    BY <1>3 DEF Aprobar, EnviarAprobacion, Anular, Anulable, Cambiar
<1>4. ASSUME NEW x \in Informes, Publicar(x) \/ Ocultar(x) \/ FallarCorreo(x)
      PROVE  Bien
    BY <1>4 DEF Publicar, Ocultar, FallarCorreo, Liberable
<1>5. ASSUME NEW x \in Informes, GenerarInforme(x[1], x[2])
      PROVE  Bien
    BY <1>1, <1>5 DEF GenerarInforme, Informes
<1>6. QED
    BY <1>1, <1>2, <1>3, <1>4, <1>5
       DEF Entregar, GenerarInformesLote, EnviarCorreo, EnviarLote

(* The state of the batch after a delivery step. *)
LEMMA EstadoAlEntregar == Entregar => MarcarReportado \/ UNCHANGED estado
BY DEF Entregar, GenerarInforme, GenerarInformesLote, Generar, Aprobar, EnviarAprobacion,
       Publicar, Ocultar, EnviarCorreo, Despachar, FallarCorreo, EnviarLote, Anular, varsLote

(* Type correctness of the delivery. *)
LEMMA TipoEntregar == TypeOK /\ Entregar => TypeOK'
<1> SUFFICES ASSUME TypeOK, Entregar PROVE TypeOK'
    OBVIOUS
<1>1. estado' \in EstadosLote /\ (estado' = "sin_lote" => filas = {})
    BY EstadoAlEntregar, TipoMarcarReportado, MarcoEntregar DEF TypeOK, varsMuestra
<1>2. QED
    BY <1>1, TipoInformes, MarcoEntregar DEF TypeOK, varsMuestra, varsInterpretacion, varsEnsayo

-----------------------------------------------------------------------------
(* The invariant is proved together: the reports rest on the flags of the
   samples, the flags on the tests, the tests on the reception. *)
IInv ==
    /\ TypeOK
    /\ EvidenciaIngresada
    /\ RevisadaRespaldada
    /\ LoteRevisadoRespaldado
    /\ LiberadoSoloVigente
    /\ ReportadoEntregado

(* Before the batch exists there is nothing to break. *)
LEMMA IInvInicial == Init => IInv
BY DEF Init, SinLote, IInv, TypeOK, EstadosLote, EstadosAsignacion, EstadosResultado, Marcas,
       EstadosInforme, EvidenciaIngresada, Protegido, RevisadaRespaldada, LoteRevisadoRespaldado,
       LiberadoSoloVigente, ReportadoEntregado

(* Every endpoint keeps the types. *)
LEMMA TipoDelPaso == IInv /\ [Next]_vars => TypeOK'
<1>1. IInv /\ Next => TypeOK'
    BY TipoRecibir, TipoAsignar, TipoCapturar, TipoRevisar, TipoEntregar DEF Next, IInv
<1>2. IInv /\ UNCHANGED vars => TypeOK'
    BY DEF IInv, TypeOK, vars, varsLote, varsMuestra, varsInterpretacion, varsEnsayo, varsInforme
<1>3. QED
    BY <1>1, <1>2

(* The operations of the reception that change more than the state of the
   batch and the set of active samples. *)
LEMMA MarcoRecibir ==
    Recibir => \/ \E nuevo \in EstadosDelCliente, S \in SUBSET Muestras : CrearLote(nuevo, S)
               \/ \E m \in Muestras : EliminarMuestra(m)
               \/ \E m \in Muestras : InvalidarMuestra(m)
               \/ IngresarLote
               \/ RevertirIngreso
               \/ EliminarLote
               \/ UNCHANGED <<ingreso, ingresadas, conResultados, revisadas,
                              varsInterpretacion, varsEnsayo, varsInforme>>
BY DEF Recibir, EditarLote, RegistrarBorrador, CancelarLote, ReabrirLote, RecalcularEstado,
       AgregarMuestras, ReactivarMuestra, varsMuestra

(* What the entry and the review of results leave alone. *)
LEMMA MarcoAnalizar ==
    Capturar \/ Revisar => UNCHANGED <<ingreso, filas, activas, ingresadas, asignacion>>
<1>1. Capturar => UNCHANGED <<ingreso, filas, activas, ingresadas, asignacion>>
    BY DEF Capturar, GuardarBorrador, ConfirmarResultado, ImportarExcel, ConfirmarLote,
           InvalidarResultado, CorregirResultado, PropagarResultado
<1>2. Revisar => UNCHANGED <<ingreso, filas, activas, ingresadas, asignacion>>
    BY DEF Revisar, MarcarEnsayoRevisado, CompletarRevision, GuardarInterpretacion,
           LeerInterpretacion, LeerLote, varsLote, varsMuestra, varsEnsayo
<1>3. QED
    BY <1>1, <1>2

(* A sample flagged as reviewed entered the laboratory. *)
LEMMA RevisadaIngresada ==
    ASSUME IInv, NEW m \in revisadas PROVE m \in ingresadas
<1>1. PICK e \in Ensayos : e[1] = m /\ e \in completados
    BY DEF IInv, TypeOK, RevisadaRespaldada, EnsayosVigentes, ConfirmadosDe, EnsayosDe, Ensayos
<1>2. QED
    BY <1>1 DEF IInv, EvidenciaIngresada, Protegido

(* The last version of a sample is a version of that sample. *)
LEMMA UltimoEmitido ==
    ASSUME NEW x \in Informes, EsUltimo(x) PROVE x \in aprobados /\ estatus[x] # "anulado"
BY DEF EsUltimo, Aprobados

(* What the delivery issues is generated, of samples flagged as reviewed and
   interpreted. *)
LEMMA NoEmitido ==
    ASSUME IInv, Entregar, NEW x \in Informes, estatus[x] = "no", estatus'[x] # "no"
    PROVE  x[1] \in activas /\ x[1] \in revisadas
<1> USE DEF IInv, TypeOK
<1>1. ASSUME NEW y \in Informes, GenerarInforme(y[1], y[2])
      PROVE  x[1] \in activas /\ x[1] \in revisadas
    BY <1>1 DEF GenerarInforme, Generar, Generable, Informes
<1>2. CASE GenerarInformesLote
    BY <1>2 DEF GenerarInformesLote, Generar, Generable, Informes
<1>3. ASSUME NEW y \in Informes, Aprobar(y) \/ EnviarAprobacion(y) \/ Anular(y)
      PROVE  FALSE
    BY <1>3 DEF Aprobar, EnviarAprobacion, Anular, Anulable, Cambiar
<1>4. ASSUME NEW y \in Informes, Publicar(y) \/ Ocultar(y) \/ FallarCorreo(y)
      PROVE  FALSE
    BY <1>4 DEF Publicar, Ocultar, FallarCorreo
<1>5. ASSUME NEW y \in Informes, EnviarCorreo(y)
      PROVE  FALSE
    BY <1>5 DEF EnviarCorreo, Despachar, Liberable
<1>6. CASE EnviarLote
    BY <1>6, UltimoEmitido DEF EnviarLote, Despachar
<1>7. QED
    BY <1>1, <1>2, <1>3, <1>4, <1>5, <1>6 DEF Entregar

(* Evidence appears only where the laboratory has the sample, and the
   operations that take samples, assignments or the reception away ask that
   there is none. *)
LEMMA EvidenciaDelPaso == IInv /\ [Next]_vars => EvidenciaIngresada'
<1> SUFFICES ASSUME IInv, [Next]_vars PROVE EvidenciaIngresada'
    OBVIOUS
<1> USE DEF EvidenciaIngresada, Protegido, IInv
<1>1. CASE Recibir
  <2>1. ASSUME NEW m \in Muestras, EliminarMuestra(m)
        PROVE  EvidenciaIngresada'
      BY <2>1 DEF EliminarMuestra, BorrarMuestra, Eliminable, EnsayosDe, InformesDe, Ensayos,
                  Informes, TypeOK
  <2>2. ASSUME NEW nuevo \in EstadosDelCliente, NEW S \in SUBSET Muestras, CrearLote(nuevo, S)
        PROVE  EvidenciaIngresada'
      BY <2>2 DEF CrearLote, varsEnsayo, varsInforme, TypeOK
  <2>3. ASSUME NEW m \in Muestras, InvalidarMuestra(m)
        PROVE  EvidenciaIngresada'
      BY <2>3 DEF InvalidarMuestra, AnularInformesDe, varsEnsayo, TypeOK
  <2>4. CASE IngresarLote
      BY <2>4 DEF IngresarLote, varsEnsayo, varsInforme, TypeOK
  <2>5. CASE RevertirIngreso
      BY <2>5 DEF RevertirIngreso, SinResultados, SinInformes, varsEnsayo, varsInforme
  <2>6. CASE EliminarLote
      BY <2>6 DEF EliminarLote, varsMuestra, varsEnsayo, varsInforme, TypeOK
  <2>7. CASE UNCHANGED <<ingreso, ingresadas, varsEnsayo, varsInforme>>
      BY <2>7 DEF varsEnsayo, varsInforme
  <2>8. QED
      BY <1>1, <2>1, <2>2, <2>3, <2>4, <2>5, <2>6, <2>7, MarcoRecibir
<1>2. CASE Asignar
    BY <1>2 DEF Asignar, AsignarPruebas, Ensayos, TypeOK, varsLote, varsMuestra, varsInforme
<1>3. CASE Capturar
  <2> USE <1>3, MarcoAnalizar DEF TypeOK, PuedeIngresarResultados, TodasIngresadas, PuedeCapturar,
                                  PropagarResultado, RetirarRevision, varsInforme
  <2>1. ASSUME NEW e \in Ensayos, NEW lleno \in BOOLEAN,
               GuardarBorrador(e, lleno) \/ ConfirmarResultado(e, lleno)
                 \/ CorregirResultado(e, lleno)
        PROVE  EvidenciaIngresada'
    <3>1. e[1] \in ingresadas /\ asignacion[e] # "no"
        BY <2>1 DEF GuardarBorrador, ConfirmarResultado, CorregirResultado
    <3>2. /\ resultado'[e] # "ninguno"
          /\ \A d \in Ensayos : d # e => resultado'[d] = resultado[d]
          /\ completados' \cup ensayosRevisados' \subseteq completados \cup ensayosRevisados \cup {e}
          /\ UNCHANGED estatus
        BY <2>1 DEF GuardarBorrador, ConfirmarResultado, CorregirResultado
    <3>3. QED
        BY <3>1, <3>2
  <2>2. ASSUME NEW E \in SUBSET Ensayos, NEW llenos \in SUBSET E, ImportarExcel(E, llenos)
        PROVE  EvidenciaIngresada'
      BY <2>2 DEF ImportarExcel
  <2>3. CASE ConfirmarLote
      BY <2>3 DEF ConfirmarLote, Confirmados
  <2>4. ASSUME NEW e \in Ensayos, InvalidarResultado(e)
        PROVE  EvidenciaIngresada'
      BY <2>4 DEF InvalidarResultado, AnularInformesDe
  <2>5. QED
      BY <2>1, <2>2, <2>3, <2>4 DEF Capturar
<1>4. CASE Revisar
    BY <1>4, MarcoAnalizar
       DEF Revisar, MarcarEnsayoRevisado, CompletarRevision, GuardarInterpretacion,
           LeerInterpretacion, LeerLote, Revisable, Confirmados, TypeOK, varsEnsayo, varsInforme
<1>5. CASE Entregar
  <2>1. \A x \in Informes : estatus'[x] # "no" => estatus[x] # "no" \/ x[1] \in revisadas
      BY <1>5, NoEmitido
  <2>2. QED
      BY <1>5, <2>1, MarcoEntregar, RevisadaIngresada DEF varsMuestra, varsEnsayo
<1>6. CASE UNCHANGED vars
    BY <1>6 DEF vars, varsLote, varsMuestra, varsEnsayo, varsInforme
<1>7. QED
    BY <1>1, <1>2, <1>3, <1>4, <1>5, <1>6 DEF Next

-----------------------------------------------------------------------------
(* A sample whose tests are the same keeps what its flag stands for. *)
LEMMA MismosEnsayos ==
    ASSUME NEW m, EnsayosVigentes(m),
           \A e \in EnsayosDe({m}) :
               /\ asignacion'[e] = asignacion[e] /\ resultado'[e] = resultado[e]
               /\ (e \in completados) => (e \in completados')
               /\ (e \in ensayosRevisados) => (e \in ensayosRevisados')
    PROVE  EnsayosVigentes(m)'
BY DEF EnsayosVigentes, ConfirmadosDe

(* Computing the flags of S again is enough when only tests of S changed. *)
LEMMA SincronizarRespalda ==
    ASSUME TypeOK, RevisadaRespaldada, NEW S, Sincronizar(S),
           \A e \in Ensayos : e[1] \notin S =>
               /\ asignacion'[e] = asignacion[e] /\ resultado'[e] = resultado[e]
               /\ (e \in completados) => (e \in completados')
               /\ (e \in ensayosRevisados) => (e \in ensayosRevisados')
    PROVE  RevisadaRespaldada'
<1> SUFFICES ASSUME NEW m \in revisadas' PROVE EnsayosVigentes(m)'
    BY DEF RevisadaRespaldada
<1>1. CASE m \in S
    BY <1>1 DEF Sincronizar, MuestraRevisada, MuestraCompleta, Valido, EnsayosVigentes
<1>2. CASE m \notin S
  <2>1. m \in revisadas /\ m \in Muestras
      BY <1>2 DEF Sincronizar, TypeOK
  <2>2. \A e \in EnsayosDe({m}) : e \in Ensayos /\ e[1] \notin S
      BY <1>2, <2>1 DEF EnsayosDe, Ensayos
  <2>3. QED
      BY <2>1, <2>2, MismosEnsayos DEF RevisadaRespaldada
<1>3. QED
    BY <1>1, <1>2

(* The flag of a sample falls in the step in which one of its tests stops
   being confirmed, complete, valid or reviewed. *)
LEMMA RevisadaDelPaso == IInv /\ [Next]_vars => RevisadaRespaldada'
<1> SUFFICES ASSUME IInv, [Next]_vars PROVE RevisadaRespaldada'
    OBVIOUS
<1> USE DEF IInv
<1>0. ASSUME UNCHANGED <<asignacion, completados, ensayosRevisados, resultado, revisadas>>
      PROVE  RevisadaRespaldada'
    BY <1>0 DEF RevisadaRespaldada, EnsayosVigentes, ConfirmadosDe
<1>1. CASE Recibir
  <2>1. ASSUME NEW nuevo \in EstadosDelCliente, NEW S \in SUBSET Muestras, CrearLote(nuevo, S)
        PROVE  RevisadaRespaldada'
      BY <2>1 DEF CrearLote, RevisadaRespaldada
  <2>2. ASSUME NEW m \in Muestras, EliminarMuestra(m)
        PROVE  RevisadaRespaldada'
    <3> SUFFICES ASSUME NEW n \in revisadas' PROVE EnsayosVigentes(n)'
        BY DEF RevisadaRespaldada
    <3>1. n \in revisadas /\ n # m /\ n \in Muestras
        BY <2>2 DEF EliminarMuestra, BorrarMuestra, TypeOK
    <3>2. \A e \in EnsayosDe({n}) :
              /\ asignacion'[e] = asignacion[e] /\ resultado'[e] = resultado[e]
              /\ (e \in completados) => (e \in completados')
              /\ (e \in ensayosRevisados) => (e \in ensayosRevisados')
        BY <2>2, <3>1 DEF EliminarMuestra, BorrarMuestra, EnsayosDe, Ensayos
    <3>3. QED
        BY <3>1, <3>2, MismosEnsayos DEF RevisadaRespaldada
  <2>3. CASE UNCHANGED <<revisadas, varsEnsayo>>
      BY <1>0, <2>3 DEF varsEnsayo
  <2>4. QED
      BY <1>1, <2>1, <2>2, <2>3, MarcoRecibir
         DEF InvalidarMuestra, IngresarLote, RevertirIngreso, EliminarLote, varsMuestra
<1>2. CASE Asignar
  <2>1. revisadas = {}
      BY <1>2 DEF Asignar, AsignarPruebas, PuedeAsignar, HayRevision, Confirmados, RevisadaRespaldada,
                  EnsayosVigentes, ConfirmadosDe, EnsayosDe, Ensayos, TypeOK
  <2>2. revisadas' = {}
      BY <1>2, <2>1 DEF Asignar, AsignarPruebas, varsMuestra
  <2>3. QED
      BY <2>2 DEF RevisadaRespaldada
<1>3. CASE Capturar
  <2>1. ASSUME NEW e \in Ensayos, NEW lleno \in BOOLEAN,
               GuardarBorrador(e, lleno) \/ ConfirmarResultado(e, lleno)
                 \/ CorregirResultado(e, lleno)
        PROVE  RevisadaRespaldada'
      BY <2>1, SincronizarRespalda
         DEF GuardarBorrador, ConfirmarResultado, CorregirResultado, RetirarRevision,
             PropagarResultado, TypeOK
  <2>2. ASSUME NEW E \in SUBSET Ensayos, NEW llenos \in SUBSET E, ImportarExcel(E, llenos)
        PROVE  RevisadaRespaldada'
      BY <2>2, SincronizarRespalda DEF ImportarExcel
  <2>3. CASE ConfirmarLote
      BY <2>3, SincronizarRespalda DEF ConfirmarLote, RetirarRevision
  <2>4. ASSUME NEW e \in Ensayos, InvalidarResultado(e)
        PROVE  RevisadaRespaldada'
      BY <2>4, SincronizarRespalda DEF InvalidarResultado, TypeOK
  <2>5. QED
      BY <1>3, <2>1, <2>2, <2>3, <2>4 DEF Capturar
<1>4. CASE Revisar
  <2>1. ASSUME NEW e \in Ensayos, MarcarEnsayoRevisado(e)
        PROVE  RevisadaRespaldada'
      BY <2>1, SincronizarRespalda DEF MarcarEnsayoRevisado, TypeOK
  <2>2. CASE CompletarRevision
      BY <2>2, SincronizarRespalda DEF CompletarRevision
  <2>3. CASE UNCHANGED <<varsMuestra, varsEnsayo>>
      BY <1>0, <2>3 DEF varsMuestra, varsEnsayo
  <2>4. QED
      BY <1>4, <2>1, <2>2, <2>3 DEF Revisar, GuardarInterpretacion, LeerInterpretacion, LeerLote
<1>5. CASE Entregar
    BY <1>0, <1>5, MarcoEntregar DEF varsMuestra, varsEnsayo
<1>6. CASE UNCHANGED vars
    BY <1>0, <1>6 DEF vars, varsMuestra, varsEnsayo
<1>7. QED
    BY <1>1, <1>2, <1>3, <1>4, <1>5, <1>6 DEF Next

-----------------------------------------------------------------------------
(* A recalculated batch is shown as reviewed only with its samples reviewed,
   and never as reported. *)
LEMMA RecalcularRespalda ==
    Recalcular => LoteRevisadoRespaldado' /\ (estado' # "reportado")
BY DEF Recalcular, EstadoDeMuestras, LoteRevisadoRespaldado

(* Reviewing a test never takes the flag of its sample back. *)
LEMMA RevisarConserva ==
    ASSUME IInv, NEW e \in Ensayos, MarcarEnsayoRevisado(e), e[1] \in revisadas
    PROVE  e[1] \in revisadas'
<1>1. EnsayosVigentes(e[1])
    BY DEF IInv, RevisadaRespaldada
<1>2. EnsayosDe({e[1]}) \subseteq Ensayos
    BY DEF EnsayosDe, Ensayos
<1>3. MuestraRevisada(e[1])'
    BY <1>1, <1>2 DEF MarcarEnsayoRevisado, EnsayosVigentes, MuestraRevisada, MuestraCompleta, Valido,
                      ConfirmadosDe, IInv, TypeOK
<1>4. QED
    BY <1>3 DEF MarcarEnsayoRevisado, Sincronizar

(* The state of the batch follows the review of its samples. *)
LEMMA LoteRevisadoDelPaso == IInv /\ [Next]_vars => LoteRevisadoRespaldado'
<1> SUFFICES ASSUME IInv, [Next]_vars PROVE LoteRevisadoRespaldado'
    OBVIOUS
<1> USE RecalcularRespalda DEF IInv
<1>0. ASSUME UNCHANGED <<estado, varsMuestra>>
      PROVE  LoteRevisadoRespaldado'
    BY <1>0 DEF LoteRevisadoRespaldado, varsMuestra
<1>1. CASE Recibir
  <2>1. ASSUME NEW nuevo \in EstadosDelCliente, NEW S \in SUBSET Muestras, CrearLote(nuevo, S)
        PROVE  LoteRevisadoRespaldado'
      BY <2>1 DEF CrearLote, EstadoDeMuestras, LoteRevisadoRespaldado
  <2>2. ASSUME NEW nuevo \in EstadosDelCliente, EditarLote(nuevo)
        PROVE  LoteRevisadoRespaldado'
      BY <2>2 DEF EditarLote, EstadoDeMuestras, LoteRevisadoRespaldado, varsMuestra
  <2>3. CASE EliminarLote \/ RegistrarBorrador \/ CancelarLote \/ ReabrirLote \/ IngresarLote
               \/ RevertirIngreso
      BY <2>3 DEF EliminarLote, RegistrarBorrador, CancelarLote, ReabrirLote, IngresarLote,
                  RevertirIngreso, LoteRevisadoRespaldado
  <2>4. CASE Recalcular
      BY <2>4
  <2>5. QED
      BY <1>1, <2>1, <2>2, <2>3, <2>4
         DEF Recibir, RecalcularEstado, AgregarMuestras, EliminarMuestra, InvalidarMuestra,
             ReactivarMuestra
<1>2. CASE Asignar
    BY <1>0, <1>2 DEF Asignar, AsignarPruebas, varsLote
<1>3. CASE Capturar
    BY <1>3 DEF Capturar, GuardarBorrador, ConfirmarResultado, ImportarExcel, ConfirmarLote,
                InvalidarResultado, CorregirResultado, PropagarResultado
<1>4. CASE Revisar
  <2>1. ASSUME NEW e \in Ensayos, MarcarEnsayoRevisado(e)
        PROVE  LoteRevisadoRespaldado'
    <3>1. CASE e[1] \in revisadas'
        BY <2>1, <3>1 DEF MarcarEnsayoRevisado
    <3>2. CASE e[1] \notin revisadas'
        BY <2>1, <3>2, RevisarConserva DEF MarcarEnsayoRevisado, LoteRevisadoRespaldado
    <3>3. QED
        BY <3>1, <3>2
  <2>2. CASE CompletarRevision
      BY <2>2 DEF CompletarRevision
  <2>3. CASE UNCHANGED <<estado, varsMuestra>>
      BY <1>0, <2>3
  <2>4. QED
      BY <1>4, <2>1, <2>2, <2>3
         DEF Revisar, GuardarInterpretacion, LeerInterpretacion, LeerLote, varsLote
<1>5. CASE Entregar
    BY <1>5, EstadoAlEntregar, MarcoEntregar
       DEF MarcarReportado, EstadoDeMuestras, LoteRevisadoRespaldado, varsMuestra
<1>6. CASE UNCHANGED vars
    BY <1>0, <1>6 DEF vars, varsLote
<1>7. QED
    BY <1>1, <1>2, <1>3, <1>4, <1>5, <1>6 DEF Next

-----------------------------------------------------------------------------
(* What the laboratory does to the reports: nothing, or it annuls and hides
   those of one sample. *)
LEMMA MarcoInformes ==
    Asignar \/ Capturar \/ Revisar =>
        UNCHANGED varsInforme \/ \E m \in Muestras : AnularInformesDe(m)
<1>1. ASSUME NEW e \in Ensayos, InvalidarResultado(e)
      PROVE  \E m \in Muestras : AnularInformesDe(m)
    BY <1>1 DEF InvalidarResultado, Ensayos
<1>2. Capturar => UNCHANGED varsInforme \/ \E m \in Muestras : AnularInformesDe(m)
    BY <1>1 DEF Capturar, GuardarBorrador, ConfirmarResultado, ImportarExcel, ConfirmarLote,
                CorregirResultado, PropagarResultado
<1>3. Asignar \/ Revisar => UNCHANGED varsInforme
    BY DEF Asignar, AsignarPruebas, Revisar, MarcarEnsayoRevisado, CompletarRevision,
           GuardarInterpretacion, LeerInterpretacion, LeerLote
<1>4. QED
    BY <1>2, <1>3

(* The reports of the sample m that are annulled are not visible after it. *)
LEMMA AnularConserva ==
    ASSUME TypeOK, LiberadoSoloVigente, NEW m \in Muestras, AnularInformesDe(m),
           activas \ {m} \subseteq activas'
    PROVE  LiberadoSoloVigente'
BY DEF LiberadoSoloVigente, AnularInformesDe, TypeOK, Informes, InformesDe

(* What a client sees is approved, not annulled, and of a sample in force:
   publication and e-mail ask for it, and whatever takes a sample, a report
   or a result away hides the reports first. *)
LEMMA LiberadoDelPaso == IInv /\ [Next]_vars => LiberadoSoloVigente'
<1> SUFFICES ASSUME IInv, [Next]_vars PROVE LiberadoSoloVigente'
    OBVIOUS
<1> USE DEF IInv
<1>0. ASSUME UNCHANGED varsInforme, activas \subseteq activas'
      PROVE  LiberadoSoloVigente'
    BY <1>0 DEF LiberadoSoloVigente, varsInforme
<1>1. CASE Recibir
  <2>1. ASSUME NEW m \in Muestras, EliminarMuestra(m)
        PROVE  LiberadoSoloVigente'
      BY <2>1 DEF EliminarMuestra, BorrarMuestra, LiberadoSoloVigente, Informes, InformesDe, TypeOK
  <2>2. ASSUME NEW m \in Muestras, InvalidarMuestra(m)
        PROVE  LiberadoSoloVigente'
      BY <2>2, AnularConserva DEF InvalidarMuestra
  <2>3. ASSUME NEW nuevo \in EstadosDelCliente, NEW S \in SUBSET Muestras, CrearLote(nuevo, S)
        PROVE  LiberadoSoloVigente'
      BY <1>0, <2>3 DEF CrearLote, TypeOK
  <2>4. CASE UNCHANGED varsInforme /\ activas \subseteq activas'
      BY <1>0, <2>4
  <2>5. QED
      BY <1>1, <2>1, <2>2, <2>3, <2>4
         DEF Recibir, EditarLote, EliminarLote, RegistrarBorrador, CancelarLote, ReabrirLote,
             RecalcularEstado, AgregarMuestras, ReactivarMuestra, IngresarLote, RevertirIngreso,
             varsMuestra
<1>2. CASE Asignar \/ Capturar \/ Revisar
  <2>1. UNCHANGED activas
      BY <1>2, MarcoAnalizar DEF Asignar, AsignarPruebas, varsMuestra
  <2>2. QED
      BY <1>0, <1>2, <2>1, MarcoInformes, AnularConserva
<1>3. CASE Entregar
  <2> USE <1>3, MarcoEntregar DEF LiberadoSoloVigente, TypeOK, varsMuestra
  <2>1. ASSUME NEW x \in Informes, GenerarInforme(x[1], x[2])
        PROVE  LiberadoSoloVigente'
      BY <2>1 DEF GenerarInforme, Generar
  <2>2. CASE GenerarInformesLote
      BY <2>2 DEF GenerarInformesLote, Generar
  <2>3. ASSUME NEW x \in Informes, Aprobar(x) \/ EnviarAprobacion(x) \/ Anular(x)
        PROVE  LiberadoSoloVigente'
      BY <2>3 DEF Aprobar, EnviarAprobacion, Anular, Anulable, Cambiar
  <2>4. ASSUME NEW x \in Informes, Publicar(x) \/ Ocultar(x) \/ FallarCorreo(x)
        PROVE  LiberadoSoloVigente'
      BY <2>4 DEF Publicar, Ocultar, FallarCorreo, Liberable
  <2>5. ASSUME NEW X \in SUBSET Informes, Despachar(X),
               \A x \in X : x \in aprobados /\ x[1] \in activas
        PROVE  LiberadoSoloVigente'
      BY <2>5 DEF Despachar
  <2>6. ASSUME NEW x \in Informes, EnviarCorreo(x)
        PROVE  LiberadoSoloVigente'
      BY <2>5, <2>6 DEF EnviarCorreo, Liberable
  <2>7. CASE EnviarLote
      BY <2>5, <2>7, UltimoEmitido DEF EnviarLote
  <2>8. QED
      BY <2>1, <2>2, <2>3, <2>4, <2>6, <2>7 DEF Entregar
<1>4. CASE UNCHANGED vars
    BY <1>0, <1>4 DEF vars, varsMuestra
<1>5. QED
    BY <1>1, <1>2, <1>3, <1>4 DEF Next

-----------------------------------------------------------------------------
(* Closing a batch looks at the reports as the same step leaves them. *)
LEMMA MarcarReportadoRespalda ==
    ASSUME TypeOK, MarcarReportado, UNCHANGED activas
    PROVE  ReportadoEntregado'
<1> SUFFICES ASSUME estado' = "reportado", NEW m \in activas'
             PROVE  (\E x \in InformesDe({m}) : Entregado(x) /\ estatus[x] # "anulado")'
    BY DEF ReportadoEntregado
<1>1. Entregada(m)'
    BY DEF MarcarReportado, EstadoDeMuestras
<1>2. QED
    BY <1>1 DEF Entregada

(* A closed batch stays delivered: the steps that withdraw a delivery compute
   the state again, and a report that was delivered is not annulled alone. *)
LEMMA ReportadoDelPaso == IInv /\ [Next]_vars => ReportadoEntregado'
<1> SUFFICES ASSUME IInv, [Next]_vars PROVE ReportadoEntregado'
    OBVIOUS
<1> USE DEF IInv
<1>0. ASSUME UNCHANGED <<estado, activas, estatus>>, visibles' = visibles, aprobados' = aprobados,
             enviados \subseteq enviados'
      PROVE  ReportadoEntregado'
    BY <1>0 DEF ReportadoEntregado, Entregado
<1>1. CASE estado' # "reportado"
    BY <1>1 DEF ReportadoEntregado
<1>2. CASE Recibir
    BY <1>1, <1>2, RecalcularRespalda
       DEF Recibir, CrearLote, EditarLote, EliminarLote, RegistrarBorrador, CancelarLote, ReabrirLote,
           RecalcularEstado, AgregarMuestras, EliminarMuestra, InvalidarMuestra, ReactivarMuestra,
           IngresarLote, RevertirIngreso, EstadoDeMuestras
<1>3. CASE Asignar
    BY <1>0, <1>3 DEF Asignar, AsignarPruebas, varsLote, varsMuestra, varsInforme
<1>4. CASE Capturar
    BY <1>1, <1>4, RecalcularRespalda
       DEF Capturar, GuardarBorrador, ConfirmarResultado, ImportarExcel, ConfirmarLote,
           InvalidarResultado, CorregirResultado, PropagarResultado
<1>5. CASE Revisar
  <2>1. ASSUME NEW e \in Ensayos, MarcarEnsayoRevisado(e)
        PROVE  ReportadoEntregado'
      BY <1>1, <2>1, RecalcularRespalda DEF MarcarEnsayoRevisado, PuedeRevisar, Desbloqueado
  <2>2. CASE CompletarRevision
      BY <1>1, <2>2, RecalcularRespalda DEF CompletarRevision
  <2>3. CASE UNCHANGED <<varsLote, varsMuestra, varsInforme>>
      BY <1>0, <2>3 DEF varsLote, varsMuestra, varsInforme
  <2>4. QED
      BY <1>5, <2>1, <2>2, <2>3 DEF Revisar, GuardarInterpretacion, LeerInterpretacion, LeerLote
<1>6. CASE Entregar
  <2> UNCHANGED activas
      BY <1>6, MarcoEntregar DEF varsMuestra
  <2>1. CASE MarcarReportado
      BY <2>1, MarcarReportadoRespalda
  <2>2. ASSUME NEW x \in Informes, Aprobar(x) \/ EnviarAprobacion(x)
        PROVE  ReportadoEntregado'
      BY <2>2 DEF Aprobar, EnviarAprobacion, Cambiar, ReportadoEntregado, Entregado, varsLote,
                  TypeOK, Informes, InformesDe
  <2>3. ASSUME NEW x \in Informes, FallarCorreo(x)
        PROVE  ReportadoEntregado'
      BY <1>0, <2>3 DEF FallarCorreo, varsLote
  <2>4. ASSUME NEW x \in Informes, Anular(x)
        PROVE  ReportadoEntregado'
      BY <2>4 DEF Anular, Anulable, Cambiar, ReportadoEntregado, Entregado, varsLote,
                  TypeOK, Informes, InformesDe
  <2>5. QED
      BY <1>6, <2>1, <2>2, <2>3, <2>4
         DEF Entregar, GenerarInforme, GenerarInformesLote, Generar, Publicar, Ocultar,
             EnviarCorreo, EnviarLote, Despachar
<1>7. CASE UNCHANGED vars
    BY <1>0, <1>7 DEF vars, varsLote, varsMuestra, varsInforme
<1>8. QED
    BY <1>2, <1>3, <1>4, <1>5, <1>6, <1>7 DEF Next

-----------------------------------------------------------------------------
(* The inductive invariant holds for any samples, tests and versions. *)
THEOREM Invariante == Spec => []IInv
<1>1. Init => IInv
    BY IInvInicial
<1>2. IInv /\ [Next]_vars => IInv'
    BY TipoDelPaso, EvidenciaDelPaso, RevisadaDelPaso, LoteRevisadoDelPaso, LiberadoDelPaso,
       ReportadoDelPaso DEF IInv
<1>3. QED
    BY <1>1, <1>2, PTL DEF Spec

(* Every column holds a value of its type, and a row that does not exist has
   nothing in it. *)
THEOREM TiposCorrectos == Spec => []TypeOK
<1>1. IInv => TypeOK
    BY DEF IInv
<1>2. QED
    BY <1>1, Invariante, PTL

(* Evidence exists only of samples that entered the laboratory. *)
THEOREM EvidenciaSiempreIngresada == Spec => []EvidenciaIngresada
<1>1. IInv => EvidenciaIngresada
    BY DEF IInv
<1>2. QED
    BY <1>1, Invariante, PTL

(* The flag of a reviewed sample is always backed by its tests. *)
THEOREM RevisadaSiempreRespaldada == Spec => []RevisadaRespaldada
<1>1. IInv => RevisadaRespaldada
    BY DEF IInv
<1>2. QED
    BY <1>1, Invariante, PTL

(* A batch shown as reviewed always has its samples reviewed. *)
THEOREM LoteRevisadoSiempreRespaldado == Spec => []LoteRevisadoRespaldado
<1>1. IInv => LoteRevisadoRespaldado
    BY DEF IInv
<1>2. QED
    BY <1>1, Invariante, PTL

(* A client never sees a report that is not approved, is annulled or is of an
   invalidated sample. *)
THEOREM LiberadoSiempreVigente == Spec => []LiberadoSoloVigente
<1>1. IInv => LiberadoSoloVigente
    BY DEF IInv
<1>2. QED
    BY <1>1, Invariante, PTL

(* A closed batch always has a delivered report of each active sample. *)
THEOREM ReportadoSiempreEntregado == Spec => []ReportadoEntregado
<1>1. IInv => ReportadoEntregado
    BY DEF IInv
<1>2. QED
    BY <1>1, Invariante, PTL

(* No step deletes a stored result or an issued report: the guards of the
   deletions and of the assignment reach only what has no evidence. *)
THEOREM EvidenciaSiempreConservada == Spec => EvidenciaConservada
<1> DEFINE Conserva == /\ \A e \in Ensayos : resultado[e] # "ninguno" => resultado'[e] # "ninguno"
                       /\ \A x \in Informes : estatus[x] # "no" => estatus'[x] # "no"
<1>1. IInv /\ [Next]_vars => Conserva
  <2> SUFFICES ASSUME IInv, [Next]_vars PROVE Conserva
      OBVIOUS
  <2>1. CASE Recibir
    <3>1. ASSUME NEW m \in Muestras, EliminarMuestra(m)
          PROVE  Conserva
        BY <3>1 DEF EliminarMuestra, BorrarMuestra, Eliminable, EnsayosDe, IInv,
                    EvidenciaIngresada, Protegido
    <3>2. ASSUME NEW m \in Muestras, InvalidarMuestra(m)
          PROVE  Conserva
        BY <3>2 DEF InvalidarMuestra, AnularInformesDe, varsEnsayo
    <3>3. CASE UNCHANGED <<varsEnsayo, varsInforme>>
        BY <3>3 DEF varsEnsayo, varsInforme
    <3>4. QED
        BY <2>1, <3>1, <3>2, <3>3, MarcoRecibir
           DEF CrearLote, EliminarLote, IngresarLote, RevertirIngreso
  <2>2. CASE Asignar \/ Capturar \/ Revisar
    <3>1. \A x \in Informes : estatus[x] # "no" => estatus'[x] # "no"
        BY <2>2, MarcoInformes DEF AnularInformesDe, varsInforme
    <3>2. \A e \in Ensayos : resultado[e] # "ninguno" => resultado'[e] # "ninguno"
      <4>1. CASE Asignar
          BY <4>1 DEF Asignar, AsignarPruebas, Protegido
      <4>2. CASE Capturar
          BY <4>2 DEF Capturar, GuardarBorrador, ConfirmarResultado, ImportarExcel, ConfirmarLote,
                      InvalidarResultado, CorregirResultado, IInv, TypeOK
      <4>3. CASE Revisar
          BY <4>3 DEF Revisar, MarcarEnsayoRevisado, CompletarRevision, GuardarInterpretacion,
                      LeerInterpretacion, LeerLote, varsEnsayo, IInv, TypeOK
      <4>4. QED
          BY <2>2, <4>1, <4>2, <4>3
    <3>3. QED
        BY <3>1, <3>2
  <2>3. CASE Entregar
    <3>1. \A x \in Informes : estatus[x] # "no" => estatus'[x] # "no"
        BY <2>3 DEF Entregar, GenerarInforme, GenerarInformesLote, Generar, Aprobar,
                    EnviarAprobacion, Publicar, Ocultar, EnviarCorreo, Despachar, FallarCorreo,
                    EnviarLote, Anular, Cambiar, varsInforme, IInv, TypeOK
    <3>2. QED
        BY <2>3, <3>1, MarcoEntregar DEF varsEnsayo
  <2>4. CASE UNCHANGED vars
      BY <2>4 DEF vars, varsEnsayo, varsInforme
  <2>5. QED
      BY <2>1, <2>2, <2>3, <2>4 DEF Next
<1>2. QED
    BY <1>1, Invariante, PTL DEF Spec, EvidenciaConservada

(* Outside the delivery no report is issued. *)
LEMMA SoloEntregarEmite ==
    ASSUME IInv, Recibir \/ Asignar \/ Capturar \/ Revisar, NEW x \in Informes, estatus[x] = "no"
    PROVE  estatus'[x] = "no"
<1> USE DEF IInv, TypeOK
<1>1. CASE Recibir
  <2>1. ASSUME NEW m \in Muestras, EliminarMuestra(m)
        PROVE  estatus'[x] = "no"
      BY <2>1 DEF EliminarMuestra, BorrarMuestra
  <2>2. ASSUME NEW m \in Muestras, InvalidarMuestra(m)
        PROVE  estatus'[x] = "no"
      BY <2>2 DEF InvalidarMuestra, AnularInformesDe
  <2>3. CASE UNCHANGED varsInforme
      BY <2>3 DEF varsInforme
  <2>4. QED
      BY <1>1, <2>1, <2>2, <2>3, MarcoRecibir
         DEF CrearLote, EliminarLote, IngresarLote, RevertirIngreso
<1>2. CASE Asignar \/ Capturar \/ Revisar
    BY <1>2, MarcoInformes DEF AnularInformesDe, varsInforme
<1>3. QED
    BY <1>1, <1>2

(* A report is issued only of a sample whose tests are reviewed and valid at
   that moment. *)
THEOREM SiempreEmitidoRevisado == Spec => EmitidoSoloRevisado
<1> DEFINE Emite == \A x \in Informes : estatus[x] = "no" /\ estatus'[x] # "no"
                       => x[1] \in activas /\ EnsayosVigentes(x[1])
<1>1. IInv /\ [Next]_vars => Emite
  <2> SUFFICES ASSUME IInv, [Next]_vars, NEW x \in Informes, estatus[x] = "no", estatus'[x] # "no"
               PROVE  x[1] \in activas /\ EnsayosVigentes(x[1])
      OBVIOUS
  <2>1. Entregar
      BY SoloEntregarEmite DEF Next, vars, varsInforme
  <2>2. QED
      BY <2>1, NoEmitido DEF IInv, RevisadaRespaldada
<1>2. QED
    BY <1>1, Invariante, PTL DEF Spec, EmitidoSoloRevisado

(* A report that reached the client is annulled only with its sample or with
   one of its results. *)
THEOREM SiempreAnuladoPorInvalidacion == Spec => AnuladoPorInvalidacion
<1> DEFINE Motivo(x) == \/ x[1] \in activas \ activas'
                        \/ \E e \in EnsayosDe({x[1]}) : resultado'[e] = "rechazado"
           Anula == \A x \in visibles \cup enviados :
                        estatus[x] # "anulado" /\ estatus'[x] = "anulado" => Motivo(x)
<1>1. IInv /\ [Next]_vars => Anula
  <2> SUFFICES ASSUME IInv, [Next]_vars, NEW x \in visibles \cup enviados,
                      estatus[x] # "anulado", estatus'[x] = "anulado"
               PROVE  Motivo(x)
      OBVIOUS
  <2> x \in Informes /\ estatus[x] # "no"
      BY DEF IInv, TypeOK
  <2> USE DEF IInv, TypeOK
  <2>1. ASSUME NEW m \in Muestras, InvalidarMuestra(m)
        PROVE  Motivo(x)
      BY <2>1 DEF InvalidarMuestra, AnularInformesDe
  <2>2. ASSUME NEW m \in Muestras, EliminarMuestra(m)
        PROVE  FALSE
      BY <2>2 DEF EliminarMuestra, BorrarMuestra
  <2>3. ASSUME NEW e \in Ensayos, InvalidarResultado(e)
        PROVE  Motivo(x)
    <3>1. x[1] = e[1] /\ resultado'[e] = "rechazado" /\ e \in EnsayosDe({e[1]})
        BY <2>3 DEF InvalidarResultado, AnularInformesDe, EnsayosDe, Ensayos
    <3>2. QED
        BY <3>1
  <2>4. CASE UNCHANGED varsInforme
      BY <2>4 DEF varsInforme
  <2>5. CASE Entregar
      BY <2>5 DEF Entregar, GenerarInforme, GenerarInformesLote, Generar, Aprobar,
                  EnviarAprobacion, Publicar, Ocultar, EnviarCorreo, Despachar, FallarCorreo,
                  EnviarLote, Anular, Anulable, Cambiar, varsInforme
  <2>6. Recibir => \/ UNCHANGED varsInforme
                   \/ \E m \in Muestras : InvalidarMuestra(m) \/ EliminarMuestra(m)
      BY MarcoRecibir DEF CrearLote, EliminarLote, IngresarLote, RevertirIngreso
  <2>7. Asignar \/ Capturar \/ Revisar => \/ UNCHANGED varsInforme
                                          \/ \E e \in Ensayos : InvalidarResultado(e)
      BY DEF Asignar, AsignarPruebas, Capturar, GuardarBorrador, ConfirmarResultado, ImportarExcel,
             ConfirmarLote, CorregirResultado, PropagarResultado, Revisar, MarcarEnsayoRevisado,
             CompletarRevision, GuardarInterpretacion, LeerInterpretacion, LeerLote
  <2>8. QED
      BY <2>1, <2>2, <2>3, <2>4, <2>5, <2>6, <2>7 DEF Next, vars
<1>2. QED
    BY <1>1, Invariante, PTL DEF Spec, AnuladoPorInvalidacion

-----------------------------------------------------------------------------
(* Annulling the reports of a sample hides exactly what the client saw of it:
   an annulled report is not visible. *)
LEMMA AnularOculta ==
    ASSUME IInv, NEW m \in Muestras, AnularInformesDe(m)
    PROVE  visibles' = {x \in visibles : x[1] # m}
BY DEF IInv, LiberadoSoloVigente, AnularInformesDe, TypeOK, Informes, InformesDe

(* A step of the laboratory that is not a delivery, as the client sees it. *)
LEMMA PasoAnalizar ==
    ASSUME IInv, Asignar \/ Capturar \/ Revisar PROVE [P!Next]_P!vars
<1>1. UNCHANGED activas
    BY MarcoAnalizar DEF Asignar, AsignarPruebas, varsMuestra
<1>2. QED
    BY <1>1, MarcoInformes, AnularOculta
       DEF P!Next, P!RetirarInformes, P!vars, varsInforme

(* What the client is promised, step by step: reception. *)
LEMMA PasoRecibir == ASSUME IInv, Recibir PROVE [P!Next]_P!vars
<1> USE DEF IInv, TypeOK
<1>1. ASSUME NEW nuevo \in EstadosDelCliente, NEW S \in SUBSET Muestras, CrearLote(nuevo, S)
      PROVE  P!Next
    BY <1>1 DEF CrearLote, P!Next, P!Incorporar, varsInforme
<1>2. ASSUME NEW m \in Muestras, EliminarMuestra(m)
      PROVE  P!Next
  <2>1. activas' = activas \ {m} /\ visibles' = {x \in visibles : x[1] # m}
      BY <1>2 DEF EliminarMuestra, BorrarMuestra, Informes, InformesDe
  <2>2. QED
      BY <2>1 DEF P!Next, P!RetirarMuestra
<1>3. ASSUME NEW m \in Muestras, InvalidarMuestra(m)
      PROVE  P!Next
    BY <1>3, AnularOculta DEF InvalidarMuestra, P!Next, P!RetirarMuestra
<1>4. ASSUME NEW S \in SUBSET Muestras, AgregarMuestras(S)
      PROVE  P!Next
    BY <1>4 DEF AgregarMuestras, P!Next, P!Incorporar, varsInforme
<1>5. ASSUME NEW m \in Muestras, ReactivarMuestra(m)
      PROVE  P!Next
  <2>1. {m} \in SUBSET Muestras /\ P!Incorporar({m})
      BY <1>5 DEF ReactivarMuestra, P!Incorporar, varsInforme
  <2>2. QED
      BY <2>1 DEF P!Next
<1>6. CASE UNCHANGED <<activas, visibles>>
    BY <1>6 DEF P!vars
<1>7. QED
    BY <1>1, <1>2, <1>3, <1>4, <1>5, <1>6
       DEF Recibir, EditarLote, EliminarLote, RegistrarBorrador, CancelarLote, ReabrirLote,
           RecalcularEstado, IngresarLote, RevertirIngreso, varsMuestra, varsInforme

(* What the client is promised, step by step: delivery. *)
LEMMA PasoEntregar == ASSUME IInv, Entregar PROVE [P!Next]_P!vars
<1> UNCHANGED activas
    BY MarcoEntregar DEF varsMuestra
<1> USE DEF IInv, TypeOK, Informes, Versiones, P!Informes
<1>1. ASSUME NEW X \in SUBSET Informes, Despachar(X), \A x \in X : x[1] \in activas
      PROVE  P!Next
    BY <1>1 DEF Despachar, P!Next, P!PublicarInformes
<1>2. ASSUME NEW x \in Informes, Publicar(x)
      PROVE  P!Next
  <2>1. {x} \in SUBSET P!Informes /\ \A y \in {x} : y[1] \in activas
      BY <1>2 DEF Publicar, Liberable
  <2>2. P!PublicarInformes({x})
      BY <1>2, <2>1 DEF Publicar, P!PublicarInformes
  <2>3. QED
      BY <2>1, <2>2 DEF P!Next
<1>3. ASSUME NEW x \in Informes, Ocultar(x)
      PROVE  P!Next
    BY <1>3 DEF Ocultar, P!Next, P!OcultarInforme
<1>4. ASSUME NEW x \in Informes, EnviarCorreo(x)
      PROVE  P!Next
    BY <1>1, <1>4 DEF EnviarCorreo, Liberable
<1>5. CASE EnviarLote
    BY <1>1, <1>5 DEF EnviarLote
<1>6. CASE UNCHANGED visibles
    BY <1>6 DEF P!vars
<1>7. QED
    BY <1>2, <1>3, <1>4, <1>5, <1>6
       DEF Entregar, GenerarInforme, GenerarInformesLote, Generar, Aprobar, EnviarAprobacion,
           FallarCorreo, Anular

(* The laboratory implements the promise made to the client: every step shows
   as a step of Publicacion, or does not show. *)
THEOREM LaboratorioCumple == Spec => CumplePublicacion
<1>1. Init => P!Init
    BY DEF Init, SinLote, P!Init
<1>2. IInv /\ [Next]_vars => [P!Next]_P!vars
  <2>1. UNCHANGED vars => UNCHANGED P!vars
      BY DEF vars, varsMuestra, varsInforme, P!vars
  <2>2. QED
      BY <2>1, PasoRecibir, PasoAnalizar, PasoEntregar DEF Next
<1>3. QED
    BY <1>1, <1>2, Invariante, PTL DEF Spec, CumplePublicacion, P!Spec

-----------------------------------------------------------------------------
(* Requests that overlap.                                                  *)

(* What is kept of a request in progress. *)
EnCurso ==
    [paso : {"guardar", "contar", "decidir", "guardarLote"}, tipo : TiposDeReporte, x : Informes,
     estatus : EstadosInforme, visible : BOOLEAN, estado : EstadosLote,
     total : Nat, destino : EstadosLote]

Compartido ==
    /\ activas \subseteq Muestras
    /\ estatus \in [Informes -> EstadosInforme]
    /\ estado \in EstadosLote
    /\ peticion \in [Peticiones -> {Libre} \cup EnCurso]

(* A free worker is at no other step. *)
LEMMA Ocupada == \A q : q.paso # "libre" => q # Libre
BY DEF Libre

(* A request whose step is not "libre" keeps all of it. *)
LEMMA SigueEnCurso ==
    ASSUME Compartido, NEW p \in Peticiones, peticion[p].paso # "libre"
    PROVE  peticion[p] \in EnCurso
BY DEF Compartido, Libre

(* A request moves on, or frees its worker, and changes no other. *)
LEMMA AlAvanzar ==
    ASSUME Compartido, NEW p \in Peticiones, peticion[p] \in EnCurso,
           NEW siguiente \in {"libre", "contar"}, Avanzar(p, siguiente)
    PROVE  /\ peticion' \in [Peticiones -> {Libre} \cup EnCurso]
           /\ \A o \in Peticiones \ {p} : peticion'[o] = peticion[o]
           /\ siguiente = "libre" => peticion'[p] = Libre
           /\ siguiente = "contar" => peticion'[p] = [peticion[p] EXCEPT !.paso = "contar"]
BY DEF Compartido, Avanzar, EnCurso

(* The batch is compared and its new state kept for the save. *)
LEMMA AlDestinar ==
    ASSUME Compartido, NEW p \in Peticiones, peticion[p] \in EnCurso,
           NEW nuevo \in EstadosLote, Destinar(p, nuevo)
    PROVE  /\ peticion' \in [Peticiones -> {Libre} \cup EnCurso]
           /\ \A o \in Peticiones \ {p} : peticion'[o] = peticion[o]
           /\ peticion'[p] = [peticion[p] EXCEPT !.paso = "guardarLote", !.destino = nuevo]
BY DEF Compartido, Destinar, EnCurso

(* The live rows are counted. *)
LEMMA AlContar ==
    ASSUME Compartido, IsFiniteSet(Muestras), NEW p \in Peticiones, Contar(p)
    PROVE  /\ peticion' \in [Peticiones -> {Libre} \cup EnCurso]
           /\ peticion[p] \in EnCurso
           /\ \A o \in Peticiones \ {p} : peticion'[o] = peticion[o]
           /\ peticion'[p] = [peticion[p] EXCEPT !.paso = "decidir", !.total = Cardinality(activas)]
<1>1. Cardinality(activas) \in Nat
    BY FS_Subset, FS_CardinalityType DEF Compartido
<1>2. peticion[p] \in EnCurso
    BY SigueEnCurso DEF Contar
<1>3. QED
    BY <1>1, <1>2 DEF Compartido, Contar, EnCurso

(* The copy a request has just read. *)
LEMMA AlLeer ==
    ASSUME Compartido, NEW p \in Peticiones, Leer(p)
    PROVE  /\ peticion' \in [Peticiones -> {Libre} \cup EnCurso]
           /\ \A o \in Peticiones \ {p} : peticion'[o] = peticion[o]
           /\ peticion'[p] \in EnCurso
           /\ peticion'[p].paso = "guardar"
           /\ Admitido(peticion'[p].tipo, peticion'[p].x)
           /\ peticion'[p].estatus = estatus[peticion'[p].x]
           /\ peticion'[p].visible = (peticion'[p].x \in visibles)
           /\ peticion'[p].estado = estado
<1>1. PICK tipo \in Tipos, x \in Informes :
          /\ Admitido(tipo, x)
          /\ peticion' = [peticion EXCEPT ![p] =
                [paso |-> "guardar", tipo |-> tipo, x |-> x,
                 estatus |-> estatus[x], visible |-> x \in visibles, estado |-> estado,
                 total |-> 0, destino |-> estado]]
    BY DEF Leer
<1> DEFINE q == [paso |-> "guardar", tipo |-> tipo, x |-> x,
                 estatus |-> estatus[x], visible |-> x \in visibles, estado |-> estado,
                 total |-> 0, destino |-> estado]
<1>2. q \in EnCurso
    BY TiposAssumption DEF EnCurso, Compartido
<1>3. /\ q.paso = "guardar" /\ q.tipo = tipo /\ q.x = x /\ q.estatus = estatus[x]
      /\ q.visible = (x \in visibles) /\ q.estado = estado
    OBVIOUS
<1>4. peticion' = [peticion EXCEPT ![p] = q]
    BY <1>1
<1> HIDE DEF q
<1>5. peticion'[p] = q /\ \A o \in Peticiones \ {p} : peticion'[o] = peticion[o]
    BY <1>4 DEF Compartido
<1>6. peticion' \in [Peticiones -> {Libre} \cup EnCurso]
    BY <1>2, <1>4 DEF Compartido
<1>7. QED
    BY <1>1, <1>2, <1>3, <1>5, <1>6

(* The save of a request frees the worker or goes on to count. *)
LEMMA AlGuardar ==
    ASSUME Compartido, NEW p \in Peticiones, Guardar(p)
    PROVE  /\ peticion' \in [Peticiones -> {Libre} \cup EnCurso]
           /\ peticion[p] \in EnCurso /\ peticion[p].paso = "guardar"
           /\ \A o \in Peticiones \ {p} : peticion'[o] = peticion[o]
           /\ ~Cuenta(peticion[p].tipo) => peticion'[p] = Libre
           /\ Cuenta(peticion[p].tipo) => peticion'[p] = [peticion[p] EXCEPT !.paso = "contar"]
<1>1. peticion[p].paso = "guardar"
    BY DEF Guardar
<1>2. peticion[p] \in EnCurso
    BY <1>1, SigueEnCurso
<1>3. CASE Cuenta(peticion[p].tipo)
    BY <1>1, <1>2, <1>3, AlAvanzar DEF Guardar
<1>4. CASE ~Cuenta(peticion[p].tipo)
    BY <1>1, <1>2, <1>4, AlAvanzar DEF Guardar
<1>5. QED
    BY <1>3, <1>4

(* What the requests share keeps its form, whatever overlaps. *)
LEMMA CompartidoSigue ==
    ASSUME Compartido, IsFiniteSet(Muestras), NEW p \in Peticiones, Turno(p)
    PROVE  Compartido'
<1>1. CASE Leer(p)
    BY <1>1, AlLeer DEF Leer, Compartido, vars, varsLote, varsMuestra, varsInforme
<1>2. CASE Guardar(p)
  <2>1. peticion' \in [Peticiones -> {Libre} \cup EnCurso] /\ peticion[p] \in EnCurso
      BY <1>2, AlGuardar
  <2>2. CASE GuardarReporte(peticion[p])
    <3>1. activas' = activas /\ estado' = estado
        BY <2>2 DEF GuardarReporte, Escribir, varsLote, varsMuestra
    <3>2. estatus' \in [Informes -> EstadosInforme]
        BY <2>1, <2>2
           DEF GuardarReporte, Escribir, Cambiar, EnCurso, Compartido, EstadosInforme
    <3>3. QED
        BY <2>1, <3>1, <3>2 DEF Compartido
  <2>3. CASE Invalidar(peticion[p].x[1])
    <3>1. activas' \subseteq Muestras
        BY <2>3 DEF Invalidar, Compartido
    <3>2. estatus' \in [Informes -> EstadosInforme]
        BY <2>3 DEF Invalidar, AnularInformesDe, Compartido, EstadosInforme
    <3>3. estado' \in EstadosLote
        BY <2>3, EstadoDerivado DEF Invalidar, Recalcular, Compartido
    <3>4. QED
        BY <2>1, <3>1, <3>2, <3>3 DEF Compartido
  <2>4. QED
      BY <1>2, <2>2, <2>3 DEF Guardar
<1>3. CASE Contar(p)
    BY <1>3, AlContar DEF Contar, Compartido, vars, varsLote, varsMuestra, varsInforme
<1>4. CASE Decidir(p)
  <2>1. UNCHANGED vars /\ peticion[p] \in EnCurso
      BY <1>4, SigueEnCurso DEF Decidir
  <2>2. "reportado" \in EstadosLote /\ EstadoDeMuestras \in EstadosLote
      BY EstadoDerivado DEF EstadosLote
  <2>3. Avanzar(p, "libre") \/ Destinar(p, "reportado") \/ Destinar(p, EstadoDeMuestras)
      BY <1>4 DEF Decidir
  <2>4. peticion' \in [Peticiones -> {Libre} \cup EnCurso]
      BY <2>1, <2>2, <2>3, AlAvanzar, AlDestinar
  <2>5. QED
      BY <2>1, <2>4 DEF Compartido, vars, varsLote, varsMuestra, varsInforme
<1>5. CASE GuardarLote(p)
  <2>1. peticion[p] \in EnCurso
      BY <1>5, SigueEnCurso DEF GuardarLote
  <2>2. peticion' \in [Peticiones -> {Libre} \cup EnCurso]
      BY <1>5, <2>1, AlAvanzar DEF GuardarLote
  <2>3. estado' \in EstadosLote
      BY <1>5, <2>1 DEF GuardarLote, EnCurso
  <2>4. QED
      BY <1>5, <2>2, <2>3 DEF GuardarLote, Compartido, varsMuestra, varsInforme
<1>6. QED
    BY <1>1, <1>2, <1>3, <1>4, <1>5 DEF Turno

(* A request that will still close the batch if it has to. *)
EnCamino(q) == q.paso \in {"contar", "decidir", "guardarLote"} /\ q.estado # "reportado"

(* What is known of a request when none withdraws anything. *)
Concedido(q) ==
    /\ q.tipo \in Concurrentes
    /\ q.paso = "guardar" =>
          /\ q.estatus # "anulado"
          /\ q.tipo # "aprobar" => q.x \in aprobados
          /\ q.tipo = "correoFallido" /\ q.visible => q.x \in visibles \cup enviados
    /\ q.paso = "decidir" => q.total = Cardinality(Muestras)
    /\ q.paso = "guardarLote" => q.destino = "reportado"
    /\ q.estado = "reportado" => estado = "reportado"

(* A failed e-mail that read the report as visible will write that again. *)
Restituye(q, x) ==
    q.paso = "guardar" /\ q.tipo = "correoFallido" /\ q.x = x /\ q.visible

(* The report is with the client, or a save under way is about to show it. *)
AlAlcance(x) ==
    \/ x \in visibles \cup correos
    \/ \E p \in Peticiones : Restituye(peticion[p], x)

(* While nothing is withdrawn: a delivered report stays counted as delivered,
   and the batch is closed, or about to be, as soon as every sample has one. *)
NadaRetirado ==
    /\ activas = Muestras
    /\ \A x \in Informes : estatus[x] # "anulado"
    /\ correos \subseteq enviados
    /\ visibles \cup correos \subseteq aprobados
    /\ \A p \in Peticiones : peticion[p] # Libre => Concedido(peticion[p])
    /\ (estado = "reportado" \/ \E p \in Peticiones : peticion[p].paso = "guardarLote") =>
          \A m \in Muestras : Entregada(m)
    /\ (\A m \in Muestras : \E x \in InformesDe({m}) : x \in aprobados /\ AlAlcance(x)) =>
          estado = "reportado" \/ \E p \in Peticiones : EnCamino(peticion[p])

InvJuntas == Compartido /\ (modo = "juntas" => NadaRetirado)

(* What the run lets overlap: approvals, publications and e-mails. *)
SinRetiradas == Concurrentes \subseteq {"aprobar", "publicar", "correo", "correoFallido"}

(* A sample whose reports are within reach of the client counts as delivered. *)
LEMMA AlcanzadaEntregada ==
    ASSUME Compartido, NadaRetirado, NEW m \in Muestras, NEW x \in InformesDe({m}),
           x \in aprobados, AlAlcance(x)
    PROVE  Entregada(m)
<1>1. x \in Informes /\ \A y \in InformesDe({m}) : y \in Informes
    BY DEF Informes, InformesDe
<1>2. x \in visibles \cup enviados
  <2>1. CASE x \in visibles \cup correos
      BY <2>1 DEF NadaRetirado
  <2>2. ASSUME NEW p \in Peticiones, Restituye(peticion[p], x)
        PROVE  x \in visibles \cup enviados
      BY <2>2 DEF Restituye, NadaRetirado, Concedido, Libre
  <2>3. QED
      BY <2>1, <2>2 DEF AlAlcance
<1>3. QED
    BY <1>1, <1>2 DEF Entregada, Entregado, NadaRetirado

(* The count of the delivered samples reaches the total when all are. *)
LEMMA CuentaCompleta ==
    ASSUME NadaRetirado, IsFiniteSet(Muestras), Muestras # {}, NEW q,
           q.total = Cardinality(Muestras)
    PROVE  TodasEntregadas(q) <=> \A m \in Muestras : Entregada(m)
<1> DEFINE D == {m \in activas : Entregada(m)}
<1>1. D \subseteq Muestras /\ activas = Muestras
    BY DEF NadaRetirado
<1>2. Cardinality(D) = Cardinality(Muestras) <=> D = Muestras
    BY <1>1, FS_Subset
<1>3. Cardinality(Muestras) # 0
    BY FS_EmptySet
<1>4. D = Muestras <=> \A m \in Muestras : Entregada(m)
    BY <1>1
<1>5. QED
    BY <1>2, <1>3, <1>4 DEF TodasEntregadas

(* A delivered sample stays delivered when an approval, a publication or an
   e-mail, accepted or refused, is saved. *)
LEMMA GuardaSinRetirar ==
    ASSUME Compartido, NadaRetirado, SinRetiradas, NEW p \in Peticiones, Guardar(p)
    PROVE  /\ UNCHANGED <<activas, estado>>
           /\ \A x \in Informes : estatus'[x] # "anulado"
           /\ correos' \subseteq enviados'
           /\ visibles' \cup correos' \subseteq aprobados'
           /\ aprobados \subseteq aprobados'
           /\ visibles \cup enviados \subseteq visibles' \cup enviados'
           /\ \A m \in Muestras : Entregada(m) => Entregada(m)'
<1> DEFINE q == peticion[p]
<1>0. q \in EnCurso /\ q.paso = "guardar"
    BY AlGuardar
<1>1. q # Libre /\ q.x \in Informes
    BY <1>0, Ocupada DEF EnCurso
<1>2. /\ q.tipo \in {"aprobar", "publicar", "correo", "correoFallido"}
      /\ q.estatus # "anulado"
      /\ q.tipo # "aprobar" => q.x \in aprobados
    BY <1>0, <1>1 DEF NadaRetirado, Concedido, SinRetiradas
<1>3. GuardarReporte(q)
    BY <1>2 DEF Guardar
<1> HIDE DEF q
<1>4. UNCHANGED <<activas, estado>>
    BY <1>3 DEF GuardarReporte, Escribir, varsLote, varsMuestra
<1>5. \A x \in Informes : estatus'[x] # "anulado"
    BY <1>1, <1>2, <1>3 DEF GuardarReporte, Escribir, Cambiar, NadaRetirado, Compartido
<1>6. /\ correos' \subseteq enviados'
      /\ visibles' \cup correos' \subseteq aprobados'
      /\ aprobados \subseteq aprobados'
      /\ visibles \cup enviados \subseteq visibles' \cup enviados'
    BY <1>2, <1>3 DEF GuardarReporte, NadaRetirado
<1>7. ASSUME NEW m \in Muestras, Entregada(m)
      PROVE  Entregada(m)'
  <2>1. \A x : Entregado(x) => Entregado(x)'
      BY <1>6 DEF Entregado
  <2>2. \A x \in InformesDe({m}) : x \in Informes
      BY DEF Informes, InformesDe
  <2>3. InformesDe({m})' = InformesDe({m})
      BY DEF InformesDe, Versiones
  <2>4. QED
      BY <1>5, <1>7, <2>1, <2>2, <2>3 DEF Entregada
<1>8. QED
    BY <1>4, <1>5, <1>6, <1>7

(* A report comes within reach of the client with a save that is counted
   after it. *)
LEMMA SoloLoContadoAlcanza ==
    ASSUME Compartido, NadaRetirado, SinRetiradas, NEW p \in Peticiones, Guardar(p),
           ~Cuenta(peticion[p].tipo), NEW x, x \in aprobados', AlAlcance(x)'
    PROVE  x \in aprobados /\ AlAlcance(x)
<1> DEFINE q == peticion[p]
<1>0. q \in EnCurso /\ q.paso = "guardar"
    BY AlGuardar
<1>1. q # Libre
    BY <1>0, Ocupada
<1>2. q.tipo \in {"aprobar", "correoFallido"} /\ GuardarReporte(q)
    BY <1>0, <1>1 DEF Guardar, Cuenta, NadaRetirado, Concedido, SinRetiradas
<1>3. peticion'[p] = Libre /\ \A o \in Peticiones \ {p} : peticion'[o] = peticion[o]
    BY AlGuardar
<1>4. AlAlcance(x)
  <2>1. ASSUME NEW o \in Peticiones, Restituye(peticion'[o], x)
        PROVE  AlAlcance(x)
    <3>1. o # p
        BY <1>3, <2>1 DEF Restituye, Libre
    <3>2. QED
        BY <1>3, <2>1, <3>1 DEF AlAlcance
  <2>2. ASSUME x \in visibles' \cup correos'
        PROVE  AlAlcance(x)
    <3>1. CASE q.tipo = "aprobar"
        BY <1>2, <2>2, <3>1 DEF GuardarReporte, AlAlcance
    <3>2. CASE q.tipo = "correoFallido"
      <4>1. x \in visibles \cup correos \/ (q.visible /\ x = q.x)
          BY <1>2, <2>2, <3>2 DEF GuardarReporte
      <4>2. QED
          BY <1>0, <3>2, <4>1 DEF AlAlcance, Restituye
    <3>3. QED
        BY <1>2, <3>1, <3>2
  <2>3. QED
      BY <2>1, <2>2 DEF AlAlcance
<1>5. x \in aprobados
  <2>1. CASE q.tipo = "aprobar"
    <3>1. ASSUME x = q.x PROVE x \in aprobados
      <4>1. CASE x \in visibles \cup correos
          BY <4>1 DEF NadaRetirado
      <4>2. ASSUME NEW o \in Peticiones, Restituye(peticion[o], x)
            PROVE  x \in aprobados
          BY <4>2 DEF Restituye, NadaRetirado, Concedido, Libre
      <4>3. QED
          BY <1>4, <4>1, <4>2 DEF AlAlcance
    <3>2. QED
        BY <1>2, <2>1, <3>1 DEF GuardarReporte
  <2>2. CASE q.tipo = "correoFallido"
      BY <1>2, <2>2 DEF GuardarReporte
  <2>3. QED
      BY <1>2, <2>1, <2>2
<1>6. QED
    BY <1>4, <1>5
(* Every sample has an approved report within reach of the client. *)
TodoAlAlcance ==
    \A m \in Muestras : \E x \in InformesDe({m}) : x \in aprobados /\ AlAlcance(x)

(* A request that leaves the reports alone brings none within reach, unless
   it is one that has just been read. *)
LEMMA AlcanceNoCrece ==
    ASSUME UNCHANGED <<visibles, aprobados, correos>>, NEW p \in Peticiones,
           \A o \in Peticiones \ {p} : peticion'[o] = peticion[o],
           \A x : Restituye(peticion'[p], x) => x \in visibles,
           TodoAlAlcance'
    PROVE  TodoAlAlcance
<1>1. ASSUME NEW x, AlAlcance(x)'
      PROVE  AlAlcance(x)
  <2>1. ASSUME NEW o \in Peticiones, Restituye(peticion'[o], x)
        PROVE  AlAlcance(x)
    <3>1. CASE o = p
        BY <2>1, <3>1 DEF AlAlcance
    <3>2. CASE o # p
        BY <2>1, <3>2 DEF AlAlcance
    <3>3. QED
        BY <3>1, <3>2
  <2>2. QED
      BY <1>1, <2>1 DEF AlAlcance
<1>2. \A m : InformesDe({m})' = InformesDe({m})
    BY DEF InformesDe, Versiones
<1>3. QED
    BY <1>1, <1>2 DEF TodoAlAlcance

(* A step that leaves the reports alone. *)
LEMMA SinTocarInformes ==
    ASSUME NadaRetirado, UNCHANGED <<activas, varsInforme>>
    PROVE  /\ activas' = Muestras
           /\ \A x \in Informes : estatus'[x] # "anulado"
           /\ correos' \subseteq enviados'
           /\ visibles' \cup correos' \subseteq aprobados'
           /\ \A m : Entregada(m)' <=> Entregada(m)
<1>1. \A m : InformesDe({m})' = InformesDe({m})
    BY DEF InformesDe, Versiones
<1>2. \A x : Entregado(x)' <=> Entregado(x)
    BY DEF Entregado, varsInforme
<1>3. \A m : Entregada(m)' <=> Entregada(m)
    BY <1>1, <1>2 DEF Entregada, varsInforme
<1>4. QED
    BY <1>3 DEF NadaRetirado, varsInforme

(* What is known of a request stays known while the reports only gain and
   the batch stays as it is, or closes. *)
LEMMA ConcedidoSigue ==
    ASSUME NEW q, Concedido(q), aprobados \subseteq aprobados',
           visibles \cup enviados \subseteq visibles' \cup enviados',
           estado = "reportado" => estado' = "reportado"
    PROVE  Concedido(q)'
BY DEF Concedido

(* Nothing is lost of what is known of the requests when one of them moves to
   a copy of which it is known too. *)
LEMMA ConcedidasSiguen ==
    ASSUME NadaRetirado, NEW p \in Peticiones,
           \A o \in Peticiones \ {p} : peticion'[o] = peticion[o],
           peticion'[p] # Libre => Concedido(peticion'[p]),
           aprobados \subseteq aprobados',
           visibles \cup enviados \subseteq visibles' \cup enviados',
           estado = "reportado" => estado' = "reportado"
    PROVE  \A o \in Peticiones : peticion'[o] # Libre => Concedido(peticion[o])'
<1> SUFFICES ASSUME NEW o \in Peticiones, peticion'[o] # Libre
             PROVE  Concedido(peticion[o])'
    OBVIOUS
<1>1. Concedido(peticion'[o])
  <2>1. CASE o = p
      BY <2>1
  <2>2. CASE o # p
      BY <2>2 DEF NadaRetirado
  <2>3. QED
      BY <2>1, <2>2
<1>2. PICK w : w = peticion'[o]
    OBVIOUS
<1>3. Concedido(w)'
    BY <1>1, <1>2, ConcedidoSigue
<1>4. QED
    BY <1>2, <1>3 DEF Concedido

(* A report is read: nothing is known of the request that it does not meet. *)
LEMMA LeerSinRetirar ==
    ASSUME Compartido, NadaRetirado, SinRetiradas, NEW p \in Peticiones, Leer(p),
           modo = "juntas", Admitida(p)
    PROVE  NadaRetirado'
<1> DEFINE q == peticion'[p]
<1>1. /\ \A o \in Peticiones \ {p} : peticion'[o] = peticion[o]
      /\ q \in EnCurso /\ q.paso = "guardar" /\ Admitido(q.tipo, q.x)
      /\ q.estatus = estatus[q.x] /\ q.visible = (q.x \in visibles) /\ q.estado = estado
    BY AlLeer
<1>2. UNCHANGED <<estado, activas, varsInforme>> /\ peticion[p] = Libre
    BY DEF Leer, vars, varsLote, varsMuestra
<1>3. q # Libre /\ q.x \in Informes
    BY <1>1, Ocupada DEF EnCurso
<1>4. q.tipo \in Concurrentes
    BY <1>3 DEF Admitida
<1> HIDE DEF q
<1>5. q.tipo # "aprobar" => q.x \in aprobados
    BY <1>1, <1>4 DEF Admitido, Liberable, SinRetiradas
<1>6. Concedido(q)
    BY <1>1, <1>3, <1>4, <1>5 DEF Concedido, NadaRetirado
<1>7. \A o \in Peticiones : peticion'[o] # Libre => Concedido(peticion[o])'
    BY <1>1, <1>2, <1>6, ConcedidasSiguen DEF q, varsInforme
<1>8. (estado' = "reportado" \/ \E o \in Peticiones : peticion'[o].paso = "guardarLote") =>
          \A m \in Muestras : Entregada(m)'
    BY <1>1, <1>2, SinTocarInformes DEF NadaRetirado, q
<1>9. ASSUME TodoAlAlcance'
      PROVE  estado' = "reportado" \/ \E o \in Peticiones : EnCamino(peticion'[o])
  <2>1. \A x : Restituye(q, x) => x \in visibles
      BY <1>1 DEF Restituye
  <2>2. TodoAlAlcance
      BY <1>1, <1>2, <1>9, <2>1, AlcanceNoCrece DEF q, varsInforme
  <2>3. \A o \in Peticiones : EnCamino(peticion[o]) => o # p
      BY <1>2 DEF EnCamino, Libre
  <2>4. QED
      BY <1>1, <1>2, <2>2, <2>3 DEF NadaRetirado, TodoAlAlcance
<1>10. QED
    BY <1>2, <1>7, <1>8, <1>9, SinTocarInformes DEF NadaRetirado, TodoAlAlcance

(* A report is saved: what it brings within reach is counted after it. *)
LEMMA GuardarSinRetirar ==
    ASSUME Compartido, NadaRetirado, SinRetiradas, NEW p \in Peticiones, Guardar(p)
    PROVE  NadaRetirado'
<1>1. /\ \A o \in Peticiones \ {p} : peticion'[o] = peticion[o]
      /\ peticion[p] \in EnCurso /\ peticion[p].paso = "guardar"
      /\ ~Cuenta(peticion[p].tipo) => peticion'[p] = Libre
      /\ Cuenta(peticion[p].tipo) => peticion'[p] = [peticion[p] EXCEPT !.paso = "contar"]
    BY AlGuardar
<1>2. Concedido(peticion[p])
    BY <1>1, Ocupada DEF NadaRetirado
<1>3. peticion'[p] # Libre =>
          /\ peticion'[p].paso = "contar" /\ peticion'[p].tipo = peticion[p].tipo
          /\ peticion'[p].estado = peticion[p].estado
    BY <1>1 DEF EnCurso
<1>4. peticion'[p] # Libre => Concedido(peticion'[p])
    BY <1>2, <1>3 DEF Concedido
<1>5. \A o \in Peticiones : peticion'[o] # Libre => Concedido(peticion[o])'
    BY <1>1, <1>4, GuardaSinRetirar, ConcedidasSiguen
<1>6. (estado' = "reportado" \/ \E o \in Peticiones : peticion'[o].paso = "guardarLote") =>
          \A m \in Muestras : Entregada(m)'
  <2>1. peticion'[p].paso # "guardarLote"
      BY <1>1, <1>3 DEF Libre
  <2>2. QED
      BY <1>1, <2>1, GuardaSinRetirar DEF NadaRetirado
<1>7. ASSUME TodoAlAlcance'
      PROVE  estado' = "reportado" \/ \E o \in Peticiones : EnCamino(peticion'[o])
  <2>1. CASE Cuenta(peticion[p].tipo)
    <3>1. EnCamino(peticion'[p]) \/ estado = "reportado"
        BY <1>1, <1>2, <2>1 DEF EnCurso, EnCamino, Concedido
    <3>2. QED
        BY <3>1, GuardaSinRetirar
  <2>2. CASE ~Cuenta(peticion[p].tipo)
    <3>1. \A m : InformesDe({m})' = InformesDe({m})
        BY DEF InformesDe, Versiones
    <3>2. TodoAlAlcance
        BY <1>7, <2>2, <3>1, SoloLoContadoAlcanza DEF TodoAlAlcance
    <3>3. \A o \in Peticiones : EnCamino(peticion[o]) => o # p
        BY <1>1 DEF EnCamino
    <3>4. QED
        BY <1>1, <3>2, <3>3, GuardaSinRetirar DEF NadaRetirado, TodoAlAlcance
  <2>3. QED
      BY <2>1, <2>2
<1>8. QED
    BY <1>5, <1>6, <1>7, GuardaSinRetirar DEF NadaRetirado, TodoAlAlcance

(* The delivered samples are counted and compared with the total. *)
LEMMA ContarSinRetirar ==
    ASSUME Compartido, NadaRetirado, IsFiniteSet(Muestras), Muestras # {},
           NEW p \in Peticiones, Contar(p) \/ Decidir(p)
    PROVE  NadaRetirado'
<1>1. UNCHANGED vars /\ peticion[p].paso \in {"contar", "decidir"} /\ peticion[p] \in EnCurso
    BY SigueEnCurso DEF Contar, Decidir
<1>2. UNCHANGED <<estado, activas, varsInforme>>
    BY <1>1 DEF vars, varsLote, varsMuestra
<1>3. Concedido(peticion[p])
    BY <1>1, Ocupada DEF NadaRetirado
<1>4. /\ \A o \in Peticiones \ {p} : peticion'[o] = peticion[o]
      /\ peticion'[p] # Libre =>
            /\ peticion'[p].paso \in {"decidir", "guardarLote"}
            /\ peticion'[p].tipo = peticion[p].tipo
            /\ peticion'[p].estado = peticion[p].estado
            /\ peticion'[p].paso = "decidir" => peticion'[p].total = Cardinality(Muestras)
            /\ peticion'[p].paso = "guardarLote" =>
                  /\ peticion'[p].destino = "reportado"
                  /\ \A m \in Muestras : Entregada(m)
      /\ peticion'[p] = Libre =>
            estado = "reportado" \/ ~(\A m \in Muestras : Entregada(m))
  <2>1. CASE Contar(p)
    <3>1. /\ \A o \in Peticiones \ {p} : peticion'[o] = peticion[o]
          /\ peticion'[p] = [peticion[p] EXCEPT !.paso = "decidir", !.total = Cardinality(activas)]
        BY <2>1, AlContar
    <3>2. /\ peticion'[p].paso = "decidir" /\ peticion'[p].total = Cardinality(Muestras)
          /\ peticion'[p].tipo = peticion[p].tipo /\ peticion'[p].estado = peticion[p].estado
        BY <1>1, <3>1 DEF EnCurso, NadaRetirado
    <3>3. QED
        BY <3>1, <3>2, Ocupada
  <2>2. CASE Decidir(p)
    <3>1. peticion[p].total = Cardinality(Muestras)
        BY <1>3, <2>2 DEF Decidir, Concedido
    <3>2. TodasEntregadas(peticion[p]) <=> \A m \in Muestras : Entregada(m)
        BY <3>1, CuentaCompleta
    <3>3. peticion[p].estado = "reportado" => estado = "reportado"
        BY <1>3 DEF Concedido
    <3>4. estado = "reportado" => \A m \in Muestras : Entregada(m)
        BY DEF NadaRetirado
    <3>5. \/ Destinar(p, "reportado") /\ \A m \in Muestras : Entregada(m)
          \/ Avanzar(p, "libre") /\ (estado = "reportado" \/ ~(\A m \in Muestras : Entregada(m)))
        BY <2>2, <3>2, <3>3, <3>4 DEF Decidir
    <3>6. CASE Destinar(p, "reportado") /\ \A m \in Muestras : Entregada(m)
      <4>1. "reportado" \in EstadosLote
          BY DEF EstadosLote
      <4>2. /\ \A o \in Peticiones \ {p} : peticion'[o] = peticion[o]
            /\ peticion'[p] = [peticion[p] EXCEPT !.paso = "guardarLote", !.destino = "reportado"]
          BY <1>1, <3>6, <4>1, AlDestinar
      <4>3. /\ peticion'[p].paso = "guardarLote" /\ peticion'[p].destino = "reportado"
            /\ peticion'[p].tipo = peticion[p].tipo /\ peticion'[p].estado = peticion[p].estado
          BY <1>1, <4>2 DEF EnCurso
      <4>4. QED
          BY <3>6, <4>2, <4>3, Ocupada
    <3>7. CASE Avanzar(p, "libre") /\ (estado = "reportado" \/ ~(\A m \in Muestras : Entregada(m)))
      <4>1. /\ \A o \in Peticiones \ {p} : peticion'[o] = peticion[o]
            /\ peticion'[p] = Libre
          BY <1>1, <3>7, AlAvanzar
      <4>2. QED
          BY <3>7, <4>1
    <3>8. QED
        BY <3>5, <3>6, <3>7
  <2>3. QED
      BY <2>1, <2>2
<1>5. peticion'[p] # Libre => Concedido(peticion'[p])
    BY <1>3, <1>4 DEF Concedido
<1>6. \A o \in Peticiones : peticion'[o] # Libre => Concedido(peticion[o])'
    BY <1>2, <1>4, <1>5, ConcedidasSiguen DEF varsInforme
<1>7. (estado' = "reportado" \/ \E o \in Peticiones : peticion'[o].paso = "guardarLote") =>
          \A m \in Muestras : Entregada(m)'
  <2>1. peticion'[p].paso = "guardarLote" => \A m \in Muestras : Entregada(m)
      BY <1>4, Ocupada
  <2>2. QED
      BY <1>2, <1>4, <2>1, SinTocarInformes DEF NadaRetirado
<1>8. ASSUME TodoAlAlcance'
      PROVE  estado' = "reportado" \/ \E o \in Peticiones : EnCamino(peticion'[o])
  <2>1. \A x : ~Restituye(peticion'[p], x)
      BY <1>4 DEF Restituye, Libre
  <2>2. TodoAlAlcance
      BY <1>2, <1>4, <1>8, <2>1, AlcanceNoCrece DEF varsInforme
  <2>3. \A m \in Muestras : Entregada(m)
      BY <2>2, AlcanzadaEntregada DEF TodoAlAlcance
  <2>4. EnCamino(peticion[p]) => EnCamino(peticion'[p]) \/ estado = "reportado"
      BY <1>4, <2>3 DEF EnCamino
  <2>5. QED
      BY <1>2, <1>4, <2>2, <2>4 DEF NadaRetirado, TodoAlAlcance
<1>9. QED
    BY <1>2, <1>6, <1>7, <1>8, SinTocarInformes DEF NadaRetirado, TodoAlAlcance

(* The batch is saved, and closed. *)
LEMMA CerrarSinRetirar ==
    ASSUME Compartido, NadaRetirado, NEW p \in Peticiones, GuardarLote(p)
    PROVE  NadaRetirado'
<1>1. UNCHANGED <<activas, varsInforme>> /\ peticion[p].paso = "guardarLote"
    BY DEF GuardarLote, varsMuestra
<1>2. peticion[p] \in EnCurso /\ Concedido(peticion[p])
    BY <1>1, SigueEnCurso, Ocupada DEF NadaRetirado
<1>3. estado' = "reportado"
    BY <1>1, <1>2 DEF GuardarLote, Concedido
<1>4. /\ \A o \in Peticiones \ {p} : peticion'[o] = peticion[o]
      /\ peticion'[p] = Libre
    BY <1>2, AlAvanzar DEF GuardarLote
<1>5. \A o \in Peticiones : peticion'[o] # Libre => Concedido(peticion[o])'
    BY <1>1, <1>3, <1>4, ConcedidasSiguen DEF varsInforme
<1>6. \A m \in Muestras : Entregada(m)'
    BY <1>1, SinTocarInformes DEF NadaRetirado
<1>7. QED
    BY <1>1, <1>3, <1>5, <1>6, SinTocarInformes DEF NadaRetirado

(* The last two deliveries of a batch close it, however many requests
   approve, publish and send its reports at the same time and whatever each
   of them read: the one that saves last counts what the others delivered. *)
THEOREM CierreSiempreAlcanzado ==
    ASSUME IsFiniteSet(Muestras), Muestras # {}, SinRetiradas
    PROVE  SpecModos => []CierreAlcanzado
<1>1. InitModos => InvJuntas
  <2> SUFFICES ASSUME InitModos PROVE InvJuntas
      OBVIOUS
  <2> USE DEF InitModos, InitConcurrente, ReportesGenerados
  <2>1. Compartido
      BY DEF Compartido, EstadosInforme, EstadosLote
  <2>2. \A p \in Peticiones : peticion[p] = Libre /\ peticion[p].paso = "libre"
      BY DEF Libre
  <2>3. ~TodoAlAlcance
      BY <2>2 DEF TodoAlAlcance, InformesDe
  <2>4. NadaRetirado
      BY <2>2, <2>3 DEF NadaRetirado, TodoAlAlcance
  <2>5. QED
      BY <2>1, <2>4 DEF InvJuntas
<1>2. InvJuntas /\ [NextModos]_<<varsConcurrentes, modo>> => InvJuntas'
  <2>1. ASSUME InvJuntas, NEW p \in Peticiones, Turno(p), Admitida(p), modo' = modo
        PROVE  InvJuntas'
      BY <2>1, CompartidoSigue, LeerSinRetirar, GuardarSinRetirar, ContarSinRetirar,
         CerrarSinRetirar DEF InvJuntas, Turno
  <2>2. CASE UNCHANGED <<varsConcurrentes, modo>>
      BY <2>2 DEF InvJuntas, Compartido, NadaRetirado, Concedido, EnCamino, AlAlcance, Entregada,
                  Entregado, InformesDe, Versiones, varsConcurrentes, vars, varsLote, varsMuestra,
                  varsInforme
  <2>3. QED
      BY <2>1, <2>2 DEF NextModos
<1>3. InvJuntas => CierreAlcanzado
  <2> SUFFICES ASSUME InvJuntas, modo = "juntas", EnReposo, \A m \in activas : EntregadaDeVerdad(m)
               PROVE  estado = "reportado"
      BY DEF CierreAlcanzado
  <2>1. TodoAlAlcance
      BY DEF TodoAlAlcance, EntregadaDeVerdad, AlAlcance, InvJuntas, NadaRetirado
  <2>2. \A p \in Peticiones : ~EnCamino(peticion[p])
      BY DEF EnReposo, EnCamino, Libre
  <2>3. QED
      BY <2>1, <2>2 DEF InvJuntas, NadaRetirado, TodoAlAlcance
<1>4. QED
    BY <1>1, <1>2, <1>3, PTL DEF SpecModos

-----------------------------------------------------------------------------
(* Requests that do not overlap.                                           *)

(* While a request is alone nothing changes what it read, nor what it
   counted. *)
Vigente(q) ==
    /\ q.paso = "guardar" =>
          /\ Admitido(q.tipo, q.x)
          /\ q.estatus = estatus[q.x] /\ q.visible = (q.x \in visibles) /\ q.estado = estado
    /\ q.paso \in {"contar", "decidir"} => q.estado = estado
    /\ q.paso = "decidir" => q.total = Cardinality(activas)

DeUnaEnUna ==
    \A p \in Peticiones : peticion[p] # Libre =>
        /\ Vigente(peticion[p])
        /\ \A o \in Peticiones \ {p} : peticion[o] = Libre

InvSolas == Compartido /\ (modo = "solas" => DeUnaEnUna)

(* What a batch will be when the request that has the copy q ends. *)
AlFinal(q) ==
    CASE q.paso \in {"libre", "guardar"} -> estado
      [] q.paso = "guardarLote"          -> q.destino
      [] q.paso \in {"contar", "decidir"} ->
            IF activas # {} /\ \A m \in activas : Entregada(m) THEN "reportado"
            ELSE IF q.estado = "reportado" THEN EstadoDeMuestras ELSE estado

(* The only request in progress says how the batch will end. *)
LEMMA LaUnicaDecide ==
    ASSUME NEW p \in Peticiones, \A o \in Peticiones \ {p} : peticion[o] = Libre
    PROVE  EstadoAlFinal = AlFinal(peticion[p])
<1> DEFINE abiertas == {o \in Peticiones : peticion[o] # Libre}
           elegida == IF abiertas = {} THEN Libre ELSE peticion[CHOOSE o \in abiertas : TRUE]
<1>1. abiertas \subseteq {p}
    OBVIOUS
<1>2. CASE peticion[p] = Libre
  <2>1. abiertas = {}
      BY <1>1, <1>2
  <2>2. elegida = peticion[p]
      BY <1>2, <2>1
  <2>3. QED
      BY <2>2 DEF EstadoAlFinal, AlFinal
<1>3. CASE peticion[p] # Libre
  <2>1. abiertas = {p}
      BY <1>1, <1>3
  <2>2. elegida = peticion[p]
      BY <2>1
  <2>3. QED
      BY <2>2 DEF EstadoAlFinal, AlFinal
<1>4. QED
    BY <1>2, <1>3
(* The same after a step. *)
LEMMA LaUnicaDecidira ==
    ASSUME NEW p \in Peticiones, \A o \in Peticiones \ {p} : peticion'[o] = Libre
    PROVE  EstadoAlFinal' = AlFinal(peticion[p])'
<1> DEFINE abiertas == {o \in Peticiones : peticion'[o] # Libre}
           elegida == IF abiertas = {} THEN Libre ELSE peticion'[CHOOSE o \in abiertas : TRUE]
<1>1. abiertas \subseteq {p}
    OBVIOUS
<1>2. CASE peticion'[p] = Libre
  <2>1. abiertas = {}
      BY <1>1, <1>2
  <2>2. elegida = peticion'[p]
      BY <1>2, <2>1
  <2>3. QED
      BY <2>2 DEF EstadoAlFinal, AlFinal, Libre
<1>3. CASE peticion'[p] # Libre
  <2>1. abiertas = {p}
      BY <1>1, <1>3
  <2>2. elegida = peticion'[p]
      BY <2>1
  <2>3. QED
      BY <2>2 DEF EstadoAlFinal, AlFinal, Libre
<1>4. QED
    BY <1>2, <1>3

(* What the atomic laboratory asks of a batch does not depend on its state. *)
LEMMA MismasMuestras ==
    /\ Atomico!EstadoDeMuestras = EstadoDeMuestras
    /\ \A m : Atomico!Entregada(m)' <=> Entregada(m)'
    /\ Atomico!Informes = Informes
BY DEF Atomico!EstadoDeMuestras, EstadoDeMuestras, Atomico!Entregada, Entregada,
       Atomico!Entregado, Entregado, Atomico!InformesDe, InformesDe, Atomico!Versiones,
       Versiones, Atomico!Informes, Informes

(* The other requests wait for the only one in progress. *)
LEMMA EsperanLasDemas ==
    ASSUME Compartido, DeUnaEnUna, modo = "solas", NEW p \in Peticiones, Admitida(p),
           \A o \in Peticiones \ {p} : peticion'[o] = peticion[o],
           peticion'[p] # Libre => Vigente(peticion[p])'
    PROVE  /\ DeUnaEnUna'
           /\ EstadoAlFinal = AlFinal(peticion[p])
           /\ EstadoAlFinal' = AlFinal(peticion[p])'
<1>1. \A o \in Peticiones \ {p} : peticion[o] = Libre /\ peticion'[o] = Libre
    BY DEF Admitida
<1>2. DeUnaEnUna'
    BY <1>1 DEF DeUnaEnUna
<1>3. QED
    BY <1>1, <1>2, LaUnicaDecide, LaUnicaDecidira

LEMMA LeerSola ==
    ASSUME Compartido, DeUnaEnUna, modo = "solas", NEW p \in Peticiones, Leer(p), Admitida(p)
    PROVE  DeUnaEnUna' /\ UNCHANGED varsAtomicas
<1>1. /\ \A o \in Peticiones \ {p} : peticion'[o] = peticion[o]
      /\ peticion'[p].paso = "guardar"
      /\ Admitido(peticion'[p].tipo, peticion'[p].x)
      /\ peticion'[p].estatus = estatus[peticion'[p].x]
      /\ peticion'[p].visible = (peticion'[p].x \in visibles)
      /\ peticion'[p].estado = estado
    BY AlLeer
<1>2. UNCHANGED vars /\ peticion[p] = Libre
    BY DEF Leer
<1>3. PICK q : q = peticion'[p]
    OBVIOUS
<1>4. Admitido(q.tipo, q.x)'
    BY <1>1, <1>2, <1>3
       DEF Admitido, Liberable, Anulable, vars, varsInforme, varsMuestra
<1>5. Vigente(peticion[p])'
    BY <1>1, <1>2, <1>3, <1>4 DEF Vigente, vars, varsLote, varsInforme, Admitido
<1>6. DeUnaEnUna' /\ EstadoAlFinal = AlFinal(peticion[p]) /\ EstadoAlFinal' = AlFinal(peticion[p])'
    BY <1>1, <1>5, EsperanLasDemas
<1>7. EstadoAlFinal' = EstadoAlFinal
    BY <1>1, <1>2, <1>6 DEF AlFinal, Libre, vars, varsLote
<1>8. QED
    BY <1>2, <1>6, <1>7
       DEF varsAtomicas, Atomico!vars, Atomico!varsLote, Atomico!varsMuestra,
           Atomico!varsInterpretacion, Atomico!varsEnsayo, Atomico!varsInforme,
           vars, varsLote, varsMuestra, varsInterpretacion, varsEnsayo, varsInforme
(* A request that ends with its save. *)
LEMMA GuardarSinContar ==
    ASSUME Compartido, NEW q \in EnCurso, Vigente(q), q.paso = "guardar", ~Cuenta(q.tipo),
           GuardarReporte(q) \/ (q.tipo = "invalidar" /\ Invalidar(q.x[1])),
           UNCHANGED <<varsInterpretacion, varsEnsayo>>,
           EstadoAlFinal = estado, EstadoAlFinal' = estado'
    PROVE  PasoAtomico
<1>1. /\ q.x \in Informes /\ q.x \in Atomico!Informes /\ q.x[1] \in Muestras
      /\ q.tipo \in {"aprobar", "correoFallido", "anular", "invalidar"}
    BY MismasMuestras DEF EnCurso, TiposDeReporte, Cuenta, Informes
<1>2. /\ Admitido(q.tipo, q.x)
      /\ q.estatus = estatus[q.x] /\ q.visible = (q.x \in visibles)
    BY DEF Vigente
<1>3. CASE q.tipo = "aprobar"
  <2>1. Atomico!Aprobar(q.x)
      BY <1>2, <1>3
         DEF Admitido, GuardarReporte, Escribir, Cambiar, Atomico!Aprobar, Atomico!Cambiar,
             Atomico!varsLote, Atomico!varsMuestra, Atomico!varsInterpretacion,
             Atomico!varsEnsayo, varsLote, varsMuestra, varsInterpretacion, varsEnsayo
  <2>2. QED
      BY <1>1, <2>1 DEF PasoAtomico, Atomico!Next, Atomico!Entregar
<1>4. CASE q.tipo = "correoFallido"
  <2>1. estatus' = estatus /\ visibles' = visibles
      BY <1>1, <1>2, <1>4 DEF GuardarReporte, Escribir, Cambiar, Compartido
  <2>2. Atomico!FallarCorreo(q.x)
      BY <1>2, <1>4, <2>1
         DEF Admitido, Liberable, GuardarReporte, Escribir, Atomico!FallarCorreo,
             Atomico!Liberable, Atomico!varsLote, Atomico!varsMuestra,
             Atomico!varsInterpretacion, Atomico!varsEnsayo, varsLote, varsMuestra,
             varsInterpretacion, varsEnsayo
  <2>3. QED
      BY <1>1, <2>2 DEF PasoAtomico, Atomico!Next, Atomico!Entregar
<1>5. CASE q.tipo = "anular"
  <2>1. Atomico!Anular(q.x)
      BY <1>2, <1>5
         DEF Admitido, Anulable, GuardarReporte, Escribir, Cambiar, Atomico!Anular,
             Atomico!Anulable, Atomico!Cambiar, Atomico!varsLote, Atomico!varsMuestra,
             Atomico!varsInterpretacion, Atomico!varsEnsayo, varsLote, varsMuestra,
             varsInterpretacion, varsEnsayo
  <2>2. QED
      BY <1>1, <2>1 DEF PasoAtomico, Atomico!Next, Atomico!Entregar
<1>6. CASE q.tipo = "invalidar"
  <2>1. q.x[1] \in activas /\ Invalidar(q.x[1])
      BY <1>2, <1>6 DEF Admitido, GuardarReporte
  <2>2. Atomico!AnularInformesDe(q.x[1])
      BY <2>1 DEF Invalidar, AnularInformesDe, Atomico!AnularInformesDe, Informes, InformesDe,
                  Versiones, Atomico!Informes, Atomico!InformesDe, Atomico!Versiones
  <2>3. Atomico!Recalcular
      BY <2>1 DEF Invalidar, Recalcular, Atomico!Recalcular, EstadoDeMuestras,
                  Atomico!EstadoDeMuestras
  <2>4. Atomico!InvalidarMuestra(q.x[1])
      BY <2>1, <2>2, <2>3
         DEF Invalidar, Atomico!InvalidarMuestra, Atomico!varsInterpretacion,
             Atomico!varsEnsayo, varsInterpretacion, varsEnsayo
  <2>5. QED
      BY <1>1, <2>4 DEF PasoAtomico, Atomico!Next, Atomico!Recibir
<1>7. QED
    BY <1>1, <1>3, <1>4, <1>5, <1>6

(* A request whose save is followed by the count: what the batch will be is
   what the atomic action gives it. *)
LEMMA GuardarYContar ==
    ASSUME Compartido, NEW q \in EnCurso, Vigente(q), q.paso = "guardar", Cuenta(q.tipo),
           GuardarReporte(q), UNCHANGED <<varsInterpretacion, varsEnsayo>>,
           EstadoAlFinal = estado,
           EstadoAlFinal' =
               IF activas' # {} /\ \A m \in activas' : Entregada(m)' THEN "reportado"
               ELSE IF estado = "reportado" THEN EstadoDeMuestras' ELSE estado'
    PROVE  PasoAtomico
<1>1. q.x \in Informes /\ q.x \in Atomico!Informes
    BY MismasMuestras DEF EnCurso
<1>2. Admitido(q.tipo, q.x) /\ q.tipo \in {"publicar", "ocultar", "correo"}
    BY DEF Vigente, Cuenta
<1>3. UNCHANGED <<varsLote, varsMuestra>>
    BY <1>2 DEF GuardarReporte, Escribir
<1>4. EstadoDeMuestras' = EstadoDeMuestras
    BY <1>3 DEF EstadoDeMuestras, varsMuestra
<1>5. Atomico!MarcarReportado
    BY <1>3, <1>4, MismasMuestras DEF Atomico!MarcarReportado, varsLote, varsMuestra
<1> USE DEF Admitido, Liberable, GuardarReporte, Atomico!Liberable, Atomico!varsMuestra,
            Atomico!varsInterpretacion, Atomico!varsEnsayo, varsLote, varsMuestra,
            varsInterpretacion, varsEnsayo
<1>6. CASE q.tipo = "publicar"
  <2>1. Atomico!Publicar(q.x)
      BY <1>2, <1>5, <1>6 DEF Atomico!Publicar
  <2>2. QED
      BY <1>1, <2>1 DEF PasoAtomico, Atomico!Next, Atomico!Entregar
<1>7. CASE q.tipo = "ocultar"
  <2>1. Atomico!Ocultar(q.x)
      BY <1>2, <1>5, <1>7 DEF Atomico!Ocultar
  <2>2. QED
      BY <1>1, <2>1 DEF PasoAtomico, Atomico!Next, Atomico!Entregar
<1>8. CASE q.tipo = "correo"
  <2>1. estatus' = [y \in Atomico!Informes |-> IF y \in {q.x} THEN "enviado" ELSE estatus[y]]
      BY <1>1, <1>8, MismasMuestras DEF Escribir, Cambiar, Compartido
  <2>2. /\ visibles' = visibles \cup {q.x} /\ enviados' = enviados \cup {q.x}
        /\ correos' = correos \cup {q.x} /\ aprobados' = aprobados
      BY <1>8
  <2>3. Atomico!Despachar({q.x})
      BY <1>3, <1>5, <2>1, <2>2 DEF Atomico!Despachar
  <2>4. Atomico!EnviarCorreo(q.x)
      BY <1>2, <1>8, <2>3 DEF Atomico!EnviarCorreo
  <2>5. QED
      BY <1>1, <2>4 DEF PasoAtomico, Atomico!Next, Atomico!Entregar
<1>9. QED
    BY <1>2, <1>6, <1>7, <1>8

(* The save of the report is the whole atomic request, as the client and the
   batch will know it. *)
LEMMA GuardarSola ==
    ASSUME Compartido, DeUnaEnUna, modo = "solas", NEW p \in Peticiones, Guardar(p), Admitida(p)
    PROVE  DeUnaEnUna' /\ PasoAtomico
<1>1. /\ \A o \in Peticiones \ {p} : peticion'[o] = peticion[o]
      /\ peticion[p] \in EnCurso /\ peticion[p].paso = "guardar"
      /\ ~Cuenta(peticion[p].tipo) => peticion'[p] = Libre
      /\ Cuenta(peticion[p].tipo) => peticion'[p] = [peticion[p] EXCEPT !.paso = "contar"]
    BY AlGuardar
<1>2. Vigente(peticion[p]) /\ peticion[p].estado = estado
    BY <1>1, Ocupada DEF DeUnaEnUna, Vigente
<1>3. /\ GuardarReporte(peticion[p])
         \/ (peticion[p].tipo = "invalidar" /\ Invalidar(peticion[p].x[1]))
      /\ UNCHANGED <<varsInterpretacion, varsEnsayo>>
    BY DEF Guardar
<1>4. CASE Cuenta(peticion[p].tipo)
  <2>1. GuardarReporte(peticion[p])
      BY <1>3, <1>4 DEF Cuenta
  <2>2. UNCHANGED <<varsLote, varsMuestra>>
      BY <1>4, <2>1 DEF Cuenta, GuardarReporte, Escribir
  <2>3. peticion'[p].paso = "contar" /\ peticion'[p].estado = estado
      BY <1>1, <1>2, <1>4 DEF EnCurso
  <2>4. Vigente(peticion[p])'
      BY <2>2, <2>3 DEF Vigente, varsLote
  <2>5. /\ DeUnaEnUna'
        /\ EstadoAlFinal = AlFinal(peticion[p]) /\ EstadoAlFinal' = AlFinal(peticion[p])'
      BY <1>1, <2>4, EsperanLasDemas
  <2>6. EstadoAlFinal = estado
      BY <1>1, <2>5 DEF AlFinal
  <2>7. EstadoAlFinal' =
            IF activas' # {} /\ \A m \in activas' : Entregada(m)' THEN "reportado"
            ELSE IF estado = "reportado" THEN EstadoDeMuestras' ELSE estado'
      BY <2>3, <2>5 DEF AlFinal
  <2>8. QED
      BY <1>1, <1>2, <1>3, <1>4, <2>1, <2>5, <2>6, <2>7, GuardarYContar
<1>5. CASE ~Cuenta(peticion[p].tipo)
  <2>1. /\ DeUnaEnUna'
        /\ EstadoAlFinal = AlFinal(peticion[p]) /\ EstadoAlFinal' = AlFinal(peticion[p])'
      BY <1>1, <1>5, EsperanLasDemas
  <2>2. EstadoAlFinal = estado /\ EstadoAlFinal' = estado'
      BY <1>1, <1>5, <2>1 DEF AlFinal, Libre
  <2>3. QED
      BY <1>1, <1>2, <1>3, <1>5, <2>1, <2>2, GuardarSinContar
<1>6. QED
    BY <1>4, <1>5

(* Nothing shows of the count, the comparison and the save of the batch. *)
LEMMA ContarSola ==
    ASSUME Compartido, DeUnaEnUna, modo = "solas", IsFiniteSet(Muestras),
           NEW p \in Peticiones, Contar(p), Admitida(p)
    PROVE  DeUnaEnUna' /\ EstadoAlFinal' = EstadoAlFinal
<1>1. /\ peticion[p] \in EnCurso
      /\ \A o \in Peticiones \ {p} : peticion'[o] = peticion[o]
      /\ peticion'[p] = [peticion[p] EXCEPT !.paso = "decidir", !.total = Cardinality(activas)]
    BY AlContar
<1>2. UNCHANGED vars /\ peticion[p].paso = "contar"
    BY DEF Contar
<1>3. peticion[p].estado = estado
    BY <1>2, Ocupada DEF DeUnaEnUna, Vigente
<1>4. /\ peticion'[p].paso = "decidir" /\ peticion'[p].estado = estado
      /\ peticion'[p].total = Cardinality(activas)
    BY <1>1, <1>3 DEF EnCurso
<1>5. UNCHANGED <<estado, activas, varsMuestra, varsInforme>>
    BY <1>2 DEF vars, varsLote, varsMuestra
<1>6. Vigente(peticion[p])'
    BY <1>4, <1>5 DEF Vigente
<1>7. /\ DeUnaEnUna'
      /\ EstadoAlFinal = AlFinal(peticion[p]) /\ EstadoAlFinal' = AlFinal(peticion[p])'
    BY <1>1, <1>6, EsperanLasDemas
<1>8. \A m : Entregada(m)' <=> Entregada(m)
    BY <1>5 DEF Entregada, Entregado, InformesDe, Versiones, varsInforme
<1>9. EstadoDeMuestras' = EstadoDeMuestras
    BY <1>5 DEF EstadoDeMuestras, varsMuestra
<1>10. QED
    BY <1>2, <1>3, <1>4, <1>5, <1>7, <1>8, <1>9 DEF AlFinal

LEMMA DecidirSola ==
    ASSUME Compartido, DeUnaEnUna, modo = "solas", IsFiniteSet(Muestras),
           NEW p \in Peticiones, Decidir(p), Admitida(p)
    PROVE  DeUnaEnUna' /\ EstadoAlFinal' = EstadoAlFinal
<1>1. UNCHANGED vars /\ peticion[p].paso = "decidir" /\ peticion[p] \in EnCurso
    BY SigueEnCurso DEF Decidir
<1>2. peticion[p].estado = estado /\ peticion[p].total = Cardinality(activas)
    BY <1>1, Ocupada DEF DeUnaEnUna, Vigente
<1>3. TodasEntregadas(peticion[p]) <=> activas # {} /\ \A m \in activas : Entregada(m)
  <2> DEFINE D == {m \in activas : Entregada(m)}
  <2>1. IsFiniteSet(activas) /\ D \subseteq activas
      BY FS_Subset DEF Compartido
  <2>2. Cardinality(D) = Cardinality(activas) <=> D = activas
      BY <2>1, FS_Subset
  <2>3. Cardinality(activas) # 0 <=> activas # {}
      BY <2>1, FS_EmptySet
  <2>4. D = activas <=> \A m \in activas : Entregada(m)
      OBVIOUS
  <2>5. QED
      BY <1>2, <2>2, <2>3, <2>4 DEF TodasEntregadas
<1>4. UNCHANGED estado
    BY <1>1 DEF vars, varsLote
<1>5. ASSUME NEW nuevo \in EstadosLote, Destinar(p, nuevo), AlFinal(peticion[p]) = nuevo
      PROVE  DeUnaEnUna' /\ EstadoAlFinal' = EstadoAlFinal
  <2>1. /\ \A o \in Peticiones \ {p} : peticion'[o] = peticion[o]
        /\ peticion'[p] = [peticion[p] EXCEPT !.paso = "guardarLote", !.destino = nuevo]
      BY <1>1, <1>5, AlDestinar
  <2>2. peticion'[p].paso = "guardarLote" /\ peticion'[p].destino = nuevo
      BY <1>1, <2>1 DEF EnCurso
  <2>3. Vigente(peticion[p])'
      BY <2>2 DEF Vigente
  <2>4. /\ DeUnaEnUna'
        /\ EstadoAlFinal = AlFinal(peticion[p]) /\ EstadoAlFinal' = AlFinal(peticion[p])'
      BY <2>1, <2>3, EsperanLasDemas
  <2>5. QED
      BY <1>5, <2>2, <2>4 DEF AlFinal
<1>6. ASSUME Avanzar(p, "libre"), AlFinal(peticion[p]) = estado
      PROVE  DeUnaEnUna' /\ EstadoAlFinal' = EstadoAlFinal
  <2>1. /\ \A o \in Peticiones \ {p} : peticion'[o] = peticion[o]
        /\ peticion'[p] = Libre
      BY <1>1, <1>6, AlAvanzar
  <2>2. /\ DeUnaEnUna'
        /\ EstadoAlFinal = AlFinal(peticion[p]) /\ EstadoAlFinal' = AlFinal(peticion[p])'
      BY <2>1, EsperanLasDemas
  <2>3. EstadoAlFinal' = estado'
      BY <2>1, <2>2 DEF AlFinal, Libre
  <2>4. QED
      BY <1>4, <1>6, <2>2, <2>3
<1>7. /\ TodasEntregadas(peticion[p]) => AlFinal(peticion[p]) = "reportado"
      /\ ~TodasEntregadas(peticion[p]) =>
            AlFinal(peticion[p]) = IF estado = "reportado" THEN EstadoDeMuestras ELSE estado
    BY <1>1, <1>2, <1>3 DEF AlFinal
<1>8. "reportado" \in EstadosLote /\ EstadoDeMuestras \in EstadosLote
    BY EstadoDerivado DEF EstadosLote
<1>9. \/ Destinar(p, "reportado") /\ TodasEntregadas(peticion[p])
      \/ Destinar(p, EstadoDeMuestras) /\ ~TodasEntregadas(peticion[p]) /\ estado = "reportado"
      \/ Avanzar(p, "libre") /\ (TodasEntregadas(peticion[p]) <=> estado = "reportado")
    BY <1>2 DEF Decidir
<1>10. QED
    BY <1>5, <1>6, <1>7, <1>8, <1>9

LEMMA CerrarSola ==
    ASSUME Compartido, DeUnaEnUna, modo = "solas", NEW p \in Peticiones, GuardarLote(p), Admitida(p)
    PROVE  DeUnaEnUna' /\ EstadoAlFinal' = EstadoAlFinal
<1>1. peticion[p] \in EnCurso /\ peticion[p].paso = "guardarLote"
    BY SigueEnCurso DEF GuardarLote
<1>2. /\ \A o \in Peticiones \ {p} : peticion'[o] = peticion[o]
      /\ peticion'[p] = Libre
    BY <1>1, AlAvanzar DEF GuardarLote
<1>3. /\ DeUnaEnUna'
      /\ EstadoAlFinal = AlFinal(peticion[p]) /\ EstadoAlFinal' = AlFinal(peticion[p])'
    BY <1>2, EsperanLasDemas
<1>4. QED
    BY <1>1, <1>2, <1>3 DEF AlFinal, GuardarLote, Libre

(* One request at a time is one action of the laboratory: the statements its
   handler is split into show as that action, at the save of the report, and
   as nothing before and after it. *)
THEOREM PeticionSiempreAtomica ==
    ASSUME IsFiniteSet(Muestras)
    PROVE  SpecModos => PeticionAtomica
<1>1. InitModos => InvSolas
    BY DEF InitModos, InitConcurrente, ReportesGenerados, InvSolas, Compartido, DeUnaEnUna,
           EstadosInforme, EstadosLote
<1>2. ASSUME InvSolas, NEW p \in Peticiones, Turno(p), Admitida(p), modo' = modo
      PROVE  InvSolas' /\ (modo = "solas" => PasoAtomico \/ UNCHANGED varsAtomicas)
  <2>1. Compartido /\ Compartido'
      BY <1>2, CompartidoSigue DEF InvSolas
  <2>2. CASE modo = "solas"
    <3>1. DeUnaEnUna
        BY <1>2, <2>2 DEF InvSolas
    <3>2. CASE Contar(p) \/ Decidir(p) \/ GuardarLote(p)
      <4>1. DeUnaEnUna' /\ EstadoAlFinal' = EstadoAlFinal
          BY <1>2, <2>1, <2>2, <3>1, <3>2, ContarSola, DecidirSola, CerrarSola
      <4>2. UNCHANGED <<ingreso, varsMuestra, varsInterpretacion, varsEnsayo, varsInforme>>
          BY <3>2 DEF Contar, Decidir, GuardarLote, vars, varsLote
      <4>3. UNCHANGED varsAtomicas
          BY <4>1, <4>2
             DEF varsAtomicas, Atomico!vars, Atomico!varsLote, Atomico!varsMuestra,
                 Atomico!varsInterpretacion, Atomico!varsEnsayo, Atomico!varsInforme,
                 varsMuestra, varsInterpretacion, varsEnsayo, varsInforme
      <4>4. QED
          BY <1>2, <2>1, <4>1, <4>3 DEF InvSolas
    <3>3. QED
        BY <1>2, <2>1, <2>2, <3>1, <3>2, LeerSola, GuardarSola DEF InvSolas, Turno
  <2>3. QED
      BY <1>2, <2>1, <2>2 DEF InvSolas
<1>3. ASSUME InvSolas, UNCHANGED <<varsConcurrentes, modo>>
      PROVE  InvSolas' /\ UNCHANGED varsAtomicas
  <2>1. UNCHANGED <<vars, peticion, modo>>
      BY <1>3 DEF varsConcurrentes
  <2>2. InvSolas'
      BY <1>3, <2>1 DEF InvSolas, Compartido, DeUnaEnUna, Vigente, Admitido, Liberable, Anulable,
                        vars, varsLote, varsMuestra, varsInforme
  <2>3. EstadoAlFinal' = EstadoAlFinal
      BY <2>1 DEF EstadoAlFinal, EstadoDeMuestras, Entregada, Entregado, InformesDe, Versiones,
                  Libre, vars, varsLote, varsMuestra, varsInforme
  <2>4. QED
      BY <2>1, <2>2, <2>3
         DEF varsAtomicas, Atomico!vars, Atomico!varsLote, Atomico!varsMuestra,
             Atomico!varsInterpretacion, Atomico!varsEnsayo, Atomico!varsInforme,
             vars, varsLote, varsMuestra, varsInterpretacion, varsEnsayo, varsInforme
<1>4. InvSolas /\ [NextModos]_<<varsConcurrentes, modo>> =>
          InvSolas' /\ [modo = "solas" => PasoAtomico]_varsAtomicas
    BY <1>2, <1>3 DEF NextModos
<1>5. QED
    BY <1>1, <1>4, PTL DEF SpecModos, PeticionAtomica
=============================================================================
