----------------------------- MODULE Documento -----------------------------
(***************************************************************************)
(* The document of a report: what reporte/api/views/index.py copies into   *)
(* the report when it is generated, and what it prints from that copy: the *)
(* verdict of every result of a test, the bands of its limits in words,    *)
(* the comments, the charts and the signature.                             *)
(*                                                                         *)
(* Who may generate, publish or annul a report is in Publicacion and       *)
(* Entrega; here every sample is reviewed and of one company.              *)
(***************************************************************************)
EXTENDS Evaluacion, Sequences, FiniteSetsExt, SequencesExt

CONSTANTS Muestras,     \* samples of a batch, numbered in the order they were taken
          Textos,       \* comments and conclusions
          Sitios,      \* places a sample is filed under: point, machine, plate
          MaxHistorial, \* bound: samples in a chart, 100 in the code
          MaxArchivos,  \* bound: signature files stored
          MaxCambios    \* bound: requests in a behaviour

VARIABLES
    medida,         \* the value of the test of a sample, NADA before any
    confirmadas,    \* samples whose test is confirmed
    criterio,       \* the limits the test is judged with now
    lugar,          \* where a sample is filed
    interpretacion, \* the interpretation saved for a sample, NADA before any
    archivos,       \* signature files stored, numbered as they came
    predeterminada, \* the default signature of the user, NADA for none
    informes,       \* rows of Reporte, as they were generated
    cambios         \* requests made so far

ASSUME MuestrasEnOrden == Muestras \subseteq Nat /\ MaxHistorial \in Nat /\ MaxHistorial > 0
ASSUME LoteFinito == IsFiniteSet(Muestras) /\ MaxArchivos \in Nat
ASSUME NadaSinArchivo == NADA \notin Nat
ASSUME HaySitios == Sitios # {}

varsDocumento == <<medida, confirmadas, criterio, lugar, interpretacion,
                   archivos, predeterminada, informes, cambios>>

varsLaboratorio == <<medida, confirmadas, criterio, lugar, interpretacion>>

-----------------------------------------------------------------------------
(* The verdict printed for a result. *)

(* _report_status; a state it does not know is worded by cumple. *)
EstadoImpreso(estado, cumple) ==
    CASE estado = "CRITICO" -> "CRITICO"
      [] estado \in {"NO_DESEADO", "FUERA_DE_LIMITE"} -> "ALERTA"
      [] estado = "NORMAL" -> "ACEPTABLE"
      [] estado \in {"NO_EVALUABLE", "SIN_INFORMACION_TECNICA"} -> "SIN_EVALUAR"
      [] estado = "SIN_LIMITE_CONFIGURADO" ->
            CASE cumple = "si" -> "ACEPTABLE" [] cumple = "no" -> "ALERTA" [] OTHER -> "PENDIENTE"

(* The label of SIN_INFORMACION_TECNICA is none of those _report_status    *)
(* knows: a test without technical information is printed as pending.      *)
EstadoDelEnsayo(es) ==
    IF Resumen(es) = "SIN_INFORMACION_TECNICA" THEN "PENDIENTE" ELSE EstadoImpreso(Resumen(es), "nada")

Peores(estados, otro) ==
    CASE "CRITICO" \in estados -> "CRITICO"
      [] "CRITICO" \notin estados /\ "ALERTA" \in estados -> "ALERTA"
      [] estados \cap {"CRITICO", "ALERTA"} = {} /\ "ACEPTABLE" \in estados -> "ACEPTABLE"
      [] OTHER -> otro

DeSusCampos(es, g) ==
    Peores({EstadoImpreso(e.estado, e.cumple) : e \in DelResultado(es, g)}, EstadoDelEnsayo(es))

(* The first outcome with the identifier or with the name of the result,   *)
(* in the order of the test.                                               *)
DesenlaceDe(es, g, orden, nombre) ==
    LET candidatos == {i \in DOMAIN orden : /\ DelResultado(es, orden[i]) # {}
                                            /\ orden[i] = g \/ nombre[orden[i]] = nombre[g]}
    IN orden[Min(candidatos)]

(* _result_structure_rows: a test without technical information carries no *)
(* outcome for each result.                                                *)
EstadoDeFila(es, g, orden, nombre) ==
    IF FaltaInformacion(es) THEN DeSusCampos(es, g)
    ELSE LET estado == Plano(DelResultado(es, DesenlaceDe(es, g, orden, nombre)))
         IN EstadoImpreso(estado, "nada")

-----------------------------------------------------------------------------
(* The bands of a rule in words, as the set of numbers each one names. *)

EnAceptable(r, n) ==
    IF r.minAceptable = NADA /\ r.maxAceptable = NADA
    THEN \E v \in r.esperado : EsNumero(v) /\ v.n = n   \* "must be" a word names no number
    ELSE /\ r.minAceptable # NADA => n >= r.minAceptable.n
         /\ r.maxAceptable # NADA => n <= r.maxAceptable.n

(* _ordered_gap *)
Hueco(desde, hasta) == IF desde = NADA \/ hasta = NADA THEN FALSE ELSE desde.n < hasta.n

EnAlertaSinTope(r, n) ==
    r.amarillo /\ \/ Hueco(r.minCritico, r.minAceptable) /\ n > r.minCritico.n /\ n < r.minAceptable.n
                  \/ Hueco(r.maxAceptable, r.maxCritico) /\ n > r.maxAceptable.n /\ n <= r.maxCritico.n

EnAlerta(r, n) ==
    r.amarillo /\ \/ Hueco(r.minCritico, r.minAceptable) /\ n >= r.minCritico.n /\ n < r.minAceptable.n
                  \/ Hueco(r.maxAceptable, r.maxCritico) /\ n > r.maxAceptable.n /\ n <= r.maxCritico.n

EnCritica(r, n) ==
    \/ r.minCritico # NADA /\ n < r.minCritico.n
    \/ r.maxCritico # NADA /\ n > r.maxCritico.n

-----------------------------------------------------------------------------
(* What a report copies. *)

(* The history of a sample: of its point, else its machine, else its plate. *)
MismaSerie(m, otra) ==
    IF lugar[m].punto # NADA THEN lugar[otra].punto = lugar[m].punto
    ELSE IF lugar[m].maquina # NADA THEN lugar[otra].maquina = lugar[m].maquina
    ELSE lugar[otra].placa = lugar[m].placa

(* The newest samples of the history, the later ones than m included. *)
Historial(m) ==
    LET serie == {otra \in Muestras : MismaSerie(m, otra)}
    IN {otra \in serie : Cardinality({x \in serie : x > otra}) < MaxHistorial}

Graficas(m) ==
    {[muestra |-> otra, valor |-> medida[otra]] :
        otra \in {x \in Historial(m) : x \in confirmadas /\ medida[x] # NADA}}

PruebasDe(m) == IF m \in confirmadas THEN {[valor |-> medida[m], criterio |-> criterio]} ELSE {}

Instantanea(m) ==
    [pruebas |-> PruebasDe(m),
     texto |-> interpretacion[m].texto,
     graficas |-> IF interpretacion[m].graficas THEN Graficas(m) ELSE {},
     lugar |-> lugar[m]]

ProximaVersion(m) == 1 + Cardinality({i \in DOMAIN informes : informes[i].muestra = m})

Fila(m, firma) == [muestra |-> m, version |-> ProximaVersion(m), copia |-> Instantanea(m), firma |-> firma]

DocumentoVivo(i) ==
    [version |-> informes[i].version,
     texto |-> informes[i].copia.texto,
     graficas |-> Graficas(informes[i].muestra),
     pruebas |-> informes[i].copia.pruebas,
     lugar |-> informes[i].copia.lugar,
     firma |-> IF informes[i].firma \in 1..archivos THEN informes[i].firma ELSE NADA]

(* The document printed for a report; a path without a file prints nothing. *)
Documento(i) ==
    [version |-> informes[i].version,
     texto |-> informes[i].copia.texto,
     graficas |-> informes[i].copia.graficas,
     pruebas |-> informes[i].copia.pruebas,
     lugar |-> informes[i].copia.lugar,
     firma |-> IF informes[i].firma \in 1..archivos THEN informes[i].firma ELSE NADA]

-----------------------------------------------------------------------------
Cambio == cambios < MaxCambios /\ cambios' = cambios + 1

GuardarArchivo == archivos < MaxArchivos /\ archivos' = archivos + 1

(* What the request signs with: a path it gives (one that is not of the    *)
(* signatures is read as none, and the default is not used), a drawing, or *)
(* the default of the user.  A drawing is stored for each report.          *)
Firmas(dibujos) ==
    \/ archivos' = archivos /\ dibujos \in {[m \in DOMAIN dibujos |-> f] : f \in {NADA, predeterminada} \cup 1..archivos}
    \/ /\ archivos + Cardinality(DOMAIN dibujos) <= MaxArchivos
       /\ archivos' = archivos + Cardinality(DOMAIN dibujos)
       /\ dibujos = [m \in DOMAIN dibujos |-> archivos + Cardinality({x \in DOMAIN dibujos : x <= m})]

Emitir(ms) ==
    /\ \A m \in ms : interpretacion[m] # NADA
    /\ \E firmas \in [ms -> {NADA} \cup 1..MaxArchivos] :
          /\ Firmas(firmas)
          /\ informes' = informes \o SetToSeq({Fila(m, firmas[m]) : m \in ms})
    /\ UNCHANGED <<varsLaboratorio, predeterminada>>

(* generate_from_interpretation *)
EmitirUno(m) == Emitir({m})

(* generate_batch_from_interpretation: all the samples or none. *)
EmitirLote == Emitir(Muestras)

(* upload_signature: a file no report names yet. *)
SubirFirma == GuardarArchivo /\ UNCHANGED <<varsLaboratorio, predeterminada, informes>>

(* A new default is a new file; the old one stays where reports find it.   *)
CambiarPredeterminada(f) ==
    /\ \/ f = NADA /\ archivos' = archivos
       \/ GuardarArchivo /\ f = archivos'
    /\ predeterminada' = f
    /\ UNCHANGED <<varsLaboratorio, informes>>

(* What goes on in the laboratory while reports are out. *)
EnLaboratorio == UNCHANGED <<archivos, predeterminada, informes>>

RegistrarResultado(m, v) ==
    /\ m \in confirmadas
    /\ medida' = [medida EXCEPT ![m] = v]
    /\ UNCHANGED <<confirmadas, criterio, lugar, interpretacion>> /\ EnLaboratorio

CambiarAsignacion(m) ==
    /\ confirmadas' = IF m \in confirmadas THEN confirmadas \ {m} ELSE confirmadas \cup {m}
    /\ UNCHANGED <<medida, criterio, lugar, interpretacion>> /\ EnLaboratorio

CambiarLimites ==
    criterio' = criterio + 1 /\ UNCHANGED <<medida, confirmadas, lugar, interpretacion>> /\ EnLaboratorio

Archivar(m, l) ==
    /\ l \in Sitios
    /\ lugar' = [lugar EXCEPT ![m] = l]
    /\ UNCHANGED <<medida, confirmadas, criterio, interpretacion>> /\ EnLaboratorio

Interpretar(m, texto, graficas) ==
    /\ interpretacion' = [interpretacion EXCEPT ![m] = [texto |-> texto, graficas |-> graficas]]
    /\ UNCHANGED <<medida, confirmadas, criterio, lugar>> /\ EnLaboratorio

-----------------------------------------------------------------------------
InitDocumento ==
    /\ medida = [m \in Muestras |-> NADA] /\ confirmadas = Muestras /\ criterio = 0
    /\ lugar = [m \in Muestras |-> CHOOSE l \in Sitios : TRUE]
    /\ interpretacion = [m \in Muestras |-> NADA]
    /\ archivos = 0 /\ predeterminada = NADA /\ informes = <<>> /\ cambios = 0

NextDocumento ==
    Cambio /\ (\/ \E m \in Muestras : EmitirUno(m)
               \/ EmitirLote
               \/ SubirFirma
               \/ \E f \in {NADA} \cup 1..MaxArchivos : CambiarPredeterminada(f)
               \/ \E m \in Muestras, v \in Numeros : RegistrarResultado(m, v)
               \/ \E m \in Muestras : CambiarAsignacion(m)
               \/ CambiarLimites
               \/ \E m \in Muestras, l \in Sitios : Archivar(m, l)
               \/ \E m \in Muestras, t \in Textos, g \in BOOLEAN : Interpretar(m, t, g))

SpecDocumento == InitDocumento /\ [][NextDocumento]_varsDocumento

-----------------------------------------------------------------------------
TiposDocumento ==
    /\ medida \in [Muestras -> Numeros \cup {NADA}] /\ confirmadas \subseteq Muestras
    /\ lugar \in [Muestras -> Sitios] /\ predeterminada \in {NADA} \cup 1..archivos
    /\ \A i \in DOMAIN informes : informes[i].muestra \in Muestras

(* A report that is out does not change: later results, limits, places,    *)
(* interpretations and signatures leave the document of every report as it *)
(* was (index.py:846-972 and :1929-2008; docs/PLAN_TRAZABILIDAD_Y_CONTROL  *)
(* .md:313).                                                               *)
DocumentoConservado ==
    [][\A i \in DOMAIN informes : Documento(i)' = Documento(i)]_varsDocumento

(* The bands a report prints agree with the verdict: a number in the       *)
(* acceptable band was judged normal, in the warning band not desired, and *)
(* everything else critical (index.py:430-494 against                      *)
(* limit_engine.py:685-737).  A rule of difference is printed as "must be" *)
(* and is left out; the form has to accept the rule.                       *)
BandasFieles ==
    regla # NADA /\ Aceptada(campo, regla) /\ campo.tipo = "numerica" /\ SoloLoSuyo(campo, regla)
    /\ OperadorDe(campo, regla) \in {"min", "max", "between", "eq"} /\ Cardinality(regla.esperado) <= 1 =>
        \A v \in Decimales :
            LET estado == Evaluar(campo, v, regla).estado
            IN /\ EnAceptable(regla, v.n) <=> estado = "NORMAL"
               /\ EnAlerta(regla, v.n) <=> estado = "NO_DESEADO"
               /\ EnCritica(regla, v.n) => estado = "CRITICO"

Escalon(impreso) ==
    CASE impreso = "CRITICO" -> 2 [] impreso = "ALERTA" -> 1 [] OTHER -> 0

(* The row of a result is never printed milder than a field of it that     *)
(* counts (index.py:1841-1888 against evaluation_rules.py:117-150), when   *)
(* no two results of the test have one name.                               *)
FilaNoMejora ==
    \A orden \in SetToSeqs(Resultados) : \A e \in Comparables(evaluaciones) :
        Escalon(EstadoImpreso(e.estado, e.cumple))
            <= Escalon(EstadoDeFila(evaluaciones, e.resultado, orden, [g \in Resultados |-> g]))

(* What a document prints of a result says what its evaluation said.       *)
ImpresoFiel == BandasFieles /\ FilaNoMejora

=============================================================================
