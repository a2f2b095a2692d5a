-------------------------- MODULE Documento_proofs --------------------------
(***************************************************************************)
(* Proofs about Evaluacion, for any numbers, thresholds and results: what  *)
(* the engine judges, what the reconciliation rewrites and what a report   *)
(* prints agree; and about Documento, for any batch and number of reports: *)
(* the document of a report that is out never changes.                     *)
(***************************************************************************)
EXTENDS Documento, FiniteSetTheorems, TLAPS

-----------------------------------------------------------------------------
(* A rule is rewritten as a rule, and the evaluations of a test are of     *)
(* those the evaluators return.                                            *)
Formadas ==
    /\ TiposEvaluacion
    /\ \A e \in evaluaciones : Posible(e)

(* The first of some places is one of them. *)
LEMMA PrimeroEsUno ==
  ASSUME NEW lugares \in SUBSET Escala, lugares # {}
  PROVE  Primero(lugares) \in lugares
  <1>1. \E j \in lugares : \A k \in lugares : j <= k
    BY HayPrimero
  <1> QED BY <1>1 DEF Primero

LEMMA ItemDe ==
  ASSUME NEW c \in Campo, NEW j \in Escala
  PROVE  /\ c.items[j] \in Item
         /\ c.items[j].llave \in Valor /\ c.items[j].etiqueta \in Valor /\ c.items[j].valor \in Valor
         /\ Normal(c.items[j].valor) = c.items[j].valor
  <1>1. c.items \in [Escala -> Item]
    BY EscalasDeItems DEF Campo
  <1> QED BY <1>1 DEF Item, Normal

(* A limit is rewritten into a limit, and one that is there stays there. *)
LEMMA ValorCanonicoTipado ==
  ASSUME NEW c \in Campo, NEW u \in Cota
  PROVE  /\ ValorCanonico(c, u) \in Cota
         /\ ValorCanonico(c, u) = NADA <=> u = NADA
         /\ u \in Valor => ValorCanonico(c, u) \in Valor
  <1> DEFINE suyos == {j \in Escala : u \in Palabras(c.items[j])}
  <1>1. CASE u = NADA \/ suyos = {}
    BY <1>1 DEF ValorCanonico
  <1>2. CASE u # NADA /\ suyos # {}
    <2>1. Primero(suyos) \in Escala
      BY <1>2, PrimeroEsUno
    <2>2. c.items[Primero(suyos)].valor \in Valor
      BY <2>1, ItemDe
    <2>3. ValorCanonico(c, u) = c.items[Primero(suyos)].valor
      BY <1>2 DEF ValorCanonico
    <2> QED BY <1>2, <2>2, <2>3, NadaAparte DEF Cota
  <1> QED BY <1>1, <1>2

(* What the values of a scale make of a rule, key by key. *)
LEMMA EnEscalaClaves ==
  ASSUME NEW c \in Campo, NEW r, EsRegla(r)
  PROVE  LET s == EnEscala(c, r)
         IN /\ EsRegla(s)
            /\ s.operador = r.operador /\ s.amarillo = r.amarillo
            /\ s.esperado = IF \E l \in r.esperado : r.esperado = {l}
                            THEN {ValorCanonico(c, l) : l \in r.esperado} ELSE r.esperado
            /\ s.minCritico = ValorCanonico(c, r.minCritico)
            /\ s.minAceptable = ValorCanonico(c, r.minAceptable)
            /\ s.maxAceptable = ValorCanonico(c, r.maxAceptable)
            /\ s.maxCritico = ValorCanonico(c, r.maxCritico)
  <1> DEFINE esperado == IF \E l \in r.esperado : r.esperado = {l}
                         THEN {ValorCanonico(c, l) : l \in r.esperado} ELSE r.esperado
  <1>1. esperado \in SUBSET Valor /\ IsFiniteSet(esperado)
    <2>1. r.esperado \in SUBSET Valor /\ IsFiniteSet(r.esperado)
      BY DEF EsRegla
    <2>2. ASSUME NEW l \in r.esperado, r.esperado = {l}
          PROVE  esperado = {ValorCanonico(c, l)} /\ ValorCanonico(c, l) \in Valor
      <3>1. l \in Valor /\ l \in Cota
        BY <2>1 DEF Cota
      <3>2. ValorCanonico(c, l) \in Valor
        BY <3>1, ValorCanonicoTipado
      <3> QED BY <2>2, <3>2
    <2>3. ASSUME NEW l \in r.esperado, r.esperado = {l} PROVE IsFiniteSet(esperado)
      BY <2>2, <2>3, FS_Singleton
    <2> HIDE DEF esperado
    <2>4. CASE \E l \in r.esperado : r.esperado = {l}
      BY <2>2, <2>3, <2>4
    <2>5. CASE ~\E l \in r.esperado : r.esperado = {l}
      BY <2>1, <2>5 DEF esperado
    <2> QED BY <2>4, <2>5
  <1>2. /\ ValorCanonico(c, r.minCritico) \in Cota /\ ValorCanonico(c, r.minAceptable) \in Cota
        /\ ValorCanonico(c, r.maxAceptable) \in Cota /\ ValorCanonico(c, r.maxCritico) \in Cota
    <2>1. {r.minCritico, r.minAceptable, r.maxAceptable, r.maxCritico} \subseteq Cota
      BY DEF EsRegla
    <2> QED BY <2>1, ValorCanonicoTipado
  <1>3. EnEscala(c, r) = [r EXCEPT !.esperado = esperado,
              !.minCritico = ValorCanonico(c, r.minCritico), !.minAceptable = ValorCanonico(c, r.minAceptable),
              !.maxAceptable = ValorCanonico(c, r.maxAceptable), !.maxCritico = ValorCanonico(c, r.maxCritico)]
    BY Zenon DEF EnEscala
  <1> HIDE DEF esperado
  <1>4. EnEscala(c, r) = [operador |-> r.operador, amarillo |-> r.amarillo, esperado |-> esperado,
                          minCritico |-> ValorCanonico(c, r.minCritico),
                          minAceptable |-> ValorCanonico(c, r.minAceptable),
                          maxAceptable |-> ValorCanonico(c, r.maxAceptable),
                          maxCritico |-> ValorCanonico(c, r.maxCritico)]
    BY <1>3 DEF EsRegla
  <1>5. r.operador \in Operadores \cup {NADA} /\ r.amarillo \in BOOLEAN
    BY DEF EsRegla
  <1>6. EsRegla(EnEscala(c, r))
    BY <1>1, <1>2, <1>4, <1>5 DEF EsRegla
  <1> QED BY <1>4, <1>6 DEF esperado

LEMMA ClavesEsRegla ==
  ASSUME NEW c \in Campo, NEW r, EsRegla(r)
  PROVE  EsRegla(ClavesPropias(c, r))
  <1>1. NADA \in Cota /\ Ilegible \in Cota /\ \A l \in Valor : l \in Cota
    BY DEF Cota
  <1>2. /\ r.esperado \in SUBSET Valor /\ IsFiniteSet(r.esperado)
        /\ r.minAceptable \in Cota /\ r.maxAceptable \in Cota
    BY DEF EsRegla
  <1>3. ASSUME NEW u \in Cota PROVE LimiteDe(u, r) \in Cota
    <2>1. CASE u # NADA
      BY <2>1, FS_EmptySet DEF LimiteDe
    <2>2. CASE u = NADA /\ r.esperado = {}
      BY <1>1, <2>2, FS_EmptySet DEF LimiteDe
    <2>3. CASE u = NADA /\ r.esperado # {}
      <3>1. (CHOOSE l \in r.esperado : TRUE) \in Cota
        BY <1>1, <1>2, <2>3
      <3>2. Cardinality(r.esperado) \in Nat /\ Cardinality(r.esperado) # 0
        BY <1>2, <2>3, FS_CardinalityType, FS_EmptySet
      <3>3. Cardinality(r.esperado) = 1 \/ Cardinality(r.esperado) > 1
        BY <3>2
      <3> QED BY <1>1, <2>3, <3>1, <3>3 DEF LimiteDe
    <2> QED BY <2>1, <2>2, <2>3
  <1>4. IsFiniteSet({})
    BY FS_EmptySet
  <1> QED BY <1>1, <1>2, <1>3, <1>4 DEF EsRegla, ClavesPropias, Vacia

LEMMA CanonicaEsRegla ==
  ASSUME NEW c \in Campo, NEW r, EsRegla(r)
  PROVE  EsRegla(Canonica(c, r))
  <1>1. EsRegla(ClavesPropias(c, r))
    BY ClavesEsRegla
  <1> QED BY <1>1, EnEscalaClaves DEF Canonica

LEMMA FormadasPaso == Formadas /\ [NextEvaluacion]_varsEvaluacion => Formadas'
  <1> SUFFICES ASSUME Formadas, [NextEvaluacion]_varsEvaluacion PROVE Formadas'
    OBVIOUS
  <1>1. ASSUME NEW r, GuardarRegla(r) PROVE Formadas'
    BY <1>1 DEF GuardarRegla, Formadas, TiposEvaluacion
  <1>2. CASE ReconciliarRegla
    BY <1>2, CanonicaEsRegla DEF ReconciliarRegla, Formadas, TiposEvaluacion
  <1>3. ASSUME NEW e \in Evaluacion, Agregar(e) PROVE Formadas'
    BY <1>3 DEF Agregar, Formadas, TiposEvaluacion
  <1>4. CASE UNCHANGED varsEvaluacion
    BY <1>4 DEF varsEvaluacion, Formadas, TiposEvaluacion
  <1> QED BY <1>1, <1>2, <1>3, <1>4 DEF NextEvaluacion

LEMMA FormadasInicio == InitEvaluacion => Formadas
  BY DEF InitEvaluacion, Formadas, TiposEvaluacion

(* A field keeps its type, and what is saved or rewritten is a rule, for   *)
(* any numbers, scale and results (limit_contract_reconciliation.py:55-    *)
(* 108, limit_engine.py:653-667).                                          *)
THEOREM EvaluacionTipada == SpecEvaluacion => []TiposEvaluacion
  <1>1. Formadas => TiposEvaluacion
    BY DEF Formadas
  <1> QED BY <1>1, FormadasInicio, FormadasPaso, PTL DEF SpecEvaluacion

-----------------------------------------------------------------------------
(* The verdict on a test. *)

Flojo == {"NO_EVALUABLE", "NORMAL", "NO_DESEADO", "CRITICO"}

(* What the fields of a group amount to, by what is among them. *)
LEMMA PlanoDe ==
  ASSUME NEW es \in SUBSET Evaluacion, \A e \in es : Posible(e), ~FaltaInformacion(es)
  PROVE  /\ Plano(es) \in Flojo
         /\ Plano(es) = "NO_EVALUABLE" <=> Comparables(es) = {}
         /\ Plano(es) = "CRITICO" <=> Rojas(es) # {}
         /\ Plano(es) = "NO_DESEADO" <=> Rojas(es) = {} /\ Amarillas(es) # {}
  <1>1. Rojas(es) \subseteq Comparables(es) /\ Amarillas(es) \subseteq Comparables(es)
    BY DEF Rojas, Amarillas
  <1>2. ASSUME Rojas(es) = {}, Amarillas(es) = {}, NEW e \in Comparables(es) PROVE e.cumple = "si"
    <2>1. e \in es /\ e \in Evaluacion /\ Posible(e) /\ e.cumple # "nada"
      BY DEF Comparables
    <2>2. e.estado \notin {"CRITICO", "FUERA_DE_LIMITE", "NO_DESEADO"}
      BY <1>2 DEF Rojas, Amarillas
    <2> QED BY <2>1, <2>2 DEF Posible, Evaluacion
  <1> QED BY <1>1, <1>2 DEF Plano, Flojo

LEMMA ResumenEsPlano ==
  ASSUME NEW es \in SUBSET Evaluacion, \A e \in es : Posible(e)
  PROVE  Resumen(es) = Plano(es)
  <1>1. CASE FaltaInformacion(es) \/ Grupos(es) = {}
    BY <1>1 DEF Resumen
  <1>2. CASE ~FaltaInformacion(es) /\ Grupos(es) # {}
    <2> DEFINE De(g) == DelResultado(es, g)
    <2>1. ASSUME NEW g
          PROVE  /\ De(g) \in SUBSET Evaluacion /\ (\A e \in De(g) : Posible(e)) /\ ~FaltaInformacion(De(g))
                 /\ Comparables(De(g)) = {e \in Comparables(es) : e.resultado = g}
                 /\ Rojas(De(g)) = {e \in Rojas(es) : e.resultado = g}
                 /\ Amarillas(De(g)) = {e \in Amarillas(es) : e.resultado = g}
      BY <1>2 DEF DelResultado, FaltaInformacion, Comparables, Rojas, Amarillas
    <2> HIDE DEF De
    <2>2. \A g : /\ Plano(De(g)) \in Flojo
                 /\ Plano(De(g)) = "NO_EVALUABLE" <=> Comparables(De(g)) = {}
                 /\ Plano(De(g)) = "CRITICO" <=> Rojas(De(g)) # {}
                 /\ Plano(De(g)) = "NO_DESEADO" <=> Rojas(De(g)) = {} /\ Amarillas(De(g)) # {}
      BY <2>1, PlanoDe
    <2>3. Grupos(es) = {Plano(De(e.resultado)) : e \in es} \ {"NO_EVALUABLE"}
      BY DEF Grupos, De
    <2>4. Rojas(es) \subseteq es /\ Amarillas(es) \subseteq es /\ Comparables(es) \subseteq es
      BY DEF Rojas, Amarillas, Comparables
    <2>5. "CRITICO" \in Grupos(es) <=> Rojas(es) # {}
      <3>1. ASSUME NEW e \in Rojas(es) PROVE "CRITICO" \in Grupos(es)
        <4>1. e \in Rojas(De(e.resultado))
          BY <2>1
        <4> QED BY <2>2, <2>3, <2>4, <4>1
      <3>2. ASSUME "CRITICO" \in Grupos(es) PROVE Rojas(es) # {}
        BY <2>1, <2>2, <2>3, <3>2
      <3> QED BY <3>1, <3>2
    <2>6. ASSUME Rojas(es) = {} PROVE "NO_DESEADO" \in Grupos(es) <=> Amarillas(es) # {}
      <3>1. \A g : Rojas(De(g)) = {}
        BY <2>1, <2>6
      <3>2. ASSUME NEW e \in Amarillas(es) PROVE "NO_DESEADO" \in Grupos(es)
        <4>1. e \in Amarillas(De(e.resultado))
          BY <2>1
        <4> QED BY <2>2, <2>3, <2>4, <3>1, <4>1
      <3>3. ASSUME "NO_DESEADO" \in Grupos(es) PROVE Amarillas(es) # {}
        BY <2>1, <2>2, <2>3, <3>3
      <3> QED BY <3>2, <3>3
    <2>7. Comparables(es) # {}
      <3>1. PICK e \in es : Plano(De(e.resultado)) # "NO_EVALUABLE"
        BY <1>2, <2>3
      <3> QED BY <2>1, <2>2, <3>1
    <2>8. /\ Plano(es) \in Flojo
          /\ Plano(es) = "NO_EVALUABLE" <=> Comparables(es) = {}
          /\ Plano(es) = "CRITICO" <=> Rojas(es) # {}
          /\ Plano(es) = "NO_DESEADO" <=> Rojas(es) = {} /\ Amarillas(es) # {}
      BY <1>2, PlanoDe
    <2> QED BY <1>2, <2>5, <2>6, <2>7, <2>8 DEF Resumen, Flojo
  <1> QED BY <1>1, <1>2

(* For any results and fields, the verdict on a test is the worst of the   *)
(* fields that count, however they are grouped (evaluation_rules.py:117-   *)
(* 201 against :59-103).                                                   *)
THEOREM GruposNuncaCambianElVeredicto == SpecEvaluacion => []GruposNoCambianElVeredicto
  <1>1. Formadas => GruposNoCambianElVeredicto
    BY ResumenEsPlano DEF Formadas, TiposEvaluacion, GruposNoCambianElVeredicto
  <1> QED BY <1>1, FormadasInicio, FormadasPaso, PTL DEF SpecEvaluacion

-----------------------------------------------------------------------------
(* The verdict on a number. *)

Alcanza(r, n) ==
    /\ r.minAceptable # NADA => n >= r.minAceptable.n
    /\ r.maxAceptable # NADA => n <= r.maxAceptable.n

Excede(r, n) ==
    \/ r.minCritico # NADA /\ n < r.minCritico.n
    \/ r.maxCritico # NADA /\ n > r.maxCritico.n

(* The number a decimal stands for, and a threshold that is one. *)
LEMMA DecimalEntero ==
  ASSUME NEW r, EsRegla(r), Ordenada(r)
  PROVE  /\ \A v \in Decimales : v \in Valor /\ v.n \in Int /\ EsDecimal(v)
         /\ \A u \in {r.minCritico, r.minAceptable, r.maxAceptable, r.maxCritico} :
                u # NADA => u \in Decimales
  <1>1. \A v \in Decimales : v \in Valor /\ v.n \in Int /\ EsDecimal(v)
    BY NumerosEnteros DEF Decimales, Valor
  <1>2. \A u \in Cota : u # NADA /\ EsDecimal(u) => u \in Decimales
    BY DEF Cota, Decimales, EsDecimal, Ilegible
  <1>3. {r.minCritico, r.minAceptable, r.maxAceptable, r.maxCritico} \subseteq Cota
    BY DEF EsRegla
  <1>4. /\ r["minCritico"] # NADA => EsDecimal(r["minCritico"])
        /\ r["minAceptable"] # NADA => EsDecimal(r["minAceptable"])
        /\ r["maxAceptable"] # NADA => EsDecimal(r["maxAceptable"])
        /\ r["maxCritico"] # NADA => EsDecimal(r["maxCritico"])
    BY DEF Ordenada, Umbrales
  <1> QED BY <1>1, <1>2, <1>3, <1>4

LEMMA UmbralDecimal ==
  ASSUME NEW c, c.tipo = "numerica", NEW v \in Decimales, NEW u, u = NADA \/ u \in Decimales
  PROVE  /\ Umbral(c, "min", v, u) = Si(u # NADA => v.n >= u.n)
         /\ Umbral(c, "max", v, u) = Si(u # NADA => v.n <= u.n)
  BY DEF Umbral, ComparaNumeros, Decimales, Si

LEMMA BandaDeUmbrales ==
  ASSUME NEW c, c.tipo = "numerica", NEW r, EsRegla(r), Ordenada(r), NEW v \in Decimales
  PROVE  PorBandas(c, v, r) = IF Alcanza(r, v.n) THEN Medicion("NORMAL", "si")
                              ELSE IF r.amarillo /\ ~Excede(r, v.n) THEN Medicion("NO_DESEADO", "no")
                              ELSE Medicion("CRITICO", "no")
  <1>1. \A u \in {r.minCritico, r.minAceptable, r.maxAceptable, r.maxCritico} : u = NADA \/ u \in Decimales
    BY DecimalEntero
  <1>2. /\ \A x \in {r.minCritico, r.minAceptable} : Umbral(c, "min", v, x) = Si(x # NADA => v.n >= x.n)
        /\ \A x \in {r.maxCritico, r.maxAceptable} : Umbral(c, "max", v, x) = Si(x # NADA => v.n <= x.n)
    BY <1>1, UmbralDecimal
  <1>3. Legible(c, v, r)
    BY DEF Legible, Decimales, Ordenada
  <1>4. v.n \in Int /\ \A u \in {r.minCritico, r.minAceptable, r.maxAceptable, r.maxCritico} :
                           u # NADA => u.n \in Int
    BY DecimalEntero
  <1>5. (Umbral(c, "min", v, r.minAceptable) = "si" /\ Umbral(c, "max", v, r.maxAceptable) = "si")
        <=> Alcanza(r, v.n)
    BY <1>2 DEF Si, Alcanza
  <1>6. MasAllaDe(c, v, r) <=> Excede(r, v.n)
    <2>1. Umbral(c, "min", v, r.minCritico) = "no" <=> r.minCritico # NADA /\ v.n < r.minCritico.n
      BY <1>2, <1>4 DEF Si
    <2>2. Umbral(c, "max", v, r.maxCritico) = "no" <=> r.maxCritico # NADA /\ v.n > r.maxCritico.n
      BY <1>2, <1>4 DEF Si
    <2> QED BY <2>1, <2>2 DEF MasAllaDe, Excede
  <1> QED BY <1>3, <1>5, <1>6 DEF PorBandas

(* A rule with thresholds that the form accepts, with the keys of its      *)
(* operator alone, is judged by its bands.                                 *)
LEMMA AceptadaDeUmbrales ==
  ASSUME NEW c \in Campo, c.tipo = "numerica", NEW r, EsRegla(r), Aceptada(c, r), SoloLoSuyo(c, r),
         OperadorDe(c, r) \in {"min", "max", "between"}
  PROVE  /\ Ordenada(r) /\ r.esperado = {}
         /\ OperadorDe(c, r) \in {"min", "between"} <=> r.minAceptable # NADA
         /\ OperadorDe(c, r) \in {"max", "between"} <=> r.maxAceptable # NADA
         /\ r.minCritico # NADA => r.amarillo /\ r.minAceptable # NADA
         /\ r.maxCritico # NADA => r.amarillo /\ r.maxAceptable # NADA
         /\ r.amarillo => /\ r.minAceptable # NADA => r.minCritico # NADA
                          /\ r.maxAceptable # NADA => r.maxCritico # NADA
         /\ \A v : Evaluar(c, v, r) = PorBandas(ConOperador(c, r), v, r)
         /\ ConOperador(c, r).tipo = "numerica"
  <1> DEFINE op == OperadorDe(c, r)
  <1>1. Ordenada(r) /\ Requeridos(op, r.amarillo) \subseteq Presentes(r)
        /\ Presentes(r) \subseteq Requeridos(op, r.amarillo)
    BY DEF Aceptada, SoloLoSuyo
  <1>2. "esperado" \notin Requeridos(op, r.amarillo)
    BY DEF Requeridos
  <1>3. r.esperado = {}
    BY <1>1, <1>2 DEF Presentes
  <1>4. \A u \in Umbrales : r[u] # NADA <=> u \in Requeridos(op, r.amarillo)
    BY <1>1, <1>3 DEF Presentes
  <1>5. /\ r["minAceptable"] # NADA <=> "minAceptable" \in Requeridos(op, r.amarillo)
        /\ r["maxAceptable"] # NADA <=> "maxAceptable" \in Requeridos(op, r.amarillo)
        /\ r["minCritico"] # NADA <=> "minCritico" \in Requeridos(op, r.amarillo)
        /\ r["maxCritico"] # NADA <=> "maxCritico" \in Requeridos(op, r.amarillo)
    BY <1>4 DEF Umbrales
  <1>6. /\ op \in {"min", "between"} <=> "minAceptable" \in Requeridos(op, r.amarillo)
        /\ op \in {"max", "between"} <=> "maxAceptable" \in Requeridos(op, r.amarillo)
        /\ "minCritico" \in Requeridos(op, r.amarillo) => r.amarillo /\ op \in {"min", "between"}
        /\ "maxCritico" \in Requeridos(op, r.amarillo) => r.amarillo /\ op \in {"max", "between"}
        /\ r.amarillo /\ op \in {"min", "between"} => "minCritico" \in Requeridos(op, r.amarillo)
        /\ r.amarillo /\ op \in {"max", "between"} => "maxCritico" \in Requeridos(op, r.amarillo)
    BY DEF Requeridos
  <1>7. \E u \in Umbrales : r[u] # NADA
    BY <1>5, <1>6 DEF Umbrales
  <1>8. \A v : Evaluar(c, v, r) = PorBandas(ConOperador(c, r), v, r)
    BY <1>3, <1>7 DEF Evaluar
  <1>9. ConOperador(c, r).tipo = "numerica"
    BY DEF ConOperador, Campo
  <1> QED BY <1>1, <1>3, <1>5, <1>6, <1>8, <1>9

(* The critical thresholds of a rule lie beyond the acceptable ones. *)
LEMMA CriticosFuera ==
  ASSUME NEW r, EsRegla(r), Ordenada(r), r.amarillo
  PROVE  /\ r.minCritico # NADA /\ r.minAceptable # NADA => r.minCritico.n <= r.minAceptable.n
         /\ r.maxCritico # NADA /\ r.maxAceptable # NADA => r.maxAceptable.n <= r.maxCritico.n
         /\ r.minAceptable # NADA /\ r.maxAceptable # NADA => r.minAceptable.n <= r.maxAceptable.n
  BY DEF Ordenada, NoSupera

LEMMA SeveridadDeRegla == TiposEvaluacion => SeveridadMonotona
  <1> SUFFICES ASSUME TiposEvaluacion, regla # NADA, Aceptada(campo, regla), campo.tipo = "numerica",
                      SoloLoSuyo(campo, regla), OperadorDe(campo, regla) \in {"min", "max", "between"},
                      NEW v \in Decimales, NEW w \in Decimales
               PROVE  /\ Evaluar(campo, v, regla).cumple # "nada"
                      /\ MasLejos(regla, v, w) =>
                            Gravedad(Evaluar(campo, v, regla).estado) <= Gravedad(Evaluar(campo, w, regla).estado)
    BY DEF SeveridadMonotona
  <1> DEFINE r == regla
             Juicio(n) == IF Alcanza(r, n) THEN Medicion("NORMAL", "si")
                          ELSE IF r.amarillo /\ ~Excede(r, n) THEN Medicion("NO_DESEADO", "no")
                          ELSE Medicion("CRITICO", "no")
  <1>1. EsRegla(r) /\ campo \in Campo
    BY DEF TiposEvaluacion
  <1>2. /\ Ordenada(r)
        /\ r.minCritico # NADA => r.amarillo /\ r.minAceptable # NADA
        /\ r.maxCritico # NADA => r.amarillo /\ r.maxAceptable # NADA
        /\ \A x : Evaluar(campo, x, r) = PorBandas(ConOperador(campo, r), x, r)
        /\ ConOperador(campo, r).tipo = "numerica"
    BY <1>1, AceptadaDeUmbrales
  <1>3. Evaluar(campo, v, r) = Juicio(v.n) /\ Evaluar(campo, w, r) = Juicio(w.n)
    BY <1>1, <1>2, BandaDeUmbrales
  <1>4. v.n \in Int /\ w.n \in Int /\ \A u \in {r.minCritico, r.minAceptable, r.maxAceptable, r.maxCritico} :
                                          u # NADA => u.n \in Int
    BY <1>1, <1>2, DecimalEntero
  <1>5. r.amarillo => /\ r.minCritico # NADA /\ r.minAceptable # NADA => r.minCritico.n <= r.minAceptable.n
                      /\ r.maxCritico # NADA /\ r.maxAceptable # NADA => r.maxAceptable.n <= r.maxCritico.n
                      /\ r.minAceptable # NADA /\ r.maxAceptable # NADA => r.minAceptable.n <= r.maxAceptable.n
    BY <1>1, <1>2, CriticosFuera
  <1>6. ASSUME MasLejos(r, v, w) PROVE ~Alcanza(r, w.n) /\ (Excede(r, v.n) => Excede(r, w.n))
    BY <1>2, <1>4, <1>5, <1>6 DEF MasLejos, Alcanza, Excede
  <1>7. \A n : Juicio(n).cumple # "nada"
    BY DEF Medicion
  <1>8. ASSUME MasLejos(r, v, w) PROVE Gravedad(Juicio(v.n).estado) <= Gravedad(Juicio(w.n).estado)
    BY <1>6, <1>8 DEF Medicion, Gravedad
  <1> QED BY <1>3, <1>7, <1>8

(* For any numbers and thresholds, a rule the form accepts judges every    *)
(* number, and one that lies farther out never better (limit_engine.py:    *)
(* 685-712 with dynamicTechnicalConfig/index.py:1369-1430).                *)
THEOREM SeveridadSiempreMonotona == SpecEvaluacion => []SeveridadMonotona
  <1>1. Formadas => SeveridadMonotona
    BY SeveridadDeRegla DEF Formadas
  <1> QED BY <1>1, FormadasInicio, FormadasPaso, PTL DEF SpecEvaluacion

-----------------------------------------------------------------------------
(* Rewriting a rule. *)

(* A rule without its operator, and with the band it is given. *)
Reescrita(r, a) ==
    [operador |-> NADA, amarillo |-> a, esperado |-> r.esperado,
     minCritico |-> r.minCritico, minAceptable |-> r.minAceptable,
     maxAceptable |-> r.maxAceptable, maxCritico |-> r.maxCritico]

LEMMA SinOperador ==
  ASSUME NEW r, EsRegla(r), r.esperado = {}
  PROVE  [r EXCEPT !.operador = NADA, !.esperado = {}] = Reescrita(r, r.amarillo)
  <1> DEFINE t == [r EXCEPT !.operador = NADA]
  <1>1. t = Reescrita(r, r.amarillo)
    BY DEF EsRegla, Reescrita
  <1> HIDE DEF t
  <1>2. [t EXCEPT !.esperado = {}] = t
    BY <1>1 DEF Reescrita
  <1> QED BY <1>1, <1>2 DEF t

(* With the keys its operator uses, a rule loses the operator it repeats   *)
(* and, when it compares with one value, the band it does not have.        *)
LEMMA ClavesDe ==
  ASSUME NEW c \in Campo, NEW r, EsRegla(r), c.operador \in {"min", "max", "between", "eq", "neq"},
         Presentes(r) \subseteq Requeridos(c.operador, TRUE)
  PROVE  /\ ClavesPropias(c, r) = Reescrita(r, IF c.operador \in {"eq", "neq"} THEN FALSE ELSE r.amarillo)
         /\ c.operador \in {"eq", "neq"} => \A u \in Umbrales : r[u] = NADA
  <1> DEFINE q == Requeridos(c.operador, TRUE)
  <1>1. /\ r["minAceptable"] # NADA => "minAceptable" \in q
        /\ r["maxAceptable"] # NADA => "maxAceptable" \in q
        /\ r["minCritico"] # NADA => "minCritico" \in q
        /\ r["maxCritico"] # NADA => "maxCritico" \in q
        /\ r.esperado # {} => "esperado" \in q
    BY DEF Presentes, Umbrales
  <1>2. CASE c.operador \in {"eq", "neq"}
    <2>1. r["minAceptable"] = NADA /\ r["maxAceptable"] = NADA /\ r["minCritico"] = NADA /\ r["maxCritico"] = NADA
      BY <1>1, <1>2 DEF Requeridos
    <2>2. ClavesPropias(c, r) = [Vacia(r) EXCEPT !.esperado = r.esperado, !.amarillo = FALSE]
      BY <1>2 DEF ClavesPropias
    <2>3. ClavesPropias(c, r) = Reescrita(r, FALSE)
      BY <2>1, <2>2 DEF Vacia, Reescrita
    <2> QED BY <1>2, <2>1, <2>3 DEF Umbrales
  <1>3. CASE c.operador = "min"
    <2>1. r["maxAceptable"] = NADA /\ r["maxCritico"] = NADA /\ r.esperado = {}
      BY <1>1, <1>3 DEF Requeridos
    <2>2. LimiteDe(r.minAceptable, r) = r.minAceptable
      BY <2>1, FS_EmptySet DEF LimiteDe
    <2>3. ClavesPropias(c, r) = [Vacia(r) EXCEPT !.minCritico = r.minCritico, !.minAceptable = r.minAceptable]
      BY <1>3, <2>2 DEF ClavesPropias
    <2>4. ClavesPropias(c, r) = Reescrita(r, r.amarillo)
      BY <2>1, <2>3 DEF Vacia, Reescrita
    <2> QED BY <1>3, <2>4
  <1>4. CASE c.operador = "max"
    <2>1. r["minAceptable"] = NADA /\ r["minCritico"] = NADA /\ r.esperado = {}
      BY <1>1, <1>4 DEF Requeridos
    <2>2. LimiteDe(r.maxAceptable, r) = r.maxAceptable
      BY <2>1, FS_EmptySet DEF LimiteDe
    <2>3. ClavesPropias(c, r) = [Vacia(r) EXCEPT !.maxAceptable = r.maxAceptable, !.maxCritico = r.maxCritico]
      BY <1>4, <2>2 DEF ClavesPropias
    <2>4. ClavesPropias(c, r) = Reescrita(r, r.amarillo)
      BY <2>1, <2>3 DEF Vacia, Reescrita
    <2> QED BY <1>4, <2>4
  <1>5. CASE c.operador = "between"
    <2>1. r.esperado = {}
      BY <1>1, <1>5 DEF Requeridos
    <2>2. ClavesPropias(c, r) = [r EXCEPT !.operador = NADA, !.esperado = {}]
      BY <1>5 DEF ClavesPropias
    <2> QED BY <1>5, <2>1, <2>2, SinOperador
  <1> QED BY <1>2, <1>3, <1>4, <1>5

(* The operator and the band are read nowhere else. *)
LEMMA MismoVeredicto ==
  ASSUME NEW c \in Campo, NEW r, EsRegla(r), r.operador \in {NADA, c.operador},
         NEW a \in BOOLEAN, a = r.amarillo \/ \A u \in Umbrales : r[u] = NADA,
         NEW v
  PROVE  Evaluar(c, v, Reescrita(r, a)) = Evaluar(c, v, r)
  <1> DEFINE s == Reescrita(r, a)
  <1>1. /\ s.operador = NADA /\ s.amarillo = a /\ s.esperado = r.esperado
        /\ s.minCritico = r.minCritico /\ s.minAceptable = r.minAceptable
        /\ s.maxAceptable = r.maxAceptable /\ s.maxCritico = r.maxCritico
    BY DEF Reescrita
  <1>2. \A u \in Umbrales : s[u] = r[u]
    BY <1>1 DEF Umbrales
  <1> HIDE DEF s
  <1>3. ConOperador(c, s) = c /\ ConOperador(c, r) = c
    <2>1. r.operador = c.operador => [c EXCEPT !.operador = r.operador] = c
      BY DEF Campo
    <2> QED BY <1>1, <2>1 DEF ConOperador
  <1>4. PorEsperado(c, v, s) = PorEsperado(c, v, r)
    BY <1>1 DEF PorEsperado
  <1>5. ASSUME a = r.amarillo PROVE PorBandas(c, v, s) = PorBandas(c, v, r)
    <2>1. Legible(c, v, s) <=> Legible(c, v, r)
      BY <1>1, <1>2 DEF Legible
    <2>2. MasAllaDe(c, v, s) <=> MasAllaDe(c, v, r)
      BY <1>1 DEF MasAllaDe
    <2> QED BY <1>1, <1>5, <2>1, <2>2 DEF PorBandas
  <1>6. Evaluar(c, v, s) = Evaluar(c, v, r)
    BY <1>1, <1>2, <1>3, <1>4, <1>5 DEF Evaluar
  <1> QED BY <1>6 DEF s

(* In a scale that is not ambiguous, what the engine finds by a limit it   *)
(* finds by what the limit is rewritten to; a limit that is no id is found *)
(* after as before.                                                        *)
LEMMA UnSoloItem ==
  ASSUME NEW c \in Campo, Inequivoca(c.items), NEW j \in Escala, NEW k \in Escala,
         NEW w \in Palabras(c.items[j]),
         Normal(w) = c.items[k].valor \/ w = c.items[k].etiqueta
  PROVE  j = k
  <1>1. DOMAIN c.items = Escala
    BY EscalasDeItems DEF Campo
  <1> QED BY <1>1 DEF Inequivoca

LEMMA HalladoTrasCanonico ==
  ASSUME NEW c \in Campo, Inequivoca(c.items), NEW u \in Cota, u # NADA
  PROVE  /\ Hallados(c, u) # {} => Hallados(c, ValorCanonico(c, u)) = Hallados(c, u)
         /\ (\A j \in Escala : c.items[j].llave # u) =>
                Hallados(c, ValorCanonico(c, u)) = Hallados(c, u)
         /\ ValorCanonico(c, ValorCanonico(c, u)) = ValorCanonico(c, u)
  <1> DEFINE suyos == {j \in Escala : u \in Palabras(c.items[j])}
             p == Primero(suyos)
             v == c.items[p].valor
  <1>1. CASE suyos = {}
    BY <1>1 DEF ValorCanonico
  <1>2. CASE suyos # {}
    <2>1. p \in Escala /\ u \in Palabras(c.items[p])
      BY <1>2, PrimeroEsUno
    <2> HIDE DEF p
    <2>2. ValorCanonico(c, u) = v
      BY <1>2 DEF ValorCanonico, p
    <2>3. v \in Valor /\ Normal(v) = v /\ v \in Palabras(c.items[p])
      BY <2>1, ItemDe DEF Palabras
    <2>4. Hallados(c, v) = {p}
      <3>1. \A k \in Escala : c.items[k].valor = Normal(v) => k = p
        BY <2>1, <2>3, UnSoloItem
      <3>2. {k \in Escala : c.items[k].valor = Normal(v)} = {p}
        BY <2>1, <2>3, <3>1
      <3> QED BY <3>2 DEF Hallados
    <2>5. \A k \in Escala : c.items[k].valor = Normal(u) \/ c.items[k].etiqueta = u => k = p
      BY <2>1, UnSoloItem
    <2>6. Hallados(c, u) # {} => Hallados(c, u) = {p}
      <3>1. Hallados(c, u) \subseteq {p}
        BY <2>5 DEF Hallados
      <3> QED BY <3>1
    <2>7. ASSUME \A j \in Escala : c.items[j].llave # u PROVE Hallados(c, u) # {}
      <3>1. u = c.items[p].etiqueta \/ u = c.items[p].valor
        BY <2>1, <2>7 DEF Palabras
      <3>2. CASE u = c.items[p].etiqueta
        BY <2>1, <3>2 DEF Hallados
      <3>3. CASE u = c.items[p].valor
        <4>1. Normal(u) = c.items[p].valor
          BY <2>3, <3>3
        <4> QED BY <2>1, <4>1 DEF Hallados
      <3> QED BY <3>1, <3>2, <3>3
    <2>8. ValorCanonico(c, v) = v
      <3>1. \A k \in Escala : v \in Palabras(c.items[k]) => k = p
        BY <2>1, <2>3, UnSoloItem
      <3>2. {k \in Escala : v \in Palabras(c.items[k])} = {p}
        BY <2>1, <2>3, <3>1
      <3>3. Primero({p}) = p
        BY <2>1, PrimeroEsUno
      <3>4. v # NADA
        BY <2>3, NadaAparte
      <3> QED BY <3>2, <3>3, <3>4 DEF ValorCanonico
    <2> QED BY <2>2, <2>4, <2>6, <2>7, <2>8
  <1> QED BY <1>1, <1>2

(* Written by its item, a threshold says of a value what it said before. *)
LEMMA UmbralTrasCanonico ==
  ASSUME NEW c \in Campo, c.tipo = "escala", Inequivoca(c.items), NEW u \in Cota,
         NEW op, NEW v
  PROVE  /\ Umbral(c, op, v, u) # "nada" => Umbral(c, op, v, ValorCanonico(c, u)) = Umbral(c, op, v, u)
         /\ (\A j \in Escala : c.items[j].llave # u) =>
                Umbral(c, op, v, ValorCanonico(c, u)) = Umbral(c, op, v, u)
  <1> DEFINE w == ValorCanonico(c, u)
  <1>1. CASE u = NADA
    BY <1>1 DEF ValorCanonico
  <1>2. CASE u # NADA
    <2>1. w # NADA
      BY <1>2, ValorCanonicoTipado
    <2>2. \A x : ComparaEnEscala(c, op, v, {x}) =
                   IF Hallados(c, v) # {} /\ Hallados(c, x) # {}
                   THEN ComparaNumeros(IF op \in {"max", "min", "neq"} THEN op ELSE "eq",
                                       Primero(Hallados(c, v)), Primero(Hallados(c, x)))
                   ELSE "nada"
      BY DEF ComparaEnEscala
    <2>3. Umbral(c, op, v, u) = ComparaEnEscala(c, op, v, {u}) /\ Umbral(c, op, v, w) = ComparaEnEscala(c, op, v, {w})
      BY <1>2, <2>1 DEF Umbral
    <2> HIDE DEF w
    <2>4. Hallados(c, w) = Hallados(c, u) => ComparaEnEscala(c, op, v, {w}) = ComparaEnEscala(c, op, v, {u})
      BY <2>2
    <2>5. Hallados(c, u) = {} => ComparaEnEscala(c, op, v, {u}) = "nada"
      BY <2>2
    <2> QED BY <1>2, <2>3, <2>4, <2>5, HalladoTrasCanonico DEF w
  <1> QED BY <1>1, <1>2

LEMMA EsperadoTrasCanonico ==
  ASSUME NEW c \in Campo, c.tipo = "escala", Inequivoca(c.items), NEW l \in Valor, NEW v
  PROVE  LET w == ValorCanonico(c, l)
         IN /\ ComparaConTipo(c, v, {l}) # "nada" => ComparaConTipo(c, v, {w}) = ComparaConTipo(c, v, {l})
            /\ (\A j \in Escala : c.items[j].llave # l) => ComparaConTipo(c, v, {w}) = ComparaConTipo(c, v, {l})
  <1> DEFINE w == ValorCanonico(c, l)
  <1>1. l \in Cota /\ l # NADA
    BY NadaAparte DEF Cota
  <1>2. w # NADA
    BY <1>1, ValorCanonicoTipado
  <1>3. \A x : x # NADA => ComparaConTipo(c, v, {x}) =
                     IF c.operador = "informativo" THEN "nada" ELSE Umbral(c, c.operador, v, x)
    BY DEF ComparaConTipo, Umbral
  <1> QED BY <1>1, <1>2, <1>3, UmbralTrasCanonico

(* What a rule says of a value, and what it says once its limits are       *)
(* written by their items.                                                 *)
LEMMA EstadoConVeredicto ==
  ASSUME NEW c \in Campo, NEW v, NEW r, r.operador = NADA, Evaluar(c, v, r).cumple # "nada"
  PROVE  Gravedad(Evaluar(c, v, r).estado) \in 0..2
  <1>1. ConOperador(c, r) = c
    BY DEF ConOperador
  <1>2. \A op, a, b : ComparaNumeros(op, a, b) \in {"si", "no", "nada"}
    BY DEF ComparaNumeros, Si
  <1>3. \A lista : ComparaConTipo(c, v, lista) \in {"si", "no", "nada"}
    <2>1. \A op, x, lista : ComparaTextos(op, x, lista) \in {"si", "no", "nada"}
      BY DEF ComparaTextos, Si
    <2>2. \A op, x, lista : Compara(op, x, lista) \in {"si", "no", "nada"}
      BY <1>2, <2>1 DEF Compara
    <2>3. \A op, x, lista : ComparaBooleanos(op, x, lista) \in {"si", "no", "nada"}
      BY DEF ComparaBooleanos, Si
    <2>4. \A op, x, lista : ComparaEnEscala(c, op, x, lista) \in {"si", "no", "nada"}
      BY <1>2 DEF ComparaEnEscala
    <2>5. c.tipo \in {"numerica", "booleano", "escala"}
      BY DEF Campo, Comparaciones
    <2> QED BY <2>2, <2>3, <2>4, <2>5 DEF ComparaConTipo
  <1>4. Evaluar(c, v, r) \in {PorEsperado(c, v, r), PorBandas(c, v, r), SinLimites(c, v)}
    BY <1>1 DEF Evaluar
  <1>5. \A e \in {PorEsperado(c, v, r), PorBandas(c, v, r), SinLimites(c, v)} :
            e.cumple # "nada" => e.estado \in {"NORMAL", "NO_DESEADO", "CRITICO", "FUERA_DE_LIMITE"}
    <2>1. PorEsperado(c, v, r).cumple # "nada" =>
              PorEsperado(c, v, r).estado \in {"NORMAL", "CRITICO"}
      BY <1>3 DEF PorEsperado, Medicion, NoEvaluable
    <2>2. PorBandas(c, v, r).cumple # "nada" =>
              PorBandas(c, v, r).estado \in {"NORMAL", "NO_DESEADO", "CRITICO"}
      BY DEF PorBandas, Medicion, NoEvaluable
    <2>3. SinLimites(c, v).cumple # "nada" =>
              SinLimites(c, v).estado \in {"NORMAL", "FUERA_DE_LIMITE"}
      BY DEF SinLimites, Medicion, NoEvaluable
    <2> QED BY <2>1, <2>2, <2>3
  <1> QED BY <1>4, <1>5 DEF Gravedad

LEMMA EsperadosTrasCanonico ==
  ASSUME NEW c \in Campo, c.tipo = "escala", Inequivoca(c.items), NEW v, NEW r, EsRegla(r)
  PROVE  LET s == EnEscala(c, r)
         IN /\ PorEsperado(c, v, r).cumple # "nada" => PorEsperado(c, v, s) = PorEsperado(c, v, r)
            /\ ~PorLlave(c, r) => PorEsperado(c, v, s) = PorEsperado(c, v, r)
  <1> DEFINE s == EnEscala(c, r)
  <1>1. s.esperado = IF \E l \in r.esperado : r.esperado = {l}
                     THEN {ValorCanonico(c, l) : l \in r.esperado} ELSE r.esperado
    BY EnEscalaClaves
  <1> HIDE DEF s
  <1>2. CASE ~\E l \in r.esperado : r.esperado = {l}
    <2>1. s.esperado = r.esperado
      BY <1>1, <1>2
    <2>2. PorEsperado(c, v, s) = PorEsperado(c, v, r)
      BY <2>1 DEF PorEsperado
    <2> QED BY <2>2 DEF s
  <1>3. ASSUME NEW l \in r.esperado, r.esperado = {l}
        PROVE  /\ PorEsperado(c, v, r).cumple # "nada" => PorEsperado(c, v, s) = PorEsperado(c, v, r)
               /\ ~PorLlave(c, r) => PorEsperado(c, v, s) = PorEsperado(c, v, r)
    <2>1. l \in Valor
      BY DEF EsRegla
    <2>2. s.esperado = {ValorCanonico(c, l)}
      BY <1>1, <1>3
    <2>3. ComparaConTipo(c, v, r.esperado) = "nada" => PorEsperado(c, v, r).cumple = "nada"
      BY DEF PorEsperado, NoEvaluable, Medicion
    <2>4. ~PorLlave(c, r) => \A j \in Escala : c.items[j].llave # l
      <3>1. DOMAIN c.items = Escala
        BY EscalasDeItems DEF Campo
      <3> QED BY <3>1 DEF PorLlave
    <2>5. ComparaConTipo(c, v, s.esperado) = ComparaConTipo(c, v, r.esperado) =>
              PorEsperado(c, v, s) = PorEsperado(c, v, r)
      BY DEF PorEsperado
    <2> QED BY <1>3, <2>1, <2>2, <2>3, <2>4, <2>5, EsperadoTrasCanonico
  <1> QED BY <1>2, <1>3 DEF s

LEMMA BandasTrasCanonico ==
  ASSUME NEW c \in Campo, c.tipo = "escala", Inequivoca(c.items), NEW v, NEW r, EsRegla(r)
  PROVE  LET s == EnEscala(c, r)
         IN /\ PorBandas(c, v, r).cumple # "nada" =>
                  /\ PorBandas(c, v, s).cumple = PorBandas(c, v, r).cumple
                  /\ \/ PorBandas(c, v, s) = PorBandas(c, v, r)
                     \/ PorBandas(c, v, r).estado = "NO_DESEADO" /\ PorBandas(c, v, s).estado = "CRITICO"
            /\ ~PorLlave(c, r) => PorBandas(c, v, s) = PorBandas(c, v, r)
  <1> DEFINE s == EnEscala(c, r)
  <1>1. /\ s.amarillo = r.amarillo
        /\ s.minCritico = ValorCanonico(c, r.minCritico)
        /\ s.minAceptable = ValorCanonico(c, r.minAceptable)
        /\ s.maxAceptable = ValorCanonico(c, r.maxAceptable)
        /\ s.maxCritico = ValorCanonico(c, r.maxCritico)
    BY EnEscalaClaves
  <1> HIDE DEF s
  <1>2. {r.minCritico, r.minAceptable, r.maxAceptable, r.maxCritico} \subseteq Cota
    BY DEF EsRegla
  <1>3. \A op : \A u \in {r.minCritico, r.minAceptable, r.maxAceptable, r.maxCritico} :
            /\ Umbral(c, op, v, u) # "nada" => Umbral(c, op, v, ValorCanonico(c, u)) = Umbral(c, op, v, u)
            /\ (\A j \in Escala : c.items[j].llave # u) =>
                   Umbral(c, op, v, ValorCanonico(c, u)) = Umbral(c, op, v, u)
    BY <1>2, UmbralTrasCanonico
  <1>4. ASSUME NEW q, EsRegla(q)
        PROVE  Legible(c, v, q) <=> /\ Umbral(c, "min", v, q.minAceptable) # "nada"
                                    /\ Umbral(c, "max", v, q.maxAceptable) # "nada"
    BY DEF Legible
  <1>5. EsRegla(s)
    BY EnEscalaClaves DEF s
  <1>6. ASSUME Legible(c, v, r)
        PROVE  /\ Legible(c, v, s)
               /\ Umbral(c, "min", v, s.minAceptable) = Umbral(c, "min", v, r.minAceptable)
               /\ Umbral(c, "max", v, s.maxAceptable) = Umbral(c, "max", v, r.maxAceptable)
    BY <1>1, <1>3, <1>4, <1>5, <1>6
  <1>7. MasAllaDe(c, v, r) => MasAllaDe(c, v, s)
    BY <1>1, <1>3 DEF MasAllaDe
  <1>8. /\ PorBandas(c, v, r).cumple # "nada" =>
               /\ PorBandas(c, v, s).cumple = PorBandas(c, v, r).cumple
               /\ \/ PorBandas(c, v, s) = PorBandas(c, v, r)
                  \/ PorBandas(c, v, r).estado = "NO_DESEADO" /\ PorBandas(c, v, s).estado = "CRITICO"
    <2>1. CASE ~Legible(c, v, r)
      BY <2>1 DEF PorBandas, NoEvaluable, Medicion
    <2>2. CASE Legible(c, v, r)
      BY <1>1, <1>6, <1>7, <2>2 DEF PorBandas, Medicion
    <2> QED BY <2>1, <2>2
  <1>9. ASSUME ~PorLlave(c, r) PROVE PorBandas(c, v, s) = PorBandas(c, v, r)
    <2>1. DOMAIN c.items = Escala
      BY EscalasDeItems DEF Campo
    <2>2. \A j \in Escala : /\ c.items[j].llave # r["minCritico"] /\ c.items[j].llave # r["minAceptable"]
                            /\ c.items[j].llave # r["maxAceptable"] /\ c.items[j].llave # r["maxCritico"]
      BY <1>9, <2>1 DEF PorLlave, Umbrales
    <2>3. \A op : /\ Umbral(c, op, v, s.minCritico) = Umbral(c, op, v, r.minCritico)
                  /\ Umbral(c, op, v, s.minAceptable) = Umbral(c, op, v, r.minAceptable)
                  /\ Umbral(c, op, v, s.maxAceptable) = Umbral(c, op, v, r.maxAceptable)
                  /\ Umbral(c, op, v, s.maxCritico) = Umbral(c, op, v, r.maxCritico)
      BY <1>1, <1>3, <2>2
    <2>4. Legible(c, v, s) <=> Legible(c, v, r)
      BY <1>4, <1>5, <2>3
    <2>5. MasAllaDe(c, v, s) <=> MasAllaDe(c, v, r)
      BY <2>3 DEF MasAllaDe
    <2> QED BY <1>1, <2>3, <2>4, <2>5 DEF PorBandas
  <1> QED BY <1>8, <1>9 DEF s

LEMMA EnEscalaPresentes ==
  ASSUME NEW c \in Campo, NEW r, EsRegla(r)
  PROVE  Presentes(EnEscala(c, r)) = Presentes(r)
  <1> DEFINE s == EnEscala(c, r)
  <1>1. /\ s.esperado = IF \E l \in r.esperado : r.esperado = {l}
                        THEN {ValorCanonico(c, l) : l \in r.esperado} ELSE r.esperado
        /\ s.minCritico = ValorCanonico(c, r.minCritico) /\ s.minAceptable = ValorCanonico(c, r.minAceptable)
        /\ s.maxAceptable = ValorCanonico(c, r.maxAceptable) /\ s.maxCritico = ValorCanonico(c, r.maxCritico)
    BY EnEscalaClaves
  <1> HIDE DEF s
  <1>2. s.esperado = {} <=> r.esperado = {}
    BY <1>1
  <1>3. {r.minCritico, r.minAceptable, r.maxAceptable, r.maxCritico} \subseteq Cota
    BY DEF EsRegla
  <1>4. /\ s.minCritico = NADA <=> r.minCritico = NADA
        /\ s.minAceptable = NADA <=> r.minAceptable = NADA
        /\ s.maxAceptable = NADA <=> r.maxAceptable = NADA
        /\ s.maxCritico = NADA <=> r.maxCritico = NADA
    BY <1>1, <1>3, ValorCanonicoTipado
  <1>5. \A u \in Umbrales : s[u] = NADA <=> r[u] = NADA
    BY <1>4 DEF Umbrales
  <1>6. Presentes(s) = Presentes(r)
    BY <1>2, <1>5 DEF Presentes
  <1> QED BY <1>6 DEF s

LEMMA EscalaJuzgaIgual ==
  ASSUME NEW c \in Campo, c.tipo = "escala", Inequivoca(c.items), NEW v, NEW r, EsRegla(r), r.operador = NADA
  PROVE  LET antes == Evaluar(c, v, r)
             ahora == Evaluar(c, v, EnEscala(c, r))
         IN /\ antes.cumple # "nada" =>
                   ahora.cumple = antes.cumple /\ Gravedad(antes.estado) <= Gravedad(ahora.estado)
            /\ ~PorLlave(c, r) => ahora = antes
  <1> DEFINE s == EnEscala(c, r)
  <1>1. s.operador = NADA /\ ConOperador(c, s) = c /\ ConOperador(c, r) = c
    BY EnEscalaClaves DEF ConOperador
  <1>2. Presentes(s) = Presentes(r)
    BY EnEscalaPresentes
  <1> HIDE DEF s
  <1>3. "esperado" \notin Umbrales
    BY DEF Umbrales
  <1>4. /\ s.esperado = {} <=> r.esperado = {}
        /\ (\E u \in Umbrales : s[u] # NADA) <=> (\E u \in Umbrales : r[u] # NADA)
    BY <1>2, <1>3 DEF Presentes
  <1>5. Evaluar(c, v, r).cumple # "nada" => Gravedad(Evaluar(c, v, r).estado) \in 0..2
    BY EstadoConVeredicto
  <1>6. CASE r.esperado # {}
    <2>1. Evaluar(c, v, r) = PorEsperado(c, v, r) /\ Evaluar(c, v, s) = PorEsperado(c, v, s)
      BY <1>1, <1>4, <1>6 DEF Evaluar
    <2>2. /\ PorEsperado(c, v, r).cumple # "nada" => PorEsperado(c, v, s) = PorEsperado(c, v, r)
          /\ ~PorLlave(c, r) => PorEsperado(c, v, s) = PorEsperado(c, v, r)
      BY EsperadosTrasCanonico DEF s
    <2> QED BY <1>5, <2>1, <2>2 DEF s
  <1>7. CASE r.esperado = {} /\ \E u \in Umbrales : r[u] # NADA
    <2>1. Evaluar(c, v, r) = PorBandas(c, v, r) /\ Evaluar(c, v, s) = PorBandas(c, v, s)
      BY <1>1, <1>4, <1>7 DEF Evaluar
    <2>2. /\ PorBandas(c, v, r).cumple # "nada" =>
                  /\ PorBandas(c, v, s).cumple = PorBandas(c, v, r).cumple
                  /\ \/ PorBandas(c, v, s) = PorBandas(c, v, r)
                     \/ PorBandas(c, v, r).estado = "NO_DESEADO" /\ PorBandas(c, v, s).estado = "CRITICO"
          /\ ~PorLlave(c, r) => PorBandas(c, v, s) = PorBandas(c, v, r)
      BY BandasTrasCanonico DEF s
    <2>3. Gravedad("NO_DESEADO") <= Gravedad("CRITICO")
      BY DEF Gravedad
    <2> QED BY <1>5, <2>1, <2>2, <2>3 DEF s
  <1>8. CASE r.esperado = {} /\ ~\E u \in Umbrales : r[u] # NADA
    <2>1. Evaluar(c, v, s) = Evaluar(c, v, r)
      BY <1>1, <1>4, <1>8 DEF Evaluar
    <2> QED BY <1>5, <2>1 DEF s
  <1> QED BY <1>6, <1>7, <1>8

(* Written by their items, limits are written the same again. *)
LEMMA EnEscalaDosVeces ==
  ASSUME NEW c \in Campo, Inequivoca(c.items), NEW r, EsRegla(r)
  PROVE  EnEscala(c, EnEscala(c, r)) = EnEscala(c, r)
  <1> DEFINE s == EnEscala(c, r)  q == EnEscala(c, s)
  <1>1. EsRegla(s)
    BY EnEscalaClaves
  <1>2. \A u \in Cota : ValorCanonico(c, ValorCanonico(c, u)) = ValorCanonico(c, u)
    <2>1. ValorCanonico(c, NADA) = NADA
      BY DEF ValorCanonico
    <2> QED BY <2>1, HalladoTrasCanonico
  <1>3. /\ q.operador = s.operador /\ q.amarillo = s.amarillo
        /\ q.minCritico = s.minCritico /\ q.minAceptable = s.minAceptable
        /\ q.maxAceptable = s.maxAceptable /\ q.maxCritico = s.maxCritico
    <2>1. {r.minCritico, r.minAceptable, r.maxAceptable, r.maxCritico} \subseteq Cota
      BY DEF EsRegla
    <2>2. /\ s.minCritico = ValorCanonico(c, r.minCritico) /\ s.minAceptable = ValorCanonico(c, r.minAceptable)
          /\ s.maxAceptable = ValorCanonico(c, r.maxAceptable) /\ s.maxCritico = ValorCanonico(c, r.maxCritico)
      BY EnEscalaClaves
    <2>3. /\ q.operador = s.operador /\ q.amarillo = s.amarillo
          /\ q.minCritico = ValorCanonico(c, s.minCritico) /\ q.minAceptable = ValorCanonico(c, s.minAceptable)
          /\ q.maxAceptable = ValorCanonico(c, s.maxAceptable) /\ q.maxCritico = ValorCanonico(c, s.maxCritico)
      <3> HIDE DEF s
      <3> QED BY <1>1, EnEscalaClaves
    <2> HIDE DEF s, q
    <2> QED BY <1>2, <2>1, <2>2, <2>3
  <1>4. q.esperado = s.esperado
    <2>1. s.esperado = IF \E l \in r.esperado : r.esperado = {l}
                       THEN {ValorCanonico(c, l) : l \in r.esperado} ELSE r.esperado
      BY EnEscalaClaves
    <2>2. q.esperado = IF \E l \in s.esperado : s.esperado = {l}
                       THEN {ValorCanonico(c, l) : l \in s.esperado} ELSE s.esperado
      <3> HIDE DEF s
      <3> QED BY <1>1, EnEscalaClaves
    <2>3. r.esperado \subseteq Cota
      BY DEF EsRegla, Cota
    <2> HIDE DEF s, q
    <2>4. ASSUME NEW l \in r.esperado, r.esperado = {l} PROVE q.esperado = s.esperado
      <3>1. s.esperado = {ValorCanonico(c, l)}
        BY <2>1, <2>4
      <3>2. q.esperado = {ValorCanonico(c, ValorCanonico(c, l))}
        BY <2>2, <3>1
      <3> QED BY <1>2, <2>3, <3>1, <3>2
    <2>5. CASE ~\E l \in r.esperado : r.esperado = {l}
      BY <2>1, <2>2, <2>5
    <2> QED BY <2>4, <2>5
  <1>5. EsRegla(q)
    <2> HIDE DEF s
    <2> QED BY <1>1, EnEscalaClaves
  <1> HIDE DEF s, q
  <1>6. q = s
    BY <1>1, <1>3, <1>4, <1>5 DEF EsRegla
  <1> QED BY <1>6 DEF s, q

LEMMA CanonicaJuzgaIgual == TiposEvaluacion => VeredictoCanonico
  <1> DEFINE r == regla  c == campo  nueva == Canonica(c, r)
             Mejora(antes, ahora) ==
                 /\ antes.cumple # "nada" =>
                        /\ ahora.cumple = antes.cumple
                        /\ Gravedad(antes.estado) <= Gravedad(ahora.estado)
                 /\ ~PorLlave(c, r) => ahora = antes
  <1> SUFFICES ASSUME TiposEvaluacion, r # NADA, r.operador \in {NADA, c.operador},
                      c.operador \in {"min", "max", "between", "eq", "neq"},
                      Presentes(r) \subseteq Requeridos(c.operador, TRUE),
                      c.tipo = "escala" => Inequivoca(c.items)
               PROVE  /\ \A v \in Valor : Mejora(Evaluar(c, v, r), Evaluar(c, v, nueva))
                      /\ Canonica(c, nueva) = nueva
    BY DEF VeredictoCanonico
  <1> DEFINE a == IF c.operador \in {"eq", "neq"} THEN FALSE ELSE r.amarillo
             s == Reescrita(r, a)
  <1>1. EsRegla(r) /\ c \in Campo
    BY DEF TiposEvaluacion
  <1>2. /\ ClavesPropias(c, r) = s /\ EsRegla(s)
        /\ c.operador \in {"eq", "neq"} => \A u \in Umbrales : r[u] = NADA
    BY <1>1, ClavesDe, ClavesEsRegla
  <1>3. a \in BOOLEAN /\ (a = r.amarillo \/ \A u \in Umbrales : r[u] = NADA)
    BY <1>1, <1>2 DEF EsRegla
  <1>4. /\ s.operador = NADA /\ s.amarillo = a /\ s.esperado = r.esperado
        /\ \A u \in Umbrales : s[u] = r[u]
    BY DEF Reescrita, Umbrales
  <1>5. ASSUME NEW v PROVE Evaluar(c, v, s) = Evaluar(c, v, r)
    <2> HIDE DEF a
    <2> QED BY <1>1, <1>3, MismoVeredicto
  <1>6. ASSUME NEW q, EsRegla(q), q.operador = NADA, q.amarillo = a, Presentes(q) = Presentes(r)
        PROVE  ClavesPropias(c, q) = q
    <2>1. ClavesPropias(c, q) = Reescrita(q, IF c.operador \in {"eq", "neq"} THEN FALSE ELSE q.amarillo)
      BY <1>1, <1>6, ClavesDe
    <2> QED BY <1>6, <2>1 DEF Reescrita, EsRegla
  <1>7. Presentes(s) = Presentes(r)
    BY <1>4 DEF Presentes
  <1> HIDE DEF a, s
  <1>8. CASE c.tipo # "escala"
    <2>1. nueva = s
      BY <1>2, <1>8 DEF Canonica
    <2>2. Canonica(c, nueva) = nueva
      BY <1>2, <1>4, <1>6, <1>7, <1>8, <2>1 DEF Canonica
    <2>3. ASSUME NEW v \in Valor, Evaluar(c, v, s).cumple # "nada"
          PROVE  Gravedad(Evaluar(c, v, s).estado) \in 0..2
      BY <1>1, <1>4, <2>3, EstadoConVeredicto
    <2> HIDE DEF nueva
    <2>4. \A v \in Valor : Mejora(Evaluar(c, v, r), Evaluar(c, v, nueva))
      BY <1>5, <2>1, <2>3
    <2> QED BY <2>2, <2>4
  <1>9. CASE c.tipo = "escala"
    <2>1. nueva = EnEscala(c, s)
      BY <1>2, <1>9 DEF Canonica
    <2>2. PorLlave(c, s) <=> PorLlave(c, r)
      BY <1>4 DEF PorLlave
    <2>3. ASSUME NEW v \in Valor PROVE Mejora(Evaluar(c, v, r), Evaluar(c, v, nueva))
      <3>1. LET antes == Evaluar(c, v, s)
                ahora == Evaluar(c, v, EnEscala(c, s))
            IN /\ antes.cumple # "nada" =>
                      ahora.cumple = antes.cumple /\ Gravedad(antes.estado) <= Gravedad(ahora.estado)
               /\ ~PorLlave(c, s) => ahora = antes
        BY <1>1, <1>2, <1>4, <1>9, EscalaJuzgaIgual
      <3> HIDE DEF nueva
      <3> QED BY <1>5, <2>1, <2>2, <3>1
    <2>4. EsRegla(nueva) /\ nueva.operador = NADA /\ nueva.amarillo = a
      <3>1. LET t == EnEscala(c, s) IN EsRegla(t) /\ t.operador = s.operador /\ t.amarillo = s.amarillo
        BY <1>1, <1>2, EnEscalaClaves
      <3> HIDE DEF nueva
      <3> QED BY <1>4, <2>1, <3>1
    <2>5. Presentes(nueva) = Presentes(s)
      <3>1. Presentes(EnEscala(c, s)) = Presentes(s)
        BY <1>1, <1>2, EnEscalaPresentes
      <3> HIDE DEF nueva
      <3> QED BY <2>1, <3>1
    <2>6. ClavesPropias(c, nueva) = nueva
      <3> HIDE DEF nueva
      <3> QED BY <1>6, <1>7, <2>4, <2>5
    <2>7. Canonica(c, nueva) = EnEscala(c, nueva)
      BY <1>9, <2>6 DEF Canonica
    <2>8. EnEscala(c, EnEscala(c, s)) = EnEscala(c, s)
      BY <1>1, <1>2, <1>9, EnEscalaDosVeces
    <2> QED BY <2>1, <2>3, <2>7, <2>8
  <1> QED BY <1>8, <1>9

(* For any rule with the operator of its field and the keys it uses, and   *)
(* any scale where no text of an item reads as another, the reconciliation *)
(* takes no verdict away and makes none milder, changes none unless a      *)
(* limit was an id, and done again changes nothing                         *)
(* (limit_contract_reconciliation.py:41-108, limit_engine.py:613-748,      *)
(* 1097-1109).                                                             *)
THEOREM CanonicaSiempreJuzgaIgual == SpecEvaluacion => []VeredictoCanonico
  <1>1. Formadas => VeredictoCanonico
    BY CanonicaJuzgaIgual DEF Formadas
  <1> QED BY <1>1, FormadasInicio, FormadasPaso, PTL DEF SpecEvaluacion

-----------------------------------------------------------------------------
(* What a report prints of a verdict. *)

LEMMA BandasDeUmbrales ==
  ASSUME NEW c \in Campo, c.tipo = "numerica", NEW r, EsRegla(r), Aceptada(c, r), SoloLoSuyo(c, r),
         OperadorDe(c, r) \in {"min", "max", "between"}, NEW v \in Decimales
  PROVE  /\ EnAceptable(r, v.n) <=> Evaluar(c, v, r).estado = "NORMAL"
         /\ EnAlerta(r, v.n) <=> Evaluar(c, v, r).estado = "NO_DESEADO"
         /\ EnCritica(r, v.n) => Evaluar(c, v, r).estado = "CRITICO"
  <1>1. /\ Ordenada(r)
        /\ OperadorDe(c, r) \in {"min", "between"} <=> r.minAceptable # NADA
        /\ OperadorDe(c, r) \in {"max", "between"} <=> r.maxAceptable # NADA
        /\ r.minCritico # NADA => r.amarillo /\ r.minAceptable # NADA
        /\ r.maxCritico # NADA => r.amarillo /\ r.maxAceptable # NADA
        /\ \A x : Evaluar(c, x, r) = PorBandas(ConOperador(c, r), x, r)
        /\ ConOperador(c, r).tipo = "numerica"
    BY AceptadaDeUmbrales
  <1>2. Evaluar(c, v, r) = IF Alcanza(r, v.n) THEN Medicion("NORMAL", "si")
                           ELSE IF r.amarillo /\ ~Excede(r, v.n) THEN Medicion("NO_DESEADO", "no")
                           ELSE Medicion("CRITICO", "no")
    BY <1>1, BandaDeUmbrales
  <1>3. /\ Evaluar(c, v, r).estado = "NORMAL" <=> Alcanza(r, v.n)
        /\ Evaluar(c, v, r).estado = "NO_DESEADO" <=> ~Alcanza(r, v.n) /\ r.amarillo /\ ~Excede(r, v.n)
        /\ Evaluar(c, v, r).estado = "CRITICO" <=> ~Alcanza(r, v.n) /\ ~(r.amarillo /\ ~Excede(r, v.n))
    BY <1>2 DEF Medicion
  <1>4. v.n \in Int /\ \A u \in {r.minCritico, r.minAceptable, r.maxAceptable, r.maxCritico} :
                           u # NADA => u.n \in Int
    BY <1>1, DecimalEntero
  <1>5. r.amarillo => /\ r.minCritico # NADA /\ r.minAceptable # NADA => r.minCritico.n <= r.minAceptable.n
                      /\ r.maxCritico # NADA /\ r.maxAceptable # NADA => r.maxAceptable.n <= r.maxCritico.n
                      /\ r.minAceptable # NADA /\ r.maxAceptable # NADA => r.minAceptable.n <= r.maxAceptable.n
    BY <1>1, CriticosFuera
  <1>6. EnAceptable(r, v.n) <=> Alcanza(r, v.n)
    BY <1>1 DEF EnAceptable, Alcanza
  <1>7. EnCritica(r, v.n) => ~Alcanza(r, v.n) /\ Excede(r, v.n)
    BY <1>1, <1>4, <1>5 DEF EnCritica, Alcanza, Excede
  <1>8. r.amarillo => /\ r.minAceptable # NADA => r.minCritico # NADA
                      /\ r.maxAceptable # NADA => r.maxCritico # NADA
    BY AceptadaDeUmbrales
  <1>9. EnAlerta(r, v.n) <=> ~Alcanza(r, v.n) /\ r.amarillo /\ ~Excede(r, v.n)
    BY <1>1, <1>4, <1>5, <1>8 DEF EnAlerta, Hueco, Alcanza, Excede
  <1> QED BY <1>3, <1>6, <1>7, <1>9

(* A rule that compares with one value. *)
LEMMA BandasDeUnValor ==
  ASSUME NEW c \in Campo, c.tipo = "numerica", NEW r, EsRegla(r), Aceptada(c, r), SoloLoSuyo(c, r),
         OperadorDe(c, r) = "eq", Cardinality(r.esperado) <= 1, NEW v \in Decimales
  PROVE  /\ EnAceptable(r, v.n) <=> Evaluar(c, v, r).estado = "NORMAL"
         /\ EnAlerta(r, v.n) <=> Evaluar(c, v, r).estado = "NO_DESEADO"
         /\ EnCritica(r, v.n) => Evaluar(c, v, r).estado = "CRITICO"
  <1> DEFINE d == ConOperador(c, r)
  <1>1. Requeridos("eq", r.amarillo) = {"esperado"}
    BY DEF Requeridos
  <1>2. "esperado" \in Presentes(r) /\ Presentes(r) \subseteq {"esperado"}
    BY <1>1 DEF Aceptada, SoloLoSuyo
  <1>3. r.esperado # {} /\ r["minAceptable"] = NADA /\ r["maxAceptable"] = NADA
        /\ r["minCritico"] = NADA /\ r["maxCritico"] = NADA
    BY <1>2 DEF Presentes, Umbrales
  <1>4. PICK l \in Valor : r.esperado = {l}
    <2>1. Cardinality(r.esperado) \in Nat /\ Cardinality(r.esperado) # 0
      BY <1>3, FS_CardinalityType, FS_EmptySet DEF EsRegla
    <2>2. Cardinality(r.esperado) = 1
      BY <2>1
    <2> QED BY <2>2, FS_Singleton DEF EsRegla
  <1>5. d.tipo = "numerica" /\ d.operador = "eq"
    BY DEF ConOperador, OperadorDe, Campo
  <1>6. v \in Valor /\ v.n \in Int /\ l.n \in Int /\ v.forma = "punto"
    BY NumerosEnteros DEF Decimales, EsDecimal, Valor
  <1>7. ComparaConTipo(d, v, {l}) = Compara("eq", v, {l})
    BY <1>5 DEF ComparaConTipo
  <1>8. Compara("eq", v, {l}) = Si(EsNumero(l) /\ v.n = l.n)
    <2>1. CASE EsNumero(l)
      <3>1. EsNumero(v) /\ \E x \in {l} : {l} = {x} /\ EsNumero(x)
        BY <1>6, <2>1 DEF EsNumero
      <3>2. (CHOOSE x \in {l} : TRUE) = l
        OBVIOUS
      <3>3. Compara("eq", v, {l}) = ComparaNumeros("eq", v.n, l.n)
        BY <3>1, <3>2 DEF Compara
      <3> QED BY <2>1, <3>3 DEF ComparaNumeros, Si
    <2>2. CASE ~EsNumero(l)
      <3>1. Compara("eq", v, {l}) = ComparaTextos("eq", v, {l})
        BY <2>2 DEF Compara
      <3>2. v # l
        BY <1>6, <2>2 DEF EsNumero
      <3> QED BY <2>2, <3>1, <3>2 DEF ComparaTextos, Si
    <2> QED BY <2>1, <2>2
  <1>9. Evaluar(c, v, r) = PorEsperado(d, v, r)
    BY <1>3 DEF Evaluar
  <1>10. Evaluar(c, v, r) = IF EsNumero(l) /\ v.n = l.n THEN Medicion("NORMAL", "si") ELSE Medicion("CRITICO", "no")
    BY <1>4, <1>7, <1>8, <1>9 DEF PorEsperado, Si
  <1>11. EnAceptable(r, v.n) <=> EsNumero(l) /\ v.n = l.n
    BY <1>3, <1>4 DEF EnAceptable
  <1>12. ~EnAlerta(r, v.n) /\ ~EnCritica(r, v.n)
    BY <1>3 DEF EnAlerta, Hueco, EnCritica
  <1> QED BY <1>10, <1>11, <1>12 DEF Medicion

LEMMA BandasSiempreFieles == TiposEvaluacion => BandasFieles
  BY BandasDeUmbrales, BandasDeUnValor DEF TiposEvaluacion, BandasFieles

-----------------------------------------------------------------------------
(* The row of a result. *)

LEMMA OrdenCompleto ==
  ASSUME NEW orden \in SetToSeqs(Resultados), NEW g \in Resultados
  PROVE  \E i \in DOMAIN orden : orden[i] = g /\ \A j \in DOMAIN orden : orden[j] = g => j = i
  <1> DEFINE n == Cardinality(Resultados)
  <1>1. n \in Nat
    BY ResultadosFinitos, FS_CardinalityType
  <1> HIDE DEF n
  <1>2. orden \in [1..n -> Resultados] /\ \A i, j \in 1..n : i # j => orden[i] # orden[j]
    BY DEF SetToSeqs, n
  <1>3. orden \in Injection(1..n, Resultados)
    BY <1>2 DEF Injection, IsInjective
  <1>4. Cardinality(1..n) = n
    <2>1. Cardinality(1..n) = IF 1 > n THEN 0 ELSE n - 1 + 1
      BY <1>1, FS_Interval
    <2> QED BY <1>1, <2>1
  <1>5. orden \in Surjection(1..n, Resultados)
    BY <1>3, <1>4, ResultadosFinitos, FS_Injection DEF n
  <1>6. PICK i \in 1..n : orden[i] = g
    BY <1>5 DEF Surjection
  <1> QED BY <1>2, <1>6

(* When the names differ, a result has its own outcome. *)
LEMMA SuDesenlace ==
  ASSUME NEW es, NEW orden \in SetToSeqs(Resultados), NEW g \in Resultados, DelResultado(es, g) # {}
  PROVE  DesenlaceDe(es, g, orden, [x \in Resultados |-> x]) = g
  <1> DEFINE nombre == [x \in Resultados |-> x]
             candidatos == {j \in DOMAIN orden : /\ DelResultado(es, orden[j]) # {}
                                                 /\ orden[j] = g \/ nombre[orden[j]] = nombre[g]}
  <1>1. PICK i \in DOMAIN orden : orden[i] = g /\ \A j \in DOMAIN orden : orden[j] = g => j = i
    BY OrdenCompleto
  <1>2. \A j \in DOMAIN orden : orden[j] \in Resultados /\ j \in Int
    BY ResultadosFinitos, FS_CardinalityType DEF SetToSeqs
  <1>3. candidatos = {i}
    BY <1>1, <1>2
  <1> HIDE DEF candidatos
  <1>4. Min(candidatos) = i
    BY <1>2, <1>3 DEF Min
  <1> QED BY <1>1, <1>4 DEF DesenlaceDe, candidatos

LEMMA PeoresNoMejora ==
  ASSUME NEW estados, NEW x \in estados, NEW otro
  PROVE  Escalon(x) <= Escalon(Peores(estados, otro))
  <1>1. CASE "CRITICO" \in estados
    BY <1>1 DEF Peores, Escalon
  <1>2. CASE "CRITICO" \notin estados /\ "ALERTA" \in estados
    <2>1. Peores(estados, otro) = "ALERTA" /\ x # "CRITICO"
      BY <1>2 DEF Peores
    <2> QED BY <2>1 DEF Escalon
  <1>3. CASE "CRITICO" \notin estados /\ "ALERTA" \notin estados
    <2>1. Escalon(x) = 0
      BY <1>3 DEF Escalon
    <2>2. \A y : Escalon(y) \in {0, 1, 2}
      BY DEF Escalon
    <2> QED BY <2>1, <2>2
  <1> QED BY <1>1, <1>2, <1>3

LEMMA FilaNuncaMejora == Formadas => FilaNoMejora
  <1> DEFINE es == evaluaciones  nombre == [x \in Resultados |-> x]
  <1> SUFFICES ASSUME Formadas, NEW orden \in SetToSeqs(Resultados), NEW e \in Comparables(es)
               PROVE  Escalon(EstadoImpreso(e.estado, e.cumple))
                          <= Escalon(EstadoDeFila(es, e.resultado, orden, nombre))
    BY DEF FilaNoMejora
  <1> DEFINE g == e.resultado  suyas == DelResultado(es, g)
  <1>1. e \in es /\ e \in Evaluacion /\ Posible(e) /\ g \in Resultados /\ e \in suyas
    BY DEF Formadas, TiposEvaluacion, Comparables, DelResultado, Evaluacion
  <1>2. CASE FaltaInformacion(es)
    <2>1. EstadoDeFila(es, g, orden, nombre) = DeSusCampos(es, g)
      BY <1>2 DEF EstadoDeFila
    <2>2. EstadoImpreso(e.estado, e.cumple) \in {EstadoImpreso(x.estado, x.cumple) : x \in suyas}
      BY <1>1
    <2> QED BY <2>1, <2>2, PeoresNoMejora DEF DeSusCampos
  <1>3. CASE ~FaltaInformacion(es)
    <2>1. suyas # {}
      BY <1>1
    <2>2. EstadoDeFila(es, g, orden, nombre) = EstadoImpreso(Plano(suyas), "nada")
      BY <1>1, <1>3, <2>1, SuDesenlace DEF EstadoDeFila
    <2>3. /\ suyas \in SUBSET Evaluacion /\ (\A x \in suyas : Posible(x)) /\ ~FaltaInformacion(suyas)
          /\ e \in Comparables(suyas)
      BY <1>1, <1>3 DEF Formadas, TiposEvaluacion, DelResultado, FaltaInformacion, Comparables
    <2>4. /\ Plano(suyas) = "CRITICO" <=> Rojas(suyas) # {}
          /\ Plano(suyas) = "NO_DESEADO" <=> Rojas(suyas) = {} /\ Amarillas(suyas) # {}
      BY <2>3, PlanoDe
    <2>5. CASE e.estado \in {"CRITICO", "FUERA_DE_LIMITE"}
      <3>1. Plano(suyas) = "CRITICO"
        BY <2>3, <2>4, <2>5 DEF Rojas
      <3> QED BY <2>2, <2>5, <3>1 DEF EstadoImpreso, Escalon
    <2>6. CASE e.estado = "NO_DESEADO"
      <3>1. Plano(suyas) \in {"CRITICO", "NO_DESEADO"}
        BY <2>3, <2>4, <2>6 DEF Amarillas
      <3> QED BY <2>2, <2>6, <3>1 DEF EstadoImpreso, Escalon
    <2>7. CASE e.estado = "NORMAL"
      <3>1. Escalon(EstadoImpreso(e.estado, e.cumple)) = 0
        BY <2>7 DEF EstadoImpreso, Escalon
      <3>2. \A y : Escalon(y) \in {0, 1, 2}
        BY DEF Escalon
      <3> QED BY <3>1, <3>2
    <2>8. e.estado \in {"CRITICO", "FUERA_DE_LIMITE", "NO_DESEADO", "NORMAL"}
      BY <1>1 DEF Posible, Evaluacion, Comparables
    <2> QED BY <2>5, <2>6, <2>7, <2>8
  <1> QED BY <1>2, <1>3

(* For any numbers, thresholds, results and fields, the bands a report     *)
(* prints agree with the verdict, and the row of a result is never milder  *)
(* than a field of it that counts (index.py:430-494 and :1841-1888).       *)
THEOREM ImpresoSiempreFiel == SpecEvaluacion => []ImpresoFiel
  <1>1. Formadas => ImpresoFiel
    BY BandasSiempreFieles, FilaNuncaMejora DEF Formadas, ImpresoFiel
  <1> QED BY <1>1, FormadasInicio, FormadasPaso, PTL DEF SpecEvaluacion

-----------------------------------------------------------------------------
(* The rows of the reports are a sequence, whatever they hold. *)
EsSecuencia(s) == \E S : s \in Seq(S)

(* A report is signed with nothing or with a file that is stored: were it  *)
(* to name a file still to come, that file would change the document.      *)
FirmasGuardadas ==
    /\ archivos \in Nat
    /\ predeterminada \in {NADA} \cup 1..archivos
    /\ EsSecuencia(informes)
    /\ \A i \in DOMAIN informes : informes[i].firma \in {NADA} \cup 1..archivos

LEMMA ListaDe ==
  ASSUME NEW S, IsFiniteSet(S)
  PROVE  SetToSeq(S) \in Seq(S)
  <1> DEFINE n == Cardinality(S)
  <1>1. n \in Nat /\ ExistsBijection(1..n, S)
    BY FS_CardinalityType
  <1>2. PICK f \in [1..n -> S] : IsInjective(f)
    BY <1>1 DEF ExistsBijection, Bijection, Injection, Surjection, IsInjective
  <1>3. SetToSeq(S) \in [1..n -> S]
    BY <1>2 DEF SetToSeq
  <1> HIDE DEF n
  <1> QED BY <1>1, <1>3

LEMMA FilasFinitas ==
  ASSUME NEW ms, IsFiniteSet(ms), NEW firmas
  PROVE  IsFiniteSet({Fila(m, firmas[m]) : m \in ms})
  <1> DEFINE T == {Fila(m, firmas[m]) : m \in ms}
             f == [m \in ms |-> Fila(m, firmas[m])]
  <1>1. f \in [ms -> T] /\ \A t \in T : \E m \in ms : f[m] = t
    OBVIOUS
  <1>2. f \in Surjection(ms, T)
    BY <1>1 DEF Surjection
  <1> HIDE DEF T, f
  <1>3. IsFiniteSet(T)
    BY <1>2, FS_Surjection
  <1> QED BY <1>3 DEF T

(* Reports are added at the end, and the rows there were stay. *)
LEMMA Anadidos ==
  ASSUME NEW s, EsSecuencia(s), NEW T, NEW t \in Seq(T)
  PROVE  /\ EsSecuencia(s \o t)
         /\ \A i \in DOMAIN s : i \in DOMAIN (s \o t) /\ (s \o t)[i] = s[i]
         /\ \A i \in DOMAIN (s \o t) : i \in DOMAIN s \/ (s \o t)[i] \in T
  <1>1. PICK S : s \in Seq(S)
    BY DEF EsSecuencia
  <1>2. s \in Seq(S \cup T) /\ t \in Seq(S \cup T)
    BY <1>1
  <1>3. s \o t \in Seq(S \cup T)
    BY <1>2
  <1>4. \A i \in DOMAIN s : i \in DOMAIN (s \o t) /\ (s \o t)[i] = s[i]
    BY <1>2
  <1>5. ASSUME NEW i \in DOMAIN (s \o t), i \notin DOMAIN s PROVE (s \o t)[i] \in T
    <2>1. i \in 1..(Len(s) + Len(t)) /\ DOMAIN s = 1..Len(s) /\ Len(s) \in Nat /\ Len(t) \in Nat
      BY <1>2
    <2>2. i - Len(s) \in 1..Len(t) /\ (s \o t)[i] = t[i - Len(s)]
      BY <1>2, <1>5, <2>1
    <2> QED BY <2>2
  <1> QED BY <1>3, <1>4, <1>5 DEF EsSecuencia

(* What a request signs with is stored when the request ends. *)
LEMMA FirmasExisten ==
  ASSUME FirmasGuardadas, NEW ms \in SUBSET Muestras, NEW firmas \in [ms -> {NADA} \cup 1..MaxArchivos],
         Firmas(firmas)
  PROVE  /\ archivos' \in Nat /\ archivos <= archivos'
         /\ \A m \in ms : firmas[m] \in {NADA} \cup 1..archivos'
  <1>1. DOMAIN firmas = ms /\ IsFiniteSet(ms) /\ Cardinality(ms) \in Nat
    BY LoteFinito, FS_Subset, FS_CardinalityType
  <1>2. CASE archivos' = archivos
             /\ firmas \in {[m \in DOMAIN firmas |-> f] : f \in {NADA, predeterminada} \cup 1..archivos}
    BY <1>1, <1>2 DEF FirmasGuardadas
  <1>3. CASE /\ archivos' = archivos + Cardinality(DOMAIN firmas)
             /\ firmas = [m \in DOMAIN firmas |-> archivos + Cardinality({x \in DOMAIN firmas : x <= m})]
    <2>1. archivos \in Nat /\ archivos' = archivos + Cardinality(ms) /\ archivos' \in Nat
      BY <1>1, <1>3 DEF FirmasGuardadas
    <2>2. ASSUME NEW m \in ms PROVE firmas[m] \in {NADA} \cup 1..archivos'
      <3>1. {x \in ms : x <= m} \in SUBSET ms
        OBVIOUS
      <3>2. Cardinality({x \in ms : x <= m}) \in Nat /\ Cardinality({x \in ms : x <= m}) <= Cardinality(ms)
        BY <1>1, <3>1, FS_Subset, FS_CardinalityType
      <3>3. firmas[m] = archivos + Cardinality({x \in ms : x <= m})
        BY <1>1, <1>3
      <3>4. firmas[m] \in {NADA} \cup 1..MaxArchivos
        OBVIOUS
      <3>5. firmas[m] \in Nat /\ firmas[m] <= archivos'
        <4>1. PICK c \in Nat, d \in Nat : firmas[m] = archivos + c /\ archivos' = archivos + d /\ c <= d
          BY <1>1, <2>1, <3>2, <3>3
        <4> QED BY <2>1, <4>1
      <3>6. firmas[m] \in 1..MaxArchivos
        BY <3>4, <3>5, NadaSinArchivo
      <3>7. firmas[m] \in 1..archivos'
        BY <2>1, <3>5, <3>6, LoteFinito
      <3> QED BY <3>7
    <2> QED BY <1>1, <2>1, <2>2
  <1> QED BY <1>2, <1>3 DEF Firmas

-----------------------------------------------------------------------------
(* What a request does to the reports: rows are added, signed with files   *)
(* there are by then, and no file goes.                                    *)
Sigue ==
    /\ archivos' \in Nat /\ archivos <= archivos'
    /\ \A i \in DOMAIN informes : i \in DOMAIN informes' /\ informes'[i] = informes[i]
    /\ EsSecuencia(informes')
    /\ \A i \in DOMAIN informes' \ DOMAIN informes : informes'[i].firma \in {NADA} \cup 1..archivos'
    /\ predeterminada' \in {NADA} \cup 1..archivos'

LEMMA EmitirSigue ==
  ASSUME FirmasGuardadas, NEW ms \in SUBSET Muestras, Emitir(ms)
  PROVE  Sigue
  <1>1. PICK firmas \in [ms -> {NADA} \cup 1..MaxArchivos] :
            Firmas(firmas) /\ informes' = informes \o SetToSeq({Fila(m, firmas[m]) : m \in ms})
    BY DEF Emitir
  <1> DEFINE T == {Fila(m, firmas[m]) : m \in ms}
  <1>2. archivos' \in Nat /\ archivos <= archivos' /\ \A m \in ms : firmas[m] \in {NADA} \cup 1..archivos'
    BY <1>1, FirmasExisten
  <1>3. \A fila \in T : fila.firma \in {NADA} \cup 1..archivos'
    BY <1>2 DEF Fila
  <1>4. IsFiniteSet(T)
    BY LoteFinito, FS_Subset, FilasFinitas
  <1> HIDE DEF T
  <1>5. SetToSeq(T) \in Seq(T)
    BY <1>4, ListaDe
  <1>6. /\ EsSecuencia(informes')
        /\ \A i \in DOMAIN informes : i \in DOMAIN informes' /\ informes'[i] = informes[i]
        /\ \A i \in DOMAIN informes' : i \in DOMAIN informes \/ informes'[i] \in T
    BY <1>1, <1>5, Anadidos DEF FirmasGuardadas, T
  <1>7. predeterminada' \in {NADA} \cup 1..archivos'
    BY <1>2 DEF Emitir, FirmasGuardadas
  <1> QED BY <1>2, <1>3, <1>6, <1>7 DEF Sigue

LEMMA PasoSigue == FirmasGuardadas /\ [NextDocumento]_varsDocumento => Sigue
  <1> SUFFICES ASSUME FirmasGuardadas, [NextDocumento]_varsDocumento PROVE Sigue
    OBVIOUS
  <1>1. ASSUME UNCHANGED <<archivos, predeterminada, informes>> PROVE Sigue
    BY <1>1 DEF Sigue, FirmasGuardadas
  <1>2. ASSUME NEW m \in Muestras, EmitirUno(m) PROVE Sigue
    BY <1>2, EmitirSigue DEF EmitirUno
  <1>3. CASE EmitirLote
    BY <1>3, EmitirSigue DEF EmitirLote
  <1>4. CASE SubirFirma
    BY <1>4 DEF SubirFirma, GuardarArchivo, Sigue, FirmasGuardadas
  <1>5. ASSUME NEW f \in {NADA} \cup 1..MaxArchivos, CambiarPredeterminada(f) PROVE Sigue
    BY <1>5 DEF CambiarPredeterminada, GuardarArchivo, Sigue, FirmasGuardadas
  <1>6. ASSUME EnLaboratorio PROVE Sigue
    BY <1>1, <1>6 DEF EnLaboratorio
  <1>7. CASE NextDocumento
    BY <1>2, <1>3, <1>4, <1>5, <1>6, <1>7
       DEF NextDocumento, RegistrarResultado, CambiarAsignacion, CambiarLimites, Archivar, Interpretar
  <1>8. CASE UNCHANGED varsDocumento
    BY <1>1, <1>8 DEF varsDocumento
  <1> QED BY <1>7, <1>8

LEMMA FirmasPaso == FirmasGuardadas /\ [NextDocumento]_varsDocumento => FirmasGuardadas'
  <1> SUFFICES ASSUME FirmasGuardadas, Sigue PROVE FirmasGuardadas'
    BY PasoSigue
  <1>1. \A x \in {NADA} \cup 1..archivos : x \in {NADA} \cup 1..archivos'
    BY DEF Sigue, FirmasGuardadas
  <1>2. \A i \in DOMAIN informes' : informes'[i].firma \in {NADA} \cup 1..archivos'
    BY <1>1 DEF Sigue, FirmasGuardadas
  <1> QED BY <1>2 DEF Sigue, FirmasGuardadas

LEMMA FirmasInicio == InitDocumento => FirmasGuardadas
  <1> SUFFICES ASSUME InitDocumento PROVE FirmasGuardadas
    OBVIOUS
  <1>1. EsSecuencia(informes)
    BY DEF InitDocumento, EsSecuencia
  <1> QED BY <1>1 DEF InitDocumento, FirmasGuardadas

LEMMA DocumentoIgual ==
  ASSUME FirmasGuardadas, Sigue, NEW i \in DOMAIN informes
  PROVE  Documento(i)' = Documento(i)
  <1>1. informes'[i] = informes[i] /\ informes[i].firma \in {NADA} \cup 1..archivos
    BY DEF Sigue, FirmasGuardadas
  <1>2. informes[i].firma \in 1..archivos <=> informes[i].firma \in 1..archivos'
    BY <1>1, NadaSinArchivo DEF Sigue, FirmasGuardadas
  <1> QED BY <1>1, <1>2 DEF Documento

(* The document of a report that is out stays as it was, through every     *)
(* later result, change of limits, place, interpretation, default          *)
(* signature and report (index.py:846-972 and :1929-2008).                 *)
THEOREM DocumentoSiempreConservado == SpecDocumento => DocumentoConservado
  <1>1. FirmasGuardadas /\ [NextDocumento]_varsDocumento
        => [\A i \in DOMAIN informes : Documento(i)' = Documento(i)]_varsDocumento
    BY PasoSigue, DocumentoIgual
  <1> QED BY <1>1, FirmasInicio, FirmasPaso, PTL DEF SpecDocumento, DocumentoConservado

-----------------------------------------------------------------------------
(* The tables the documents are made from.                                 *)
LEMMA EmitirDeMuestras ==
  ASSUME TiposDocumento, FirmasGuardadas, NEW ms \in SUBSET Muestras, Emitir(ms)
  PROVE  \A i \in DOMAIN informes' : informes'[i].muestra \in Muestras
  <1>1. PICK firmas \in [ms -> {NADA} \cup 1..MaxArchivos] :
            informes' = informes \o SetToSeq({Fila(m, firmas[m]) : m \in ms})
    BY DEF Emitir
  <1> DEFINE T == {Fila(m, firmas[m]) : m \in ms}
  <1>2. \A t \in T : t.muestra \in Muestras
    BY DEF Fila
  <1>3. IsFiniteSet(T)
    BY LoteFinito, FS_Subset, FilasFinitas
  <1> HIDE DEF T
  <1>4. SetToSeq(T) \in Seq(T)
    BY <1>3, ListaDe
  <1>5. /\ \A i \in DOMAIN informes : informes'[i] = informes[i]
        /\ \A i \in DOMAIN informes' : i \in DOMAIN informes \/ informes'[i] \in T
    BY <1>1, <1>4, Anadidos DEF FirmasGuardadas, T
  <1> QED BY <1>2, <1>5 DEF TiposDocumento

LEMMA TiposDocumentoPaso ==
  TiposDocumento /\ FirmasGuardadas /\ [NextDocumento]_varsDocumento => TiposDocumento'
  <1> SUFFICES ASSUME TiposDocumento, FirmasGuardadas, [NextDocumento]_varsDocumento
               PROVE  TiposDocumento'
    OBVIOUS
  <1>1. predeterminada' \in {NADA} \cup 1..archivos'
    BY PasoSigue DEF Sigue
  <1>2. ASSUME NEW ms \in SUBSET Muestras, Emitir(ms) PROVE TiposDocumento'
    <2>1. UNCHANGED varsLaboratorio
      BY <1>2 DEF Emitir
    <2>2. \A i \in DOMAIN informes' : informes'[i].muestra \in Muestras
      BY <1>2, EmitirDeMuestras
    <2> QED BY <1>1, <2>1, <2>2 DEF TiposDocumento, varsLaboratorio
  <1>3. ASSUME UNCHANGED <<varsLaboratorio, informes>> PROVE TiposDocumento'
    BY <1>1, <1>3 DEF TiposDocumento, varsLaboratorio
  <1>4. ASSUME EnLaboratorio, medida' \in [Muestras -> Numeros \cup {NADA}],
               confirmadas' \subseteq Muestras, lugar' \in [Muestras -> Sitios]
        PROVE  TiposDocumento'
    BY <1>1, <1>4 DEF TiposDocumento, EnLaboratorio
  <1>5. ASSUME NEW m \in Muestras, NEW v \in Numeros, RegistrarResultado(m, v) PROVE TiposDocumento'
    BY <1>4, <1>5 DEF RegistrarResultado, TiposDocumento
  <1>6. ASSUME NEW m \in Muestras, CambiarAsignacion(m) PROVE TiposDocumento'
    BY <1>4, <1>6 DEF CambiarAsignacion, TiposDocumento
  <1>7. CASE CambiarLimites
    BY <1>4, <1>7 DEF CambiarLimites, TiposDocumento
  <1>8. ASSUME NEW m \in Muestras, NEW l \in Sitios, Archivar(m, l) PROVE TiposDocumento'
    BY <1>4, <1>8 DEF Archivar, TiposDocumento
  <1>9. ASSUME NEW m \in Muestras, NEW t, NEW g, Interpretar(m, t, g) PROVE TiposDocumento'
    BY <1>4, <1>9 DEF Interpretar, TiposDocumento
  <1>10. CASE SubirFirma \/ (\E f \in {NADA} \cup 1..MaxArchivos : CambiarPredeterminada(f))
    BY <1>3, <1>10 DEF SubirFirma, CambiarPredeterminada
  <1>11. CASE UNCHANGED varsDocumento
    BY <1>3, <1>11 DEF varsDocumento, varsLaboratorio
  <1>12. CASE NextDocumento
    BY <1>2, <1>5, <1>6, <1>7, <1>8, <1>9, <1>10, <1>12 DEF NextDocumento, EmitirUno, EmitirLote
  <1> QED BY <1>11, <1>12

(* Values, places and signatures keep their types, and every report is of  *)
(* a sample of the batch.                                                  *)
THEOREM DocumentoTipado == SpecDocumento => []TiposDocumento
  <1>1. InitDocumento => TiposDocumento
    BY HaySitios DEF InitDocumento, TiposDocumento
  <1> QED BY <1>1, TiposDocumentoPaso, FirmasInicio, FirmasPaso, PTL DEF SpecDocumento
=============================================================================
