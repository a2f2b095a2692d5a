----------------------------- MODULE Evaluacion -----------------------------
(***************************************************************************)
(* How a result is judged: muestras/api/services/limit_engine.py compares  *)
(* one value with the rule of one field, evaluation_rules.py sums up the   *)
(* fields of a test, and _validate_semaphore_rule of the configuration     *)
(* view decides which rules may be saved.                                  *)
(*                                                                         *)
(* A text the user types is a record: a number written with a point, the   *)
(* same number written with a comma, or a word.  The words 0 and 1 are the *)
(* labels of a yes/no field.  A scale is a list of items, in their places, *)
(* and each item is three texts: its id, its label, and the value its      *)
(* label was normalised to, which the scale has once.                      *)
(***************************************************************************)
EXTENDS Integers, FiniteSets

CONSTANTS Numeros,    \* the numbers results and limits are written with
          Escala,     \* the places of the items of a scale
          Escalas,    \* the scales a field may be compared on
          Resultados, \* the results a test groups its fields in
          NADA        \* a key the rule lacks, a value that is not there

ASSUME NumerosEnteros == Numeros \subseteq Int
ASSUME ResultadosFinitos == IsFiniteSet(Resultados)

VARIABLES campo,        \* the field: its comparison and operator
          regla,        \* the rule saved for it, NADA before any
          evaluaciones  \* what the fields of a test were evaluated to

varsEvaluacion == <<campo, regla, evaluaciones>>

Valor == [forma : {"punto", "coma", "palabra"}, n : Numeros]

(* normalize_scale_token: a comma between digits is written as a point is. *)
Normal(v) == IF v.forma = "coma" THEN [v EXCEPT !.forma = "punto"] ELSE v

Item == [llave : Valor, etiqueta : Valor, valor : {v \in Valor : v.forma # "coma"}]
Palabras(i) == {i.llave, i.etiqueta, i.valor}

ASSUME EscalasDeItems == Escala \subseteq Int /\ Escalas \subseteq [Escala -> Item]
ASSUME HayPrimero ==     \* a scale has finitely many items
    \A lugares \in SUBSET Escala :
        lugares # {} => \E j \in lugares : \A k \in lugares : j <= k
ASSUME NadaAparte == NADA \notin Numeros \cup Valor

(* str() of a dict given as a limit: a word that equals no value. *)
Ilegible == [forma |-> "palabra", n |-> NADA]

Operadores == {"max", "min", "between", "eq", "neq", "in", "not_in", "informativo"}
Umbrales == {"minCritico", "minAceptable", "maxAceptable", "maxCritico"}

Comparaciones == {"numerica", "booleano", "escala"}
Campo == [tipo : Comparaciones, operador : Operadores, items : Escalas]

(* esperado is the list the cell holds, one value most of the time. *)
Cota == Valor \cup {NADA, Ilegible}
EsRegla(r) ==
    /\ r \in [operador : Operadores \cup {NADA}, amarillo : BOOLEAN, esperado : SUBSET Valor,
             minCritico : Cota, minAceptable : Cota, maxAceptable : Cota, maxCritico : Cota]
    /\ IsFiniteSet(r.esperado)

Mediciones == [estado : {"NORMAL", "NO_DESEADO", "CRITICO", "FUERA_DE_LIMITE", "NO_EVALUABLE"},
               cumple : {"si", "no", "nada"}]

Si(condicion) == IF condicion THEN "si" ELSE "no"

(* Decimal(str(v)); _evaluate replaces the comma first. *)
EsDecimal(v) == v.forma = "punto"
EsNumero(v) == v.forma \in {"punto", "coma"}

(* A list is split at its commas: a number written with one is in no list. *)
EnLista(v, lista) == v.forma # "coma" /\ v \in lista

ComparaNumeros(op, a, b) ==
    CASE op = "max" -> Si(a <= b)
      [] op = "min" -> Si(a >= b)
      [] op = "eq"  -> Si(a = b)
      [] op = "neq" -> Si(a # b)
      [] OTHER      -> "nada"

ComparaTextos(op, v, lista) ==
    CASE op = "eq"     -> Si(lista = {v})
      [] op = "neq"    -> Si(lista # {v})
      [] op = "in"     -> Si(EnLista(v, lista))
      [] op = "not_in" -> Si(~EnLista(v, lista))
      [] OTHER         -> "nada"

Compara(op, v, lista) ==
    IF EsNumero(v) /\ \E l \in lista : lista = {l} /\ EsNumero(l)
    THEN LET l == CHOOSE x \in lista : TRUE IN ComparaNumeros(op, v.n, l.n)
    ELSE ComparaTextos(op, v, lista)

(* The yes/no a text stands for. *)
Booleano(v) ==
    IF v.forma # "coma" /\ v.n \in {0, 1} THEN Si(v.n = 1) ELSE "nada"

ComparaBooleanos(op, v, lista) ==
    LET b == CHOOSE x \in {"si", "no", "nada"} :
                 x = IF Cardinality(lista) = 1 THEN Booleano(CHOOSE l \in lista : TRUE) ELSE "nada"
    IN IF "nada" \in {Booleano(v), b} THEN "nada"
       ELSE Si((Booleano(v) = b) = (op # "neq"))

Primero(lugares) == CHOOSE j \in lugares : \A k \in lugares : j <= k

(* _find_scale_item: by the value it normalises to, else by its label. *)
Hallados(c, v) ==
    LET conValor == {j \in Escala : c.items[j].valor = Normal(v)}
    IN IF conValor # {} THEN conValor ELSE {j \in Escala : c.items[j].etiqueta = v}

(* Any other operator of a scale asks for the same place in it. *)
ComparaEnEscala(c, op, v, lista) ==
    IF Hallados(c, v) # {} /\ \E l \in lista : lista = {l} /\ Hallados(c, l) # {}
    THEN LET l == CHOOSE x \in lista : TRUE
         IN ComparaNumeros(IF op \in {"max", "min", "neq"} THEN op ELSE "eq",
                           Primero(Hallados(c, v)), Primero(Hallados(c, l)))
    ELSE "nada"

(* _evaluate_typed *)
ComparaConTipo(c, v, lista) ==
    CASE c.operador = "informativo" -> "nada"
      [] c.operador # "informativo" /\ c.tipo = "booleano" -> ComparaBooleanos(c.operador, v, lista)
      [] c.operador # "informativo" /\ c.tipo = "escala" -> ComparaEnEscala(c, c.operador, v, lista)
      [] c.operador # "informativo" /\ c.tipo = "numerica" -> Compara(c.operador, v, lista)

Medicion(estado, cumple) == [estado |-> estado, cumple |-> cumple]
NoEvaluable == Medicion("NO_EVALUABLE", "nada")

(* One threshold, "nada" when value or threshold cannot be placed. *)
Umbral(c, op, v, u) ==
    IF u = NADA THEN "si"
    ELSE IF c.tipo = "escala" THEN ComparaEnEscala(c, op, v, {u})
    ELSE IF EsDecimal(v) /\ EsDecimal(u) THEN ComparaNumeros(op, v.n, u.n) ELSE "nada"

(* Is the value beyond a critical threshold?  One that is missing, or that *)
(* the scale does not have, is never passed.                               *)
MasAllaDe(c, v, r) ==
    Umbral(c, "min", v, r.minCritico) = "no" \/ Umbral(c, "max", v, r.maxCritico) = "no"

(* A numeric rule is read as a whole: one limit that is not a number and   *)
(* nothing can be said.                                                    *)
Legible(c, v, r) ==
    IF c.tipo = "escala"
    THEN "nada" \notin {Umbral(c, "min", v, r.minAceptable), Umbral(c, "max", v, r.maxAceptable)}
    ELSE EsDecimal(v) /\ \A u \in Umbrales : r[u] # NADA => EsDecimal(r[u])

PorBandas(c, v, r) ==
    IF ~Legible(c, v, r) THEN NoEvaluable
    ELSE IF Umbral(c, "min", v, r.minAceptable) = "si" /\ Umbral(c, "max", v, r.maxAceptable) = "si"
         THEN Medicion("NORMAL", "si")
    ELSE IF r.amarillo /\ ~MasAllaDe(c, v, r) THEN Medicion("NO_DESEADO", "no")
    ELSE Medicion("CRITICO", "no")

(* valor_esperado goes first, whatever the operator. *)
PorEsperado(c, v, r) ==
    LET cumple == ComparaConTipo(c, v, r.esperado)
    IN CASE cumple = "si" -> Medicion("NORMAL", "si")
         [] cumple = "no" -> Medicion("CRITICO", "no")
         [] cumple = "nada" -> NoEvaluable

(* The operator of the rule replaces the one of the field for this value. *)
ConOperador(c, r) == IF r.operador = NADA THEN c ELSE [c EXCEPT !.operador = r.operador]

(* A rule with no limit at all is compared as the text of its JSON. *)
SinLimites(c, v) ==
    LET cumple == ComparaConTipo(c, v, {Ilegible})
    IN IF cumple = "nada" THEN NoEvaluable
       ELSE Medicion(IF cumple = "si" THEN "NORMAL" ELSE "FUERA_DE_LIMITE", cumple)

(* _status_payload_from_field with a rule *)
Evaluar(c0, v, r) ==
    LET c == ConOperador(c0, r)
    IN IF r.esperado # {} THEN PorEsperado(c, v, r)
       ELSE IF \E u \in Umbrales : r[u] # NADA THEN PorBandas(c, v, r)
       ELSE SinLimites(c, v)

-----------------------------------------------------------------------------
(* Which rules may be saved: _validate_semaphore_rule. *)

OperadorDe(c, r) == IF r.operador = NADA THEN c.operador ELSE r.operador

(* The keys an operator asks for; "esperado" is the expected value. *)
Requeridos(op, amarillo) ==
    CASE op = "min" -> {"minAceptable"} \cup IF amarillo THEN {"minCritico"} ELSE {}
      [] op = "max" -> {"maxAceptable"} \cup IF amarillo THEN {"maxCritico"} ELSE {}
      [] op = "between" -> {"minAceptable", "maxAceptable"}
                           \cup IF amarillo THEN {"minCritico", "maxCritico"} ELSE {}
      [] op \in {"eq", "neq", "in", "not_in"} -> {"esperado"}
      [] op = "informativo" -> {}

Presentes(r) == {u \in Umbrales : r[u] # NADA} \cup IF r.esperado = {} THEN {} ELSE {"esperado"}

NoSupera(a, b) == (a # NADA /\ b # NADA) => a.n <= b.n

Ordenada(r) ==
    /\ \A u \in Umbrales : r[u] # NADA => EsDecimal(r[u])
    /\ NoSupera(r.minAceptable, r.maxAceptable)
    /\ r.amarillo => NoSupera(r.minCritico, r.minAceptable) /\ NoSupera(r.maxAceptable, r.maxCritico)

AceptadaSinOrden(c, r) ==
    OperadorDe(c, r) = "informativo" \/ Requeridos(OperadorDe(c, r), r.amarillo) \subseteq Presentes(r)

Aceptada(c, r) ==
    LET op == OperadorDe(c, r)
    IN \/ op = "informativo"
       \/ /\ Requeridos(op, r.amarillo) \subseteq Presentes(r)
          /\ c.tipo = "numerica" => Ordenada(r)

(* A rule is saved when the whole form is accepted, else nothing is. *)
GuardarRegla(r) ==
    /\ EsRegla(r)
    /\ Aceptada(campo, r)
    /\ regla' = r
    /\ UNCHANGED <<campo, evaluaciones>>

-----------------------------------------------------------------------------
(* The rule as reconcile_limit_contracts rewrites it: the keys that the    *)
(* operator of the field uses, and no others; the operator a rule carries  *)
(* is dropped.  A limit on a scale that is the id, the label or the value  *)
(* of an item is written by the value of the first such item; the engine   *)
(* never looks an id up.                                                   *)

Vacia(r) == [operador |-> NADA, amarillo |-> r.amarillo, esperado |-> {},
             minCritico |-> NADA, minAceptable |-> NADA, maxAceptable |-> NADA, maxCritico |-> NADA]

(* The limit a rule gives under another key; a list is no limit.           *)
LimiteDe(u, r) ==
    CASE u # NADA -> u
      [] u = NADA /\ r.esperado = {} -> NADA
      [] u = NADA /\ Cardinality(r.esperado) = 1 -> CHOOSE l \in r.esperado : TRUE
      [] u = NADA /\ Cardinality(r.esperado) > 1 -> Ilegible

(* Slip: a limit is written by the id of its item. *)
CanonicoPorLlave(c, v) ==
    LET suyos == {j \in Escala : v \in Palabras(c.items[j])}
    IN IF v = NADA \/ suyos = {} THEN v ELSE c.items[Primero(suyos)].llave

(* _canonical_scale_value *)
ValorCanonico(c, v) ==
    LET suyos == {j \in Escala : v \in Palabras(c.items[j])}
    IN IF v = NADA \/ suyos = {} THEN v ELSE c.items[Primero(suyos)].valor

(* A list of several expected values is the text of no item. *)
EnEscala(c, r) ==
    [r EXCEPT !.esperado = IF \E l \in @ : @ = {l} THEN {ValorCanonico(c, l) : l \in @} ELSE @,
              !.minCritico = ValorCanonico(c, @), !.minAceptable = ValorCanonico(c, @),
              !.maxAceptable = ValorCanonico(c, @), !.maxCritico = ValorCanonico(c, @)]

(* The keys canonicalize_field_rule keeps. *)
ClavesPropias(c, r) ==
    CASE c.operador \in {"eq", "neq"} -> [Vacia(r) EXCEPT !.esperado = r.esperado, !.amarillo = FALSE]
      [] c.operador = "min" -> [Vacia(r) EXCEPT !.minCritico = r.minCritico,
                                                !.minAceptable = LimiteDe(r.minAceptable, r)]
      [] c.operador = "between" -> [r EXCEPT !.operador = NADA, !.esperado = {}]
      [] OTHER -> [Vacia(r) EXCEPT !.maxAceptable = LimiteDe(r.maxAceptable, r),
                                   !.maxCritico = r.maxCritico]

(* canonicalize_field_rule *)
Canonica(c, r) ==
    IF c.tipo = "escala" THEN EnEscala(c, ClavesPropias(c, r)) ELSE ClavesPropias(c, r)

(* reconcile_definition_contracts *)
ReconciliarRegla ==
    /\ regla # NADA
    /\ regla' = Canonica(campo, regla)
    /\ UNCHANGED <<campo, evaluaciones>>

-----------------------------------------------------------------------------
(* How the fields of a test add up: evaluation_rules.py. *)

Evaluacion == [estado : {"NORMAL", "NO_DESEADO", "CRITICO", "FUERA_DE_LIMITE", "NO_EVALUABLE",
                         "SIN_LIMITE_CONFIGURADO", "SIN_INFORMACION_TECNICA"},
               cumple : {"si", "no", "nada"},
               informativo : BOOLEAN,
               resultado : Resultados]

(* What the evaluators return: a state and whether it passes go together. *)
Posible(e) ==
    CASE e.estado = "NORMAL" -> e.cumple = "si"
      [] e.estado \in {"NO_DESEADO", "CRITICO", "FUERA_DE_LIMITE"} -> e.cumple = "no"
      [] OTHER -> e.cumple = "nada"

Comparables(es) == {e \in es : e.cumple # "nada" /\ ~e.informativo}

Rojas(es) == {e \in Comparables(es) : e.estado \in {"CRITICO", "FUERA_DE_LIMITE"}}
Amarillas(es) == {e \in Comparables(es) : e.estado = "NO_DESEADO"}
FaltaInformacion(es) == \E e \in es : e.estado = "SIN_INFORMACION_TECNICA"

(* _flat_outcome *)
Plano(es) ==
    IF FaltaInformacion(es) THEN "SIN_INFORMACION_TECNICA"
    ELSE IF Comparables(es) = {} THEN "NO_EVALUABLE"
    ELSE IF Rojas(es) # {} THEN "CRITICO"
    ELSE IF Amarillas(es) # {} THEN "NO_DESEADO"
    ELSE IF \A e \in Comparables(es) : e.cumple = "si" THEN "NORMAL" ELSE "CRITICO"

DelResultado(es, g) == {e \in es : e.resultado = g}
GruposConVacios(es) == {Plano(DelResultado(es, e.resultado)) : e \in es}

Grupos(es) == {Plano(DelResultado(es, e.resultado)) : e \in es} \ {"NO_EVALUABLE"}

(* aggregate_evaluations: the results first, then the worst of them. *)
Resumen(es) ==
    IF FaltaInformacion(es) \/ Grupos(es) = {} THEN Plano(es)
    ELSE IF "CRITICO" \in Grupos(es) THEN "CRITICO"
    ELSE IF "NO_DESEADO" \in Grupos(es) THEN "NO_DESEADO"
    ELSE "NORMAL"

Agregar(e) ==
    /\ e \in Evaluacion /\ Posible(e)
    /\ evaluaciones' = evaluaciones \cup {e}
    /\ UNCHANGED <<campo, regla>>

-----------------------------------------------------------------------------
InitEvaluacion ==
    /\ campo \in Campo
    /\ regla = NADA
    /\ evaluaciones = {}

(* The forms rules are read from, given by the instance. *)
NextRegla(formularios) == ReconciliarRegla \/ \E r \in formularios : GuardarRegla(r)
NextResumen(maximo) == Cardinality(evaluaciones) < maximo /\ \E e \in Evaluacion : Agregar(e)

(* Any rule and any number of fields. *)
NextEvaluacion ==
    \/ ReconciliarRegla
    \/ \E r : GuardarRegla(r)
    \/ \E e \in Evaluacion : Agregar(e)

SpecEvaluacion == InitEvaluacion /\ [][NextEvaluacion]_varsEvaluacion

-----------------------------------------------------------------------------
TiposEvaluacion ==
    /\ campo \in Campo
    /\ regla # NADA => EsRegla(regla)
    /\ evaluaciones \subseteq Evaluacion

Gravedad(estado) ==
    CASE estado = "NORMAL" -> 0 [] estado = "NO_DESEADO" -> 1
      [] estado \in {"CRITICO", "FUERA_DE_LIMITE"} -> 2

(* A rule that only carries the keys its operator asks for. *)
SoloLoSuyo(c, r) == Presentes(r) \subseteq Requeridos(OperadorDe(c, r), r.amarillo)

Decimales == {v \in Valor : EsDecimal(v)}

(* w is farther from what the rule accepts than v, on the same side. *)
MasLejos(r, v, w) ==
    \/ r.maxAceptable # NADA /\ v.n > r.maxAceptable.n /\ w.n > v.n
    \/ r.minAceptable # NADA /\ v.n < r.minAceptable.n /\ w.n < v.n

(* A threshold rule the form accepts, saved by it or rewritten, judges     *)
(* every numeric result, and a result that lies farther out is never       *)
(* judged better (limit_engine.py:685-712 with the checks at               *)
(* dynamicTechnicalConfig/index.py:1369-1430).                             *)
SeveridadMonotona ==
    regla # NADA /\ Aceptada(campo, regla) /\ campo.tipo = "numerica" /\ SoloLoSuyo(campo, regla)
    /\ OperadorDe(campo, regla) \in {"min", "max", "between"} =>
        \A v, w \in Decimales :
            /\ Evaluar(campo, v, regla).cumple # "nada"
            /\ MasLejos(regla, v, w) =>
                  Gravedad(Evaluar(campo, v, regla).estado) <= Gravedad(Evaluar(campo, w, regla).estado)

(* No text of an item is read as another item. *)
Inequivoca(items) ==
    \A j, k \in DOMAIN items :
        j # k => \A w \in Palabras(items[j]) :
                     /\ Normal(w) # Normal(items[k].etiqueta)
                     /\ Normal(w) # items[k].valor

(* A limit is given by the id of an item, which the engine does not know. *)
PorLlave(c, r) ==
    /\ c.tipo = "escala"
    /\ \E j \in DOMAIN c.items :
           c.items[j].llave \in r.esperado \cup {r[u] : u \in Umbrales}

(* Rewriting a rule takes no verdict away and makes none milder, changes   *)
(* none at all unless a limit was an id, and rewriting it again changes    *)
(* nothing, when the rule has the operator of its field and the keys that  *)
(* operator uses and the scale is not ambiguous                            *)
(* (limit_contract_reconciliation.py:41-108 against limit_engine.py:       *)
(* 613-737, 740-748, 1097-1109).                                           *)
VeredictoCanonico ==
    regla # NADA /\ regla.operador \in {NADA, campo.operador}
    /\ campo.operador \in {"min", "max", "between", "eq", "neq"}
    /\ Presentes(regla) \subseteq Requeridos(campo.operador, TRUE)
    /\ (campo.tipo = "escala" => Inequivoca(campo.items)) =>
        LET nueva == Canonica(campo, regla)
        IN /\ \A v \in Valor :
                  LET antes == Evaluar(campo, v, regla)
                      ahora == Evaluar(campo, v, nueva)
                  IN /\ antes.cumple # "nada" =>
                            /\ ahora.cumple = antes.cumple
                            /\ Gravedad(antes.estado) <= Gravedad(ahora.estado)
                     /\ ~PorLlave(campo, regla) => ahora = antes
           /\ Canonica(campo, nueva) = nueva

(* The verdict on a test does not depend on how its fields are grouped in  *)
(* results: it is the worst of the fields that count                       *)
(* (evaluation_rules.py:117-201 against :59-103).                          *)
GruposNoCambianElVeredicto ==
    Resumen(evaluaciones) = Plano(evaluaciones)

=============================================================================
