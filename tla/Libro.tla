------------------------------- MODULE Libro -------------------------------
(***************************************************************************)
(* The values of a result and the workbook they travel in: the fields a    *)
(* test asks for, drafts, corrections, the Excel template, its import and  *)
(* its export, the field a stored value is judged as and the history shown *)
(* for a result (resultado/api/views/index.py).                            *)
(*                                                                         *)
(* No endpoint locks the result: a request reads it, checks, and writes    *)
(* the whole of it later, while others do the same.  Who may save at all   *)
(* is in Captura.  A stored list of values is a sequence, in its order.    *)
(***************************************************************************)
EXTENDS Naturals, Sequences, SequencesExt, FiniteSets, FiniteSetsExt

CONSTANTS PruebasMuestra, \* tests of a batch, numbered in the order of the workbook
          Casillas,         \* fields a test may have, numbered in their order
          Escritos,         \* what is typed: some of "numero", "opcion", "etiqueta", "vacia"
          Clientes,       \* requests in progress at the same time
          NULO,
          MaxMovimientos  \* bound: requests and edits of the test in a behaviour

VARIABLES
    estructura, \* the active fields of the test and their type
    filas,      \* rows of Resultado, with their HistoricoResultado
    versiones,  \* every payload stored so far, as it was stored
    solicitud,  \* what each request has read and is about to write
    movimientos \* requests opened and edits made so far

ASSUME LibroEnOrden ==
    /\ IsFiniteSet(PruebasMuestra) /\ PruebasMuestra \subseteq Nat /\ 1 \in PruebasMuestra
    /\ IsFiniteSet(Casillas) /\ Casillas \subseteq Nat \ {0} /\ 1 \in Casillas
    /\ {"numero", "opcion"} \subseteq Escritos

varsLibro == <<estructura, filas, versiones, solicitud, movimientos>>

TiposDeDato == {"decimal", "escala", "booleano"}

Celda == [clave : Casillas \cup {0}, valor : Escritos]

-----------------------------------------------------------------------------
(* The fields of a test; one that has none asks for a single number. *)
CamposDe(e) == IF DOMAIN e = {} THEN [k \in {0} |-> "decimal"] ELSE e

DeMenorAMayor(S) == CHOOSE s \in [1..Cardinality(S) -> S] : \A i, j \in DOMAIN s : i < j => s[i] < s[j]

EnOrden(campos) == DeMenorAMayor(DOMAIN campos)

(* _validate_result_value: "opcion" is the value of an option, "etiqueta"  *)
(* its label, which only a yes/no field takes.                             *)
Valido(tipo, texto) ==
    \/ texto = "vacia"
    \/ tipo = "decimal" /\ texto = "numero"
    \/ tipo = "escala" /\ texto = "opcion"
    \/ tipo = "booleano" /\ texto \in {"opcion", "etiqueta"}

(* _normalize_imported_result_value: a label becomes the value it names. *)
Normalizado(tipo, texto) ==
    IF tipo # "decimal" /\ texto = "etiqueta" THEN "opcion" ELSE texto

(* Every value is of a field asked for, and fits it. *)
Aceptados(campos, valores) ==
    \A c \in ToSet(valores) : c.clave \in DOMAIN campos /\ Valido(campos[c.clave], c.valor)

-----------------------------------------------------------------------------
(* The result of a test: the row stored last, 0 for none. *)
FilaActiva(p) ==
    LET suyas == {n \in DOMAIN filas : filas[n].prueba = p}
    IN IF suyas = {} THEN 0
       ELSE CHOOSE n \in suyas : \A otra \in suyas : filas[otra].version <= filas[n].version

VersionDe(n) == IF n = 0 THEN 0 ELSE filas[n].version

ValoresDe(n) == IF n = 0 THEN <<>> ELSE versiones[VersionDe(n)].valores

(* Slip: the structure of today before the one the value was typed in. *)
CampoDeHoy(v, i) ==
    LET clave == v.valores[i].clave
        hoy   == CamposDe(estructura)
    IN IF clave \in DOMAIN hoy THEN hoy[clave]
       ELSE IF v.campos # NULO /\ clave \in DOMAIN v.campos THEN v.campos[clave]
       ELSE IF i <= Len(EnOrden(hoy)) THEN hoy[EnOrden(hoy)[i]] ELSE NULO

(* _evaluate_sample_test_limits: the field stored with the value, else the *)
(* one of that key now, else the one in that place now.                    *)
CampoQueJuzga(v, i) ==
    LET clave == v.valores[i].clave
        hoy   == CamposDe(estructura)
    IN IF v.campos # NULO /\ clave \in DOMAIN v.campos THEN v.campos[clave]
       ELSE IF clave \in DOMAIN hoy THEN hoy[clave]
       ELSE IF i <= Len(EnOrden(hoy)) THEN hoy[EnOrden(hoy)[i]] ELSE NULO

(* excel_export: the value of the key, else the one in that place. *)
Exportado(p, lugar) ==
    LET valores == ValoresDe(FilaActiva(p))
        clave   == EnOrden(CamposDe(estructura))[lugar]
        suyas   == {i \in DOMAIN valores : valores[i].clave = clave}
    IN IF suyas # {} THEN valores[Max(suyas)].valor
       ELSE IF lugar <= Len(valores) THEN valores[lugar].valor ELSE "vacia"

(* The cells a template has for a test. *)
Plantilla == DOMAIN CamposDe(estructura)

-----------------------------------------------------------------------------
(* What a request writes when it ends: rows, versions and the history.     *)

Escritura(p, n, campos, valores) ==
    [prueba |-> p, fila |-> n, leida |-> VersionDe(n), campos |-> campos, valores |-> valores]

(* Slip: the history row is written after the payload was replaced. *)
AnteriorYaCambiado(w, nueva) == nueva

(* What HistoricoResultado keeps of a result that is stored again. *)
Anterior(w, nueva) == w.leida

FilaEscrita(w, nueva, anteriores) ==
    [prueba |-> w.prueba, version |-> nueva, historico |-> anteriores]

(* The writes ws of one transaction, in their order. *)
Guardar(ws, origen) ==
    LET base     == Len(versiones)
        nueva(i) == base + i
        sobre(n) == {i \in DOMAIN ws : ws[i].fila = n}
        crean    == DeMenorAMayor({i \in DOMAIN ws : ws[i].fila = 0})
    IN /\ versiones' = versiones \o
             [i \in DOMAIN ws |-> [prueba |-> ws[i].prueba, campos |-> ws[i].campos,
                                   valores |-> ws[i].valores, leida |-> ws[i].leida,
                                   origen |-> origen, primera |-> base + 1]]
       /\ filas' = [n \in DOMAIN filas |->
                       IF sobre(n) = {} THEN filas[n]
                       ELSE LET i == Max(sobre(n))
                            IN FilaEscrita(ws[i], nueva(i),
                                           Append(filas[n].historico, Anterior(ws[i], nueva(i))))]
                   \o [j \in DOMAIN crean |-> FilaEscrita(ws[crean[j]], nueva(crean[j]), <<>>)]

Libre(c) == solicitud[c] = NULO

Despachar(c) == solicitud' = [solicitud EXCEPT ![c] = NULO]

Contar == movimientos < MaxMovimientos /\ movimientos' = movimientos + 1

Solicitar(c, tipo, ws, celdas, resto) ==
    /\ Contar
    /\ solicitud' = [solicitud EXCEPT ![c] = [tipo |-> tipo, escritas |-> ws, celdas |-> celdas,
                                              resto |-> resto, mezcla |-> NULO]]

(* save_draft, confirm_result: the values are checked against the fields   *)
(* of now, which are stored with them; the result is read after that.  A   *)
(* confirmation takes no empty value, and a retry of it changes nothing.   *)
AbrirGuardado(c, p, valores, confirma) ==
    /\ Libre(c)
    /\ Aceptados(CamposDe(estructura), valores)
    /\ confirma => \A v \in ToSet(valores) : v.valor # "vacia"
    /\ Solicitar(c, "guardar", <<Escritura(p, FilaActiva(p), CamposDe(estructura), valores)>>, NULO, <<>>)
    /\ UNCHANGED <<estructura, filas, versiones>>

(* correct_result: of any row, against the fields that row was stored with *)
(* and keeping them.  A payload without them makes the request fail.       *)
AbrirCorreccion(c, n, valores) ==
    LET campos == versiones[VersionDe(n)].campos
    IN /\ Libre(c) /\ n \in DOMAIN filas /\ campos # NULO
       /\ Aceptados(campos, valores)
       /\ Solicitar(c, "corregir", <<Escritura(filas[n].prueba, n, campos, valores)>>, NULO, <<>>)
       /\ UNCHANGED <<estructura, filas, versiones>>

(* A row of Resultado that a transaction wrote stays locked until it ends. *)
Bloqueada(n, c) ==
    \E otro \in Clientes \ {c} :
        ~Libre(otro) /\ solicitud[otro].tipo = "importar"
        /\ \E w \in ToSet(solicitud[otro].escritas) : w.fila = n /\ n # 0

EscribirGuardado(c) ==
    /\ ~Libre(c) /\ solicitud[c].tipo # "importar"
    /\ ~Bloqueada(solicitud[c].escritas[1].fila, c)
    /\ Guardar(solicitud[c].escritas, NULO)
    /\ Despachar(c)
    /\ UNCHANGED <<estructura, movimientos>>

(* _parse_result_excel: the cells of a file that still belong to the test  *)
(* and fit their field, in the words of the form.  One bad row, a row that *)
(* is not of its template or a repeated one refuse the file; an empty cell *)
(* is not there.                                                           *)
AnalizarImportacion(c, celdas) ==
    LET hoy == CamposDe(estructura)
    IN /\ Libre(c)
       /\ DOMAIN celdas # {}
       /\ \A p \in DOMAIN celdas : DOMAIN celdas[p] # {} /\ DOMAIN celdas[p] \subseteq Plantilla
       /\ \A p \in DOMAIN celdas : \A k \in DOMAIN celdas[p] :
             celdas[p][k] # "vacia" /\ Valido(hoy[k], celdas[p][k])
       /\ Solicitar(c, "importar", <<>>,
                    [p \in DOMAIN celdas |->
                        [k \in DOMAIN celdas[p] |-> Normalizado(hoy[k], celdas[p][k])]],
                    DeMenorAMayor(DOMAIN celdas))
       /\ UNCHANGED <<estructura, filas, versiones>>

(* The stored values with the cells of the file over them, new ones last. *)
Mezcla(valores, celdas) ==
    LET puestas == {c.clave : c \in ToSet(valores)}
        nuevas  == DeMenorAMayor(DOMAIN celdas \ puestas)
    IN [i \in DOMAIN valores |-> IF valores[i].clave \in DOMAIN celdas
                                 THEN [valores[i] EXCEPT !.valor = celdas[valores[i].clave]]
                                 ELSE valores[i]]
       \o [j \in DOMAIN nuevas |-> [clave |-> nuevas[j], valor |-> celdas[nuevas[j]]]]

EnCurso(c) == ~Libre(c) /\ solicitud[c].tipo = "importar" /\ solicitud[c].resto # <<>>

(* excel_import takes the tests one by one, in one transaction: it reads   *)
(* the stored values, ...                                                  *)
MezclarPrueba(c) ==
    LET p == Head(solicitud[c].resto)
    IN /\ EnCurso(c) /\ solicitud[c].mezcla = NULO
       /\ solicitud' = [solicitud EXCEPT ![c].mezcla =
                           Mezcla(ValoresDe(FilaActiva(p)), solicitud[c].celdas[p])]
       /\ UNCHANGED <<estructura, filas, versiones, movimientos>>

(* ... and saves them as a draft does, reading the result again; *)
GuardarPrueba(c) ==
    LET p == Head(solicitud[c].resto)
    IN /\ EnCurso(c) /\ solicitud[c].mezcla # NULO
       /\ Aceptados(CamposDe(estructura), solicitud[c].mezcla)
       /\ ~Bloqueada(FilaActiva(p), c)
       /\ solicitud' = [solicitud EXCEPT
             ![c].escritas = Append(@, Escritura(p, FilaActiva(p), CamposDe(estructura),
                                                 solicitud[c].mezcla)),
             ![c].resto = Tail(@), ![c].mezcla = NULO]
       /\ UNCHANGED <<estructura, filas, versiones, movimientos>>

(* Slip: what was saved before the error stays. *)
TrasErrorQueda(c) == solicitud[c].escritas

(* set_rollback(True) *)
TrasError(c) == <<>>

(* a value that no longer fits takes everything back. *)
FallarImportacion(c) ==
    /\ EnCurso(c) /\ solicitud[c].mezcla # NULO
    /\ ~Aceptados(CamposDe(estructura), solicitud[c].mezcla)
    /\ Guardar(TrasError(c), solicitud[c].celdas)
    /\ Despachar(c)
    /\ UNCHANGED <<estructura, movimientos>>

TerminarImportacion(c) ==
    /\ ~Libre(c) /\ solicitud[c].tipo = "importar" /\ solicitud[c].resto = <<>>
    /\ Guardar(solicitud[c].escritas, solicitud[c].celdas)
    /\ Despachar(c)
    /\ UNCHANGED <<estructura, movimientos>>

(* The author of the test changes, retires or brings back a field. *)
EditarEstructura(k, tipo) ==
    /\ Contar
    /\ estructura' = IF tipo = NULO THEN [x \in DOMAIN estructura \ {k} |-> estructura[x]]
                     ELSE [x \in DOMAIN estructura \cup {k} |-> IF x = k THEN tipo ELSE estructura[x]]
    /\ estructura' # estructura
    /\ UNCHANGED <<filas, versiones, solicitud>>

-----------------------------------------------------------------------------
(* A result older than the structured payload kept its values alone. *)
Legado(p) ==
    [prueba |-> p, campos |-> NULO, valores |-> <<[clave |-> 1, valor |-> "numero"]>>,
     leida |-> 0, origen |-> NULO, primera |-> 1]

InitLibro ==
    /\ estructura = [k \in Casillas |-> "decimal"]
    /\ \/ filas = <<>> /\ versiones = <<>>
       \/ /\ versiones = <<Legado(1)>>
          /\ filas = <<[prueba |-> 1, version |-> 1, historico |-> <<>>]>>
    /\ solicitud = [c \in Clientes |-> NULO] /\ movimientos = 0

(* The lists, the files and the types the instance enumerates are given to it. *)
NextLibro(listas, archivos, tipos) ==
    \E c \in Clientes :
        \/ \E p \in PruebasMuestra, v \in listas, si \in BOOLEAN : AbrirGuardado(c, p, v, si)
        \/ \E n \in DOMAIN filas, v \in listas : AbrirCorreccion(c, n, v)
        \/ EscribirGuardado(c)
        \/ \E a \in archivos : AnalizarImportacion(c, a)
        \/ MezclarPrueba(c) \/ GuardarPrueba(c) \/ FallarImportacion(c) \/ TerminarImportacion(c)
        \/ \E k \in Casillas, t \in tipos \cup {NULO} : EditarEstructura(k, t)

SpecLibro(listas, archivos, tipos) == InitLibro /\ [][NextLibro(listas, archivos, tipos)]_varsLibro

-----------------------------------------------------------------------------
TiposLibro ==
    /\ DOMAIN estructura \subseteq Casillas /\ \A k \in DOMAIN estructura : estructura[k] \in TiposDeDato
    /\ \A n \in DOMAIN filas : /\ filas[n].prueba \in PruebasMuestra
                               /\ filas[n].version \in DOMAIN versiones
                               /\ ToSet(filas[n].historico) \subseteq DOMAIN versiones
    /\ \A i \in DOMAIN versiones : ToSet(versiones[i].valores) \subseteq Celda

(* A value stored with its fields is judged as a field it fits, whatever   *)
(* was done to the test between the moment it was typed and the judgement  *)
(* (index.py:1716-1764, :2853-2898 and :3025-3069 against :1019-1035).     *)
JuzgadoPorSuCampo ==
    \A n \in DOMAIN filas :
        LET v == versiones[filas[n].version]
        IN v.campos # NULO => \A i \in DOMAIN v.valores : Valido(CampoQueJuzga(v, i), v.valores[i].valor)

Mostradas(n) == ToSet(filas[n].historico) \cup {filas[n].version}

(* The history of a result shows every version that was ever stored for    *)
(* its test, but one that a request wrote over without having read it      *)
(* (index.py:1790-1810 and :3051-3060 against :2947-2999).                 *)
HistoriaCompleta ==
    \A i \in DOMAIN versiones :
        LET p == versiones[i].prueba
        IN \/ i \in Mostradas(FilaActiva(p))
           \/ \E j \in DOMAIN versiones : j > i /\ versiones[j].prueba = p /\ versiones[j].leida < i

(* An import stores all the cells of its file or none of them, and as long *)
(* as nobody stores the test again or edits it, its export shows each cell *)
(* under its own field (index.py:2862-2905 against :2397-2401).            *)
ImportacionEntera ==
    \A j \in DOMAIN versiones : versiones[j].origen # NULO =>
        \A p \in DOMAIN versiones[j].origen :
            \E i \in DOMAIN versiones :
                /\ versiones[i].primera = versiones[j].primera /\ versiones[i].prueba = p
                /\ \A k \in DOMAIN versiones[j].origen[p] :
                      [clave |-> k, valor |-> versiones[j].origen[p][k]] \in ToSet(versiones[i].valores)
                /\ VersionDe(FilaActiva(p)) = i /\ versiones[i].campos = CamposDe(estructura) =>
                      \A lugar \in DOMAIN EnOrden(CamposDe(estructura)) :
                          LET k == EnOrden(CamposDe(estructura))[lugar]
                          IN k \in DOMAIN versiones[j].origen[p] =>
                                Exportado(p, lugar) = versiones[j].origen[p][k]
=============================================================================
