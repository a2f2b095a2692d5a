--------------------------- MODULE MCConfiguracion --------------------------
(***************************************************************************)
(* The technical configuration of the laboratory: catalogues and scales,   *)
(* the versions of the limits of a test and the contract of an assignment, *)
(* the fields of a version, the evaluation of a value, the values of a     *)
(* result with their workbook, the workbook of a batch, the predefined     *)
(* batches of tests and the document a report prints.  The parts share no  *)
(* state, so a behaviour works on one.                                     *)
(***************************************************************************)
EXTENDS Documento, Libro, Planilla, Limites, Contrato, Catalogos, Predefinidos, TLC

CONSTANTS Partes,          \* the parts a run works on
          MaxEnServicio,   \* bound: versions while requests overlap
          MaxActividad     \* bound: editions and requests on them, together

VARIABLE parte             \* the part this behaviour works on

varsConfiguracion == <<varsEvaluacion, varsLimites, varsContrato, varsCatalogos, varsDocumento,
                       varsLibro, varsPlanilla, varsPredefinidos, parte>>

Simetria == Permutations(Editores \cup Redactores)

(* Numbers of a result and of a threshold. *)
TresNumeros == 0..2

(* A sample is filed under a point of a machine, a machine, or a plate.    *)
TresSitios ==
    {[punto |-> l[1], maquina |-> l[2], placa |-> 1] :
        l \in {<<1, 1>>, <<NADA, 1>>, <<NADA, NADA>>}}

Punto(n) == [forma |-> "punto", n |-> n]

(* Items with the texts they are given: id, label and normalised value.    *)
(* One scale as the forms make it, one of numbers whose ids are other      *)
(* numbers of it, and one whose labels were changed by themselves.         *)
Palabra(n) == [forma |-> "palabra", n |-> n]
EnItem(llave, etiqueta, valor) == [llave |-> llave, etiqueta |-> etiqueta, valor |-> valor]

TresEscalas ==
    {<<EnItem(Punto(1), Palabra(1), Palabra(1)), EnItem(Punto(2), Palabra(2), Palabra(2))>>,
     <<EnItem(Punto(1), Punto(0), Punto(0)), EnItem(Punto(2), Punto(1), Punto(1))>>,
     <<EnItem(Punto(0), Palabra(1), Palabra(0)), EnItem(Punto(1), Palabra(2), Punto(2))>>}

Cotas == {NADA, Punto(0), Punto(1), Punto(2),
             [forma |-> "coma", n |-> 1], [forma |-> "palabra", n |-> 1]}

(* What a form of thresholds is sent with. *)
Formularios ==
    [operador : {NADA} \cup Operadores, amarillo : BOOLEAN,
     esperado : {{}, {Punto(1)}, {[forma |-> "palabra", n |-> 1]}, {Punto(0), Punto(1)}},
     minCritico : Cotas, minAceptable : Cotas, maxAceptable : Cotas, maxCritico : Cotas]

(* One operator is enough to see a rule that carries another. *)
FormulariosDe(c) ==
    IF regla # NADA THEN {}
    ELSE {r \in Formularios :
              (c.tipo = "numerica" /\ c.operador = "max") \/ r.operador = NADA}

(* The lists of values a form sends, and the files an import is given, of  *)
(* two fields and of two samples.                                          *)
ASSUME DosCasillas ==
    2 \in Casillas /\ 2 \in PruebasMuestra /\ {"vacia", "etiqueta"} \subseteq Escritos

ListasDeValores ==
    {<<[clave |-> 1, valor |-> "opcion"]>>, <<[clave |-> 2, valor |-> "numero"]>>,
     <<[clave |-> 1, valor |-> "numero"], [clave |-> 2, valor |-> "vacia"]>>}

Archivos == {[p \in D |-> [k \in {1} |-> v]] : D \in {{1}, {1, 2}}, v \in {"numero", "etiqueta"}}

(* No list, one detail, and one that is sent twice. *)
ListasDeDetalles == {SINDATO} \cup {<<d>> : d \in Detalles} \cup {<<d, d>> : d \in Detalles}

(* What a client writes in a row of the workbook of a batch: each value of *)
(* two columns for a sample of a registered point, and each way to say     *)
(* where a sample was taken.                                               *)
Equipo(e)      == [empresa |-> e, placa |-> "q1"]
PuntoDe(e)     == [maquina |-> Equipo(e), nombre |-> "p1"]
PuntosDePlanta == {PuntoDe("a"), PuntoDe("b")}

Escrita(condicion, maquina, punto, placa, manual, celdas) ==
    [condicion |-> condicion, maquina |-> maquina, punto |-> punto, placa |-> placa,
     manual |-> manual, lubricante |-> TRUE, referencia |-> FALSE, celdas |-> celdas]

FilaNormal(celdas) == Escrita("usada", SinDato, PuntoDe("a"), SinDato, SinDato, celdas)

FilasDePlanilla ==
    LET ignoradas == <<DESCONOCIDO, DESCONOCIDO>>
        Lugar(m, p, q, n) == Escrita("usada", m, p, q, n, ignoradas)
        deA == Equipo("a")  deB == Equipo("b")  puntoA == PuntoDe("a")
    IN
    {FilaNormal(<<v, w>>) : v \in {SinDato, 1}, w \in {SinDato, 1, 3}}
    \cup {FilaNormal(<<DESCONOCIDO, 3>>), FilaNormal(<<2, SinDato>>)}
    \cup {[FilaNormal(ignoradas) EXCEPT !.lubricante = FALSE, !.referencia = escrita] :
              escrita \in BOOLEAN}
    \cup {Escrita(c, deA, SinDato, SinDato, SinDato, ignoradas) : c \in {"usada", "nueva", "otra"}}
    \cup {Lugar(deA, puntoA, SinDato, SinDato), Lugar(deB, puntoA, SinDato, SinDato),
          Lugar(SinDato, PuntoDe("b"), SinDato, SinDato), Lugar(SinDato, puntoA, "q1", SinDato),
          Lugar(SinDato, puntoA, SinDato, "p1"), Lugar(SinDato, SinDato, "q1", "p1"),
          Lugar(SinDato, SinDato, "q2", "p2"), Lugar(SinDato, SinDato, SinDato, "p1"),
          Lugar(deB, SinDato, "q2", SinDato), Lugar(deA, SinDato, "q2", "p1")}

(* What changes, changes after the download and before a refusal; a batch  *)
(* of another company than the template's sees one change.                 *)
CambiosDeLaFila ==
    IF plantilla = SinDato THEN 0
    ELSE IF muestra # SinDato /\ muestra.empresa # plantilla.empresa THEN 1
    ELSE MaxCambiosDePlanilla

(* A list of one scale and an edit into it, under way. *)
OrdenYEdicion ==
    \E q \in tramites : /\ q.op = "ordenar"
                        /\ \A p \in tramites \ {q} : p.op = "editar" /\ p.escala = q.escala

InitConfiguracion ==
    /\ InitEvaluacion /\ InitLimites /\ InitContrato /\ InitCatalogos /\ InitDocumento
    /\ InitLibro /\ InitPlanilla /\ InitPredefinidos
    /\ parte \in Partes
    /\ parte # "regla" => campo.tipo = "numerica" /\ campo.operador = "max"
    /\ campo.tipo # "escala" => campo.items[1].etiqueta = Palabra(1) /\ campo.items[1].llave = Punto(1)
    /\ parte # "libro" => filas = <<>>
    /\ tecnicos[1].catalogo = "A" /\ \A f \in CamposTecnicos : ~tecnicos[f].obligatorio
    /\ catalogoDe[3] = "B" /\ \A o \in Opciones \ {3} : catalogoDe[o] = "A"
    /\ actuales["A"] = {1} /\ actuales["B"] = {3}
    /\ parte # "planilla" => \A f \in CamposTecnicos : tecnicos[f].catalogo = "A"
    /\ parte # "asignacion" => asignacion.item = FALSE
    /\ asignacion.prueba = CHOOSE p \in Pruebas : TRUE

NextConfiguracion ==
    /\ parte' = parte
    /\ \/ /\ parte = "regla" /\ NextRegla(FormulariosDe(campo))
          /\ regla = NADA \/ ReconciliarRegla      \* a rule is saved once
          /\ UNCHANGED <<varsLimites, varsContrato, varsCatalogos, varsDocumento, varsLibro,
                         varsPlanilla, varsPredefinidos>>
       \/ /\ parte = "resumen" /\ NextResumen(3)
          /\ UNCHANGED <<varsLimites, varsContrato, varsCatalogos, varsDocumento, varsLibro,
                         varsPlanilla, varsPredefinidos>>
       \/ /\ parte = "versiones" /\ NextVersiones /\ Len(fuentes') <= MaxEnServicio
          /\ UNCHANGED <<varsEvaluacion, varsContrato, varsCatalogos, varsDocumento, varsLibro,
                         varsPlanilla, varsPredefinidos>>
       \/ /\ parte = "asignacion" /\ NextAsignacion
          /\ UNCHANGED <<varsEvaluacion, varsContrato, varsCatalogos, varsDocumento, varsLibro,
                         varsPlanilla, varsPredefinidos>>
       \/ /\ parte = "contrato" /\ NextContrato
          /\ UNCHANGED <<varsEvaluacion, varsLimites, varsCatalogos, varsDocumento, varsLibro,
                         varsPlanilla, varsPredefinidos>>
       \/ /\ parte = "catalogo" /\ (NextEdiciones \/ NextItems)
          /\ Len(ediciones') + Cardinality(pendientes') <= MaxActividad
          /\ UNCHANGED <<varsEvaluacion, varsLimites, varsContrato, varsDocumento, varsLibro,
                         varsPlanilla, varsPredefinidos>>
       \/ /\ parte = "documento" /\ NextDocumento
          /\ UNCHANGED <<varsEvaluacion, varsLimites, varsContrato, varsCatalogos, varsLibro,
                         varsPlanilla, varsPredefinidos>>
       \/ /\ parte = "libro" /\ NextLibro(ListasDeValores, Archivos, {"booleano"})
          /\ UNCHANGED <<varsEvaluacion, varsLimites, varsContrato, varsCatalogos, varsDocumento,
                         varsPlanilla, varsPredefinidos>>
       \/ /\ parte = "planilla" /\ NextPlanilla
          /\ ~(muestra # SinDato /\ muestra.estado = "rechazada")
          /\ retoques' <= CambiosDeLaFila'
          /\ UNCHANGED <<varsEvaluacion, varsLimites, varsContrato, varsCatalogos, varsDocumento,
                         varsLibro, varsPredefinidos>>
       \/ /\ parte = "predefinidos" /\ NextPredefinidos
          /\ UNCHANGED <<varsEvaluacion, varsLimites, varsContrato, varsCatalogos, varsDocumento,
                         varsLibro, varsPlanilla>>
       \/ /\ parte = "escala" /\ NextEscala
          /\ Len(renglones') + Cardinality(tramites') <= MaxActividad \/ OrdenYEdicion'
          /\ UNCHANGED <<varsEvaluacion, varsLimites, varsContrato, varsDocumento, varsLibro,
                         varsPlanilla, varsPredefinidos>>

SpecConfiguracion == InitConfiguracion /\ [][NextConfiguracion]_varsConfiguracion

(* Every table holds rows of its form. *)
TiposConfiguracion ==
    /\ TiposEvaluacion /\ TiposLimites /\ TiposContrato /\ TiposCatalogos /\ TiposDocumento
    /\ TiposLibro /\ TiposPlanilla /\ TiposPredefinidos
=============================================================================
