CONSTANTS
    Muestras = {m1, m2}
    Pruebas = {p1}
    MaxInformes = 1
    NINGUNA = NINGUNA
    Peticiones = {r1, r2}
    Tipos = {"aprobar", "publicar", "ocultar", "correo", "correoFallido", "anular", "invalidar"}
    Modos = {"solas", "juntas"}
    Concurrentes = {"aprobar", "publicar", "correo", "correoFallido"}

SPECIFICATION SpecModos
SYMMETRY Simetria

INVARIANT
    CierreAlcanzado

PROPERTY
    PeticionAtomica
