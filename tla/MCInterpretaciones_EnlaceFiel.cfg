CONSTANTS
    Muestras = {1}
    Peticiones = {r1, r2}
    Tipos = {"guardar", "generar"}
    MaxVersiones = 3
    MaxReportes = 2
    NADIE = NADIE

SPECIFICATION Spec

SYMMETRY Simetria

INVARIANT
    EnlaceFiel
