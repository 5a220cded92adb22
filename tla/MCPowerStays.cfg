SPECIFICATION Spec
CONSTANTS
    Minute = 2
    MaxMinutes = 1
    MaxLate = 1
PROPERTY StaysScheduled
